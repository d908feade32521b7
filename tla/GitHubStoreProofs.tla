-------------------------- MODULE GitHubStoreProofs --------------------------
(***************************************************************************)
(* Proofs about GitHubStore: a stage change that nothing disturbed leaves  *)
(* its issue at the stage it asked for, a claim after a claim fails, what  *)
(* is offered as ready can be claimed, and links keep the limits.          *)
(***************************************************************************)
EXTENDS GitHubStore, FiniteSetTheorems, SequenceTheorems, TLAPS

Calls == {"list", "index", "load", "fill", "find", "check", "refresh"} \cup Writes

\* A request in progress, or the Idle record of a client without one.
Progress ==
  [r : Request \cup {None}, todo : Seq(Calls), seen : Issue, ids : SUBSET Label,
   tries : Nat, clean : BOOLEAN, late : BOOLEAN, result : {"none", "ok", "error"}]

Has(todo, call) == \E j \in 1..Len(todo) : todo[j] = call

\* The types of the variables; only a request that creates an issue can lack one.
TypeInv ==
  /\ repo \subseteq Label
  /\ issues \in [Issues -> Issue]
  /\ index = None \/ index \subseteq Label
  /\ req \in [Clients -> Progress]
  /\ \A c \in Clients : Busy(c) /\ req[c].r.op # "create" => req[c].r.issue \in Issues

\* What may be left of a request's calls: the listing comes alone, what ends a
\* claim and the link to a parent come last, the labels of a stage change are removed and then added,
\* once each, and everything that uses the label index comes after the one call
\* that builds it.
Ordered(todo) ==
  /\ Has(todo, "list") => Len(todo) = 1
  /\ \A j \in 1..Len(todo) : todo[j] \in {"refresh", "link"} => j = Len(todo)
  /\ \A j \in 1..Len(todo) : todo[j] = "remove" => j < Len(todo) /\ todo[j + 1] = "add"
  /\ \A j \in 2..Len(todo) : todo[j] = "add" => todo[j - 1] = "remove"
  /\ \A j \in 1..Len(todo) : todo[j] \in {"index", "load", "fill"} =>
       \A k \in 1..Len(todo) : /\ todo[k] \in {"remove", "add", "create"} => j < k
                               /\ todo[k] \in {"index", "load", "fill"} => k = j
  /\ \A j, k \in 1..Len(todo) : todo[j] = todo[k] /\ todo[j] \in {"remove", "add"} => j = k

OrderInv ==
  \A c \in Clients :
    /\ Ordered(req[c].todo)
    /\ Has(req[c].todo, "refresh") => req[c].r.op = "claim"
    /\ Has(req[c].todo, "create") => req[c].r.op = "create"
    /\ Has(req[c].todo, "list") => req[c].r.op # "create"
    /\ Has(req[c].todo, "link") => req[c].r.parent \in Issues

\* Labels are the repository's, on the issues, in the index and in a request's
\* hand, and who uses the index has seen to it that there is one.
LabelInv ==
  /\ repo \subseteq Repo \cup Loose
  /\ \A i \in Issues : issues[i].labels \subseteq repo
  /\ index # None => index \subseteq repo
  /\ \A c \in Clients : req[c].ids \subseteq repo
  /\ index = None =>
       \A c \in Clients :
         /\ ~Has(req[c].todo, "fill")
         /\ (\E call \in {"remove", "add", "create"} : Has(req[c].todo, call))
              => Has(req[c].todo, "index") \/ Has(req[c].todo, "load")

\* A request that is to leave its issue at a stage.
Staged(r) == r.op = "claim" \/ (r.op = "update" /\ r.stage # None)

\* The issue has the label of stage s and of no other stage.
AtStage(labels, s) == {l \in labels : l.kind \in StageNames} = {StageToLabel(s)}

\* The labels of the issue of a request that has "todo" left and is between two calls.
Between(q, todo, labels) ==
  LET old == q.seen.labels
      s == Target(q.r)
  IN /\ Has(todo, "remove") => labels = old
     /\ ~Has(todo, "remove") /\ Has(todo, "add") => labels = old \ SwapRemove(old, s)
     /\ ~Has(todo, "remove") /\ ~Has(todo, "add") => AtStage(labels, s)

\* The same for one whose call is being repeated: it may have been carried out.
Repeated(q, labels) ==
  LET old == q.seen.labels
      s == Target(q.r)
  IN IF Head(q.todo) = "remove"
     THEN q.ids = SwapRemove(old, s) /\ labels \ q.ids = old \ q.ids
     ELSE q.ids = SwapAdd(old, s) /\ labels \cup q.ids = (old \ SwapRemove(old, s)) \cup q.ids

Repeating(q) == q.tries # 0 /\ q.todo # <<>> /\ Head(q.todo) \in Ignored

\* What LoneUpdateLands rests on.
SwapInv ==
  \A c \in Clients :
    Busy(c) /\ Staged(req[c].r) /\ req[c].clean =>
      LET q == req[c]
          labels == issues[q.r.issue].labels
      IN /\ StageToLabel(Target(q.r)) \in repo
         /\ ~Has(q.todo, "list") =>
              IF Repeating(q) THEN Repeated(q, labels) ELSE Between(q, q.todo, labels)

\* What LateClaimFails rests on: an issue whose last change was a claim is at
\* "working", so no claim that found it so is in progress.
TakenInv ==
  /\ \A i \in taken : i \in Issues /\ AtStage(issues[i].labels, "working")
  /\ \A c \in Clients : Busy(c) /\ req[c].r.op = "claim" => ~req[c].late

\* A request whose link may have been made already, so that it is not made again.
MayBeLinked(q, is) ==
  /\ q.todo # <<>> /\ Head(q.todo) = "link" /\ q.tries # 0
  /\ q.r.issue \in Issues /\ is[q.r.issue].parent # None

\* What the checks a request has behind it found of its parent to be.
LinkHolds(q, is) ==
  q.r # None /\ q.clean /\ Has(q.todo, "link") /\ ~MayBeLinked(q, is) =>
    /\ Has(q.todo, "find") \/ Cardinality(Children(is, q.r.parent)) < MaxSubIssues
    /\ Has(q.todo, "check") \/ issueDepth(is, q.r.parent) < MaxDepth

\* What LoneLinkWithinLimits rests on.
LinkInv == \A c \in Clients : LinkHolds(req[c], issues)

----------------------------------------------------------------------------
(* What is left to do *)

\* What remains after the first call, position by position.
LEMMA TailElements ==
  ASSUME NEW todo \in Seq(Calls), todo # <<>>
  PROVE  /\ Tail(todo) \in Seq(Calls) /\ Len(Tail(todo)) = Len(todo) - 1
         /\ Len(todo) \in Nat /\ Len(todo) # 0
         /\ \A j \in 1..Len(todo) - 1 : Tail(todo)[j] = todo[j + 1]
         /\ Head(todo) = todo[1] /\ Head(todo) \in Calls
  BY HeadTailProperties, EmptySeq, LenProperties

\* Nothing is left in an empty list.
LEMMA NothingLeft == (\A call : ~Has(<<>>, call)) /\ Ordered(<<>>)
<1>1. Len(<<>>) = 0
  BY EmptySeq
<1>. QED BY <1>1 DEF Has, Ordered

\* The order outlives the first call, which is gone, once it is carried out.
LEMMA OrderedTail ==
  ASSUME NEW todo \in Seq(Calls), todo # <<>>, Ordered(todo)
  PROVE  /\ Ordered(Tail(todo))
         /\ \A call : Has(Tail(todo), call) => Has(todo, call)
         /\ \A call : Has(todo, call) => (Has(Tail(todo), call) \/ Head(todo) = call)
         /\ Head(todo) = "remove" => ~Has(Tail(todo), "remove") /\ Has(Tail(todo), "add")
         /\ Head(todo) = "add" => ~Has(Tail(todo), "remove") /\ ~Has(Tail(todo), "add")
<1>. DEFINE n == Len(todo)
            tail == Tail(todo)
<1>1. /\ n \in Nat /\ n # 0 /\ Len(tail) = n - 1 /\ Head(todo) = todo[1]
      /\ \A j \in 1..n - 1 : tail[j] = todo[j + 1]
  BY TailElements
<1>. HIDE DEF n, tail
<1>2. ASSUME NEW call, Has(tail, call) PROVE Has(todo, call)
  <2>1. PICK j \in 1..n - 1 : tail[j] = call
    BY <1>1, <1>2 DEF Has
  <2>2. j + 1 \in 1..n /\ todo[j + 1] = call
    BY <1>1, <2>1
  <2>. QED BY <2>2 DEF Has, n
<1>3. ASSUME NEW call, Has(todo, call), Head(todo) # call PROVE Has(tail, call)
  <2>1. PICK j \in 1..n : todo[j] = call
    BY <1>3 DEF Has, n
  <2>2. j - 1 \in 1..n - 1 /\ (j - 1) + 1 = j
    BY <1>1, <1>3, <2>1
  <2>3. tail[j - 1] = call
    BY <1>1, <2>1, <2>2
  <2>. QED BY <1>1, <2>2, <2>3 DEF Has
<1>4. ASSUME Has(tail, "list") PROVE FALSE
  <2>1. Has(todo, "list")
    BY <1>2, <1>4
  <2>2. n = 1
    BY <2>1 DEF Ordered, n
  <2>. QED BY <1>1, <1>4, <2>2 DEF Has
<1>5. ASSUME NEW j \in 1..n - 1, tail[j] = "remove" PROVE j < n - 1 /\ tail[j + 1] = "add"
  <2>1. j + 1 \in 1..n /\ todo[j + 1] = "remove"
    BY <1>1, <1>5
  <2>2. j + 1 < n /\ todo[(j + 1) + 1] = "add"
    BY <2>1 DEF Ordered, n
  <2>. QED BY <1>1, <2>1, <2>2
<1>6. ASSUME NEW j \in 2..n - 1, tail[j] = "add" PROVE tail[j - 1] = "remove"
  <2>1. j + 1 \in 2..n /\ todo[j + 1] = "add" /\ (j + 1) - 1 = j /\ (j - 1) + 1 = j /\ j - 1 \in 1..n - 1
    BY <1>1, <1>6
  <2>2. todo[j] = "remove"
    BY <2>1 DEF Ordered, n
  <2>. QED BY <1>1, <2>1, <2>2
<1>7. ASSUME NEW j \in 1..n - 1, tail[j] \in {"index", "load", "fill"}, NEW k \in 1..n - 1
      PROVE  /\ tail[k] \in {"remove", "add", "create"} => j < k
             /\ tail[k] \in {"index", "load", "fill"} => k = j
  <2>1. j + 1 \in 1..n /\ todo[j + 1] = tail[j] /\ k + 1 \in 1..n /\ tail[k] = todo[k + 1]
    BY <1>1
  <2>2. /\ tail[k] \in {"remove", "add", "create"} => j + 1 < k + 1
        /\ tail[k] \in {"index", "load", "fill"} => k + 1 = j + 1
    BY <1>7, <2>1 DEF Ordered, n
  <2>. QED BY <1>1, <2>2
<1>8. ASSUME NEW j \in 1..n - 1, NEW k \in 1..n - 1, tail[j] = tail[k], tail[j] \in {"remove", "add"}
      PROVE  j = k
  <2>1. j + 1 \in 1..n /\ k + 1 \in 1..n /\ todo[j + 1] = todo[k + 1] /\ todo[j + 1] \in {"remove", "add"}
    BY <1>1, <1>8
  <2>2. j + 1 = k + 1
    BY <2>1 DEF Ordered, n
  <2>. QED BY <2>2
<1>12. ASSUME NEW j \in 1..n - 1, tail[j] \in {"refresh", "link"} PROVE j = n - 1
  <2>1. j + 1 \in 1..n /\ todo[j + 1] \in {"refresh", "link"}
    BY <1>1, <1>12
  <2>2. j + 1 = n
    BY <2>1 DEF Ordered, n
  <2>. QED BY <1>1, <2>2
<1>9. Ordered(tail)
  BY <1>1, <1>12, <1>4, <1>5, <1>6, <1>7, <1>8 DEF Ordered
<1>10. ASSUME Head(todo) = "remove" PROVE ~Has(tail, "remove") /\ Has(tail, "add")
  <2>1. 1 \in 1..n /\ 1 < n /\ todo[1 + 1] = "add"
    BY <1>1, <1>10 DEF Ordered, n
  <2>2. 1 \in 1..n - 1 /\ tail[1] = "add"
    BY <1>1, <2>1
  <2>3. ASSUME NEW j \in 1..n - 1, tail[j] = "remove" PROVE FALSE
    <3>1. j + 1 \in 1..n /\ todo[j + 1] = "remove" /\ todo[1] = "remove" /\ j + 1 # 1
      BY <1>1, <1>10, <2>3
    <3>. QED BY <2>1, <3>1 DEF Ordered, n
  <2>. QED BY <1>1, <2>2, <2>3 DEF Has
<1>11. ASSUME Head(todo) = "add" PROVE ~Has(tail, "remove") /\ ~Has(tail, "add")
  <2>1. ASSUME NEW j \in 1..n - 1, tail[j] = "add" PROVE FALSE
    <3>1. 1 \in 1..n /\ j + 1 \in 1..n /\ todo[j + 1] = "add" /\ todo[1] = "add" /\ j + 1 # 1
      BY <1>1, <1>11, <2>1
    <3>. QED BY <3>1 DEF Ordered, n
  <2>2. ASSUME NEW j \in 1..n - 1, tail[j] = "remove" PROVE FALSE
    <3>1. j < n - 1 /\ tail[j + 1] = "add" /\ j + 1 \in 1..n - 1
      BY <1>1, <1>5, <2>2
    <3>. QED BY <2>1, <3>1
  <2>. QED BY <1>1, <2>1, <2>2 DEF Has
<1>. QED BY <1>2, <1>3, <1>9, <1>10, <1>11 DEF tail

\* What the call at the head says of the others.
LEMMA OrderedHead ==
  ASSUME NEW todo \in Seq(Calls), todo # <<>>, Ordered(todo)
  PROVE  /\ Has(todo, Head(todo))
         /\ Has(todo, "list") => Head(todo) = "list"
         /\ Head(todo) = "refresh" => ~Has(todo, "remove") /\ ~Has(todo, "add")
         /\ Head(todo) = "link" => Tail(todo) = <<>>
         /\ Head(todo) \in {"remove", "add", "create"} =>
              \A call \in {"index", "load", "fill"} : ~Has(todo, call)
         /\ Head(todo) \in {"index", "load", "fill"} =>
              \A call \in {"index", "load", "fill"} : ~Has(Tail(todo), call)
<1>. DEFINE n == Len(todo)
            tail == Tail(todo)
<1>1. /\ n \in Nat /\ n # 0 /\ Len(tail) = n - 1 /\ Head(todo) = todo[1] /\ tail \in Seq(Calls)
      /\ \A j \in 1..n - 1 : tail[j] = todo[j + 1]
  BY TailElements
<1>. HIDE DEF n, tail
<1>2. Has(todo, Head(todo)) /\ 1 \in 1..n
  BY <1>1 DEF Has, n
<1>3. ASSUME Has(todo, "list") PROVE Head(todo) = "list"
  <2>1. n = 1
    BY <1>3 DEF Ordered, n
  <2>. QED BY <1>1, <1>3, <2>1 DEF Has, n
<1>4. ASSUME Head(todo) = "refresh" PROVE ~Has(todo, "remove") /\ ~Has(todo, "add")
  <2>1. n = 1
    BY <1>1, <1>2, <1>4 DEF Ordered, n
  <2>. QED BY <1>1, <1>4, <2>1 DEF Has, n
<1>5. ASSUME Head(todo) \in {"remove", "add", "create"}, NEW call \in {"index", "load", "fill"}, Has(todo, call)
      PROVE  FALSE
  <2>1. PICK j \in 1..n : todo[j] = call
    BY <1>5 DEF Has, n
  <2>2. j < 1
    BY <1>1, <1>2, <1>5, <2>1 DEF Ordered, n
  <2>. QED BY <1>1, <2>2
<1>6. ASSUME Head(todo) \in {"index", "load", "fill"}, NEW call \in {"index", "load", "fill"}, Has(tail, call)
      PROVE  FALSE
  <2>1. PICK j \in 1..n - 1 : todo[j + 1] = call
    BY <1>1, <1>6 DEF Has
  <2>2. j + 1 \in 1..n
    BY <1>1
  <2>3. j + 1 = 1
    BY <1>1, <1>2, <1>6, <2>1, <2>2 DEF Ordered, n
  <2>. QED BY <1>1, <2>3
<1>7. ASSUME Head(todo) = "link" PROVE tail = <<>>
  <2>1. n = 1
    BY <1>1, <1>2, <1>7 DEF Ordered, n
  <2>. QED BY <1>1, <2>1, EmptySeq
<1>. QED BY <1>2, <1>3, <1>4, <1>5, <1>6, <1>7 DEF tail

\* Building the index goes from one of its calls to the next, which keeps the
\* rest in order.
LEMMA OrderedReplace ==
  ASSUME NEW todo \in Seq(Calls), todo # <<>>, Ordered(todo),
         Head(todo) \in {"index", "load"}, NEW new \in {"load", "fill"}
  PROVE  LET next == <<new>> \o Tail(todo)
         IN  /\ next \in Seq(Calls) /\ next # <<>> /\ Ordered(next)
             /\ \A call : call \notin {"index", "load", "fill"} => (Has(next, call) <=> Has(todo, call))
             /\ Has(next, new) /\ Head(next) = new
<1>. DEFINE n == Len(todo)
            tail == Tail(todo)
            next == <<new>> \o tail
<1>1. /\ n \in Nat /\ n # 0 /\ Len(tail) = n - 1 /\ Head(todo) = todo[1] /\ tail \in Seq(Calls)
      /\ \A j \in 1..n - 1 : tail[j] = todo[j + 1]
  BY TailElements
<1>2. <<new>> \in Seq(Calls) /\ Len(<<new>>) = 1 /\ <<new>>[1] = new
  BY DEF Calls
<1>3. /\ next \in Seq(Calls) /\ Len(next) = 1 + (n - 1)
      /\ \A i \in 1..1 + (n - 1) : next[i] = IF i <= 1 THEN <<new>>[i] ELSE tail[i - 1]
  BY <1>1, <1>2, ConcatProperties
<1>. HIDE DEF n, tail, next
<1>4. Len(next) = n /\ next[1] = new
  BY <1>1, <1>2, <1>3
<1>5. ASSUME NEW j \in 2..n PROVE next[j] = todo[j]
  <2>1. j \in 1..1 + (n - 1) /\ ~(j <= 1) /\ j - 1 \in 1..n - 1 /\ (j - 1) + 1 = j
    BY <1>1
  <2>. QED BY <1>1, <1>3, <2>1
<1>6. todo[1] \in {"index", "load"} /\ next[1] \in {"load", "fill"}
  BY <1>1, <1>4
<1>7. next # <<>>
  BY <1>1, <1>4, EmptySeq
<1>8. ASSUME NEW call, call \notin {"index", "load", "fill"} PROVE Has(next, call) <=> Has(todo, call)
  <2>1. ASSUME NEW j \in 1..n PROVE next[j] = call <=> todo[j] = call
    BY <1>1, <1>5, <1>6, <1>8
  <2>. QED BY <1>4, <2>1 DEF Has, n
<1>9. Has(next, new) /\ Head(next) = new
  <2>1. Has(next, new)
    BY <1>1, <1>4 DEF Has
  <2>. QED BY <1>3, <1>4, <1>7, <2>1, HeadTailProperties
<1>10. ~Has(todo, "list") => ~Has(next, "list")
  BY <1>8
<1>11. ASSUME NEW j \in 1..n, next[j] = "remove" PROVE j < n /\ next[j + 1] = "add"
  <2>1. j \in 2..n /\ todo[j] = "remove"
    BY <1>1, <1>5, <1>6, <1>11
  <2>2. j < n /\ todo[j + 1] = "add"
    BY <2>1 DEF Ordered, n
  <2>. QED BY <1>1, <1>5, <2>1, <2>2
<1>12. ASSUME NEW j \in 2..n, next[j] = "add" PROVE next[j - 1] = "remove"
  <2>1. todo[j] = "add" /\ todo[j - 1] = "remove"
    BY <1>5, <1>12 DEF Ordered, n
  <2>2. j - 1 \in 2..n
    BY <1>1, <1>6, <2>1
  <2>. QED BY <1>5, <2>1, <2>2
<1>13. ASSUME NEW j \in 1..n, next[j] \in {"index", "load", "fill"}, NEW k \in 1..n
       PROVE  /\ next[k] \in {"remove", "add", "create"} => j < k
              /\ next[k] \in {"index", "load", "fill"} => k = j
  <2>1. \A i \in 1..n : next[i] \in {"index", "load", "fill"} <=> todo[i] \in {"index", "load", "fill"}
    BY <1>1, <1>5, <1>6
  <2>2. next[k] \in {"remove", "add", "create"} => todo[k] \in {"remove", "add", "create"}
    BY <1>1, <1>5, <1>6
  <2>. QED BY <1>13, <2>1, <2>2 DEF Ordered, n
<1>17. ASSUME NEW j \in 1..n, next[j] \in {"refresh", "link"} PROVE j = n
  <2>1. todo[j] \in {"refresh", "link"}
    BY <1>1, <1>5, <1>6, <1>17
  <2>. QED BY <2>1 DEF Ordered, n
<1>14. ASSUME NEW j \in 1..n, NEW k \in 1..n, next[j] = next[k], next[j] \in {"remove", "add"}
       PROVE  j = k
  <2>1. j \in 2..n /\ k \in 2..n
    BY <1>1, <1>6, <1>14
  <2>2. todo[j] = todo[k] /\ todo[j] \in {"remove", "add"}
    BY <1>5, <1>14, <2>1
  <2>. QED BY <2>1, <2>2 DEF Ordered, n
<1>15. Has(next, "list") => n = 1
  BY <1>10 DEF Ordered, n
<1>16. Ordered(next)
  BY <1>4, <1>17, <1>11, <1>12, <1>13, <1>14, <1>15 DEF Ordered
<1>. QED BY <1>3, <1>7, <1>8, <1>9, <1>16 DEF next, tail

\* Calls that have no place of their own in the order.
Plain == Calls \ {"list", "index", "load", "fill", "remove", "add", "refresh"}

\* A link among them is the last of them.
LinkLast(b) == \A j \in 1..Len(b) : b[j] = "link" => j = Len(b)

\* They can follow anything but the listing, the end of a claim and a link.
LEMMA OrderedAppend ==
  ASSUME NEW a \in Seq(Calls), NEW b \in Seq(Plain), Ordered(a),
         ~Has(a, "list"), ~Has(a, "refresh"), ~Has(a, "link"),
         LinkLast(b)
  PROVE  /\ a \o b \in Seq(Calls) /\ Ordered(a \o b)
         /\ ~Has(a \o b, "list") /\ ~Has(a \o b, "refresh")
         /\ \A call : Has(a \o b, call) <=> Has(a, call) \/ Has(b, call)
         /\ a # <<>> => a \o b # <<>> /\ Head(a \o b) = Head(a)
<1>. DEFINE n == Len(a)
            m == Len(b)
            ab == a \o b
<1>1. b \in Seq(Calls)
  BY SeqMonotonic DEF Plain
<1>2. /\ ab \in Seq(Calls) /\ Len(ab) = n + m /\ n \in Nat /\ m \in Nat
      /\ \A i \in 1..n + m : ab[i] = IF i <= n THEN a[i] ELSE b[i - n]
  BY <1>1, ConcatProperties, LenProperties
<1>3. \A i \in 1..m : b[i] \in Plain
  BY ElementOfSeq
<1>4. a # <<>> => n # 0 /\ Head(a) = a[1]
  BY EmptySeq
<1>5. ab # <<>> => Head(ab) = ab[1]
  BY <1>2
<1>6. Len(ab) # 0 => ab # <<>>
  BY EmptySeq
<1>. HIDE DEF n, m, ab
<1>7. \A i \in 1..n : i \in 1..n + m /\ ab[i] = a[i]
  BY <1>2
<1>8. \A i \in 1..n + m : i \notin 1..n => ab[i] \in Plain
  <2>. SUFFICES ASSUME NEW i \in 1..n + m, i \notin 1..n PROVE ab[i] \in Plain
    OBVIOUS
  <2>1. i - n \in 1..m /\ ~(i <= n)
    BY <1>2
  <2>. QED BY <1>2, <1>3, <2>1
<1>9. ASSUME NEW call PROVE Has(ab, call) <=> Has(a, call) \/ Has(b, call)
  <2>1. Has(a, call) => Has(ab, call)
    BY <1>2, <1>7 DEF Has, n
  <2>2. ASSUME NEW j \in 1..m, b[j] = call PROVE Has(ab, call)
    <3>1. n + j \in 1..n + m /\ ~(n + j <= n) /\ (n + j) - n = j
      BY <1>2
    <3>. QED BY <1>2, <2>2, <3>1 DEF Has
  <2>3. ASSUME NEW j \in 1..n + m, ab[j] = call PROVE Has(a, call) \/ Has(b, call)
    <3>1. CASE j <= n
      BY <1>2, <2>3, <3>1 DEF Has, n
    <3>2. CASE ~(j <= n)
      <4>1. j - n \in 1..m /\ b[j - n] = call
        BY <1>2, <2>3, <3>2
      <4>. QED BY <4>1 DEF Has, m
    <3>. QED BY <3>1, <3>2
  <2>. QED BY <1>2, <2>1, <2>2, <2>3 DEF Has, m
<1>10. ~Has(b, "list")
  BY <1>3 DEF Has, Plain, m
<1>11. ASSUME NEW j \in 1..n + m, ab[j] = "remove" PROVE j < n + m /\ ab[j + 1] = "add"
  <2>1. j \in 1..n /\ a[j] = "remove"
    BY <1>7, <1>8, <1>11 DEF Plain
  <2>2. j < n /\ a[j + 1] = "add"
    BY <2>1 DEF Ordered, n
  <2>. QED BY <1>2, <1>7, <2>1, <2>2
<1>12. ASSUME NEW j \in 2..n + m, ab[j] = "add" PROVE ab[j - 1] = "remove"
  <2>0. j \in 1..n + m
    BY <1>2
  <2>1. j \in 2..n /\ a[j] = "add"
    BY <1>2, <1>7, <1>8, <1>12, <2>0 DEF Plain
  <2>2. a[j - 1] = "remove" /\ j - 1 \in 1..n
    BY <1>2, <2>1 DEF Ordered, n
  <2>. QED BY <1>7, <2>2
<1>13. ASSUME NEW j \in 1..n + m, ab[j] \in {"index", "load", "fill"}, NEW k \in 1..n + m
       PROVE  /\ ab[k] \in {"remove", "add", "create"} => j < k
              /\ ab[k] \in {"index", "load", "fill"} => k = j
  <2>1. j \in 1..n /\ a[j] \in {"index", "load", "fill"}
    BY <1>7, <1>8, <1>13 DEF Plain
  <2>2. CASE k \in 1..n
    <3>1. ab[k] = a[k]
      BY <1>7, <2>2
    <3>. QED BY <2>1, <2>2, <3>1 DEF Ordered, n
  <2>3. CASE k \notin 1..n
    <3>1. ab[k] \in Plain /\ j < k
      BY <1>2, <1>8, <2>1, <2>3
    <3>. QED BY <3>1 DEF Plain
  <2>. QED BY <2>2, <2>3
<1>18. ASSUME NEW j \in 1..n + m, ab[j] = "refresh" PROVE FALSE
  <2>1. j \in 1..n /\ a[j] = "refresh"
    BY <1>7, <1>8, <1>18 DEF Plain
  <2>. QED BY <2>1 DEF Has, n
<1>20. ASSUME NEW j \in 1..n + m, ab[j] = "link" PROVE j = n + m
  <2>1. ~(j <= n)
    BY <1>7, <1>20 DEF Has, n
  <2>2. j - n \in 1..m /\ b[j - n] = "link"
    BY <1>2, <1>20, <2>1
  <2>3. j - n = m
    BY <2>2 DEF LinkLast, m
  <2>. QED BY <1>2, <2>3
<1>21. \A j \in 1..n + m : ab[j] \in {"refresh", "link"} => j = n + m
  BY <1>18, <1>20
<1>14. ASSUME NEW j \in 1..n + m, NEW k \in 1..n + m, ab[j] = ab[k], ab[j] \in {"remove", "add"}
       PROVE  j = k
  <2>1. j \in 1..n /\ k \in 1..n /\ a[j] = a[k] /\ a[j] \in {"remove", "add"}
    BY <1>7, <1>8, <1>14 DEF Plain
  <2>. QED BY <2>1 DEF Ordered, n
<1>15. ~Has(ab, "list")
  BY <1>9, <1>10
<1>19. ~Has(ab, "refresh")
  BY <1>2, <1>18 DEF Has
<1>16. Ordered(ab)
  BY <1>2, <1>21, <1>11, <1>12, <1>13, <1>14, <1>15 DEF Ordered
<1>17. a # <<>> => ab # <<>> /\ Head(ab) = Head(a)
  <2>. SUFFICES ASSUME a # <<>> PROVE ab # <<>> /\ Head(ab) = Head(a)
    OBVIOUS
  <2>1. n # 0 /\ 1 \in 1..n
    BY <1>2, <1>4
  <2>2. ab # <<>>
    BY <1>2, <1>6, <2>1
  <2>. QED BY <1>4, <1>5, <1>7, <2>1, <2>2
<1>. QED BY <1>2, <1>9, <1>15, <1>16, <1>17, <1>19 DEF ab

\* One call before three others.
LEMMA FourCalls ==
  ASSUME NEW S, NEW a \in S, NEW b \in S, NEW c \in S, NEW d \in S
  PROVE  /\ <<a>> \o <<b, c, d>> = <<a, b, c, d>> /\ <<a, b, c, d>> \in Seq(S)
         /\ Head(<<a, b, c, d>>) = a /\ <<a, b, c, d>> # <<>> /\ Len(<<a, b, c, d>>) = 4
<1>. DEFINE abcd == <<a, b, c, d>>
            joined == <<a>> \o <<b, c, d>>
<1>1. /\ <<a>> \in Seq(S) /\ <<b, c, d>> \in Seq(S) /\ abcd \in Seq(S)
      /\ Len(<<a>>) = 1 /\ Len(<<b, c, d>>) = 3 /\ Len(abcd) = 4
  OBVIOUS
<1>2. /\ joined \in Seq(S) /\ Len(joined) = 1 + 3
      /\ \A i \in 1..1 + 3 : joined[i] = IF i <= 1 THEN <<a>>[i] ELSE <<b, c, d>>[i - 1]
  BY <1>1, ConcatProperties
<1>3. \A i \in 1..4 : joined[i] = abcd[i]
  BY <1>2
<1>4. joined = abcd
  <2>1. joined \in Seq(S) /\ abcd \in Seq(S) /\ Len(joined) = 4 /\ Len(abcd) = 4
    BY <1>1, <1>2
  <2>. HIDE DEF joined, abcd
  <2>. QED BY <1>3, <2>1, SeqEqual
<1>5. Head(abcd) = a /\ abcd # <<>>
  BY <1>1, EmptySeq, HeadTailProperties
<1>. QED BY <1>1, <1>4, <1>5

\* The lists of calls that requests are put together from.
LEMMA Pieces ==
  /\ \A call : Has(<<call>>, call) /\ \A other : Has(<<call>>, other) => other = call
  /\ \A call \in Calls \ {"remove", "add"} : Ordered(<<call>>) /\ <<call>> \in Seq(Calls)
  /\ \A call \in Plain : <<call>> \in Seq(Plain)
  /\ <<>> \in Seq(Plain) /\ <<"find", "check">> \in Seq(Plain) /\ <<"find", "check", "link">> \in Seq(Plain)
  /\ \A call : Has(<<"find", "check">>, call) <=> call \in {"find", "check"}
  /\ \A call : Has(<<"find", "check", "link">>, call) <=> call \in {"find", "check", "link"}
  /\ LinkLast(<<>>) /\ LinkLast(<<"find", "check">>) /\ LinkLast(<<"find", "check", "link">>)
  /\ \A call : LinkLast(<<call>>)
<1>1. \A call : Len(<<call>>) = 1 /\ <<call>>[1] = call
  OBVIOUS
<1>2. \A call : Has(<<call>>, call) /\ \A other : Has(<<call>>, other) => other = call
  BY <1>1 DEF Has
<1>3. ASSUME NEW call \in Calls \ {"remove", "add"} PROVE Ordered(<<call>>)
  <2>1. Len(<<call>>) = 1 /\ <<call>>[1] = call
    BY <1>1
  <2>2. 1..Len(<<call>>) = {1} /\ 2..Len(<<call>>) = {} /\ 1..1 = {1}
    BY <2>1
  <2>3. call # "remove" /\ call # "add"
    BY <1>3
  <2>. QED BY <2>1, <2>2, <2>3 DEF Ordered
<1>4. \A call : Has(<<"find", "check">>, call) <=> call \in {"find", "check"}
  <2>. DEFINE s == <<"find", "check">>
  <2>1. Len(s) = 2 /\ s[1] = "find" /\ s[2] = "check" /\ \A j \in 1..2 : j = 1 \/ j = 2
    OBVIOUS
  <2>. HIDE DEF s
  <2>. QED BY <2>1 DEF Has, s
<1>5. \A call : Has(<<"find", "check", "link">>, call) <=> call \in {"find", "check", "link"}
  <2>. DEFINE s == <<"find", "check", "link">>
  <2>1. /\ Len(s) = 3 /\ s[1] = "find" /\ s[2] = "check" /\ s[3] = "link"
        /\ \A j \in 1..3 : j = 1 \/ j = 2 \/ j = 3
    OBVIOUS
  <2>. HIDE DEF s
  <2>. QED BY <2>1 DEF Has, s
<1>7. LinkLast(<<>>) /\ LinkLast(<<"find", "check">>) /\ LinkLast(<<"find", "check", "link">>)
  BY DEF LinkLast
<1>8. \A call : LinkLast(<<call>>)
  BY <1>1 DEF LinkLast
<1>6. {"find", "check", "link"} \subseteq Plain
  BY DEF Plain, Calls, Writes
<1>. QED BY <1>2, <1>3, <1>4, <1>5, <1>6, <1>7, <1>8

\* A stage change's calls, alone or after the edit of an update.
LEMMA StageCalls ==
  ASSUME NEW todo \in {<<"edit", "index", "remove", "add">>, <<"index", "remove", "add", "refresh">>}
  PROVE  /\ todo \in Seq(Calls) /\ Ordered(todo) /\ todo # <<>>
         /\ \A call \in {"index", "remove", "add"} : Has(todo, call)
         /\ \A call : Has(todo, call) => call \in {"edit", "index", "remove", "add", "refresh"}
         /\ Has(todo, "refresh") => todo = <<"index", "remove", "add", "refresh">>
         /\ Head(todo) \in {"edit", "index"}
<1>0. {"edit", "index", "remove", "add", "refresh"} \subseteq Calls
  BY DEF Calls, Writes
<1>1. todo \in Seq(Calls)
  <2>1. "edit" \in Calls /\ "index" \in Calls /\ "remove" \in Calls /\ "add" \in Calls /\ "refresh" \in Calls
    BY <1>0
  <2>2. <<"edit", "index", "remove", "add">> \in Seq(Calls)
    BY <2>1, FourCalls
  <2>3. <<"index", "remove", "add", "refresh">> \in Seq(Calls)
    BY <2>1, FourCalls
  <2>. QED BY <2>2, <2>3
<1>2. Len(todo) = 4 /\ Head(todo) = todo[1] /\ Len(<<>>) = 0
  OBVIOUS
<1>3. CASE todo = <<"edit", "index", "remove", "add">>
  <2>1. todo[1] = "edit" /\ todo[2] = "index" /\ todo[3] = "remove" /\ todo[4] = "add"
    BY <1>3
  <2>2. \A j \in 1..4 : j = 1 \/ j = 2 \/ j = 3 \/ j = 4
    OBVIOUS
  <2>3. \A call : Has(todo, call) <=> call \in {"edit", "index", "remove", "add"}
    BY <1>2, <2>1, <2>2 DEF Has
  <2>4. Ordered(todo)
    BY <1>2, <2>1, <2>2, <2>3 DEF Ordered
  <2>. QED BY <1>1, <1>2, <2>1, <2>3, <2>4
<1>4. CASE todo = <<"index", "remove", "add", "refresh">>
  <2>1. todo[1] = "index" /\ todo[2] = "remove" /\ todo[3] = "add" /\ todo[4] = "refresh"
    BY <1>4
  <2>2. \A j \in 1..4 : j = 1 \/ j = 2 \/ j = 3 \/ j = 4
    OBVIOUS
  <2>3. \A call : Has(todo, call) <=> call \in {"index", "remove", "add", "refresh"}
    BY <1>2, <2>1, <2>2 DEF Has
  <2>4. Ordered(todo)
    BY <1>2, <2>1, <2>2, <2>3 DEF Ordered
  <2>. QED BY <1>1, <1>2, <1>4, <2>1, <2>3, <2>4
<1>. QED BY <1>3, <1>4

\* The calls that a request plans after its listing.
LEMMA PlanOrdered ==
  ASSUME NEW r \in Request, r.op # "create", NEW seen
  PROVE  LET todo == Plan(r, seen)
         IN  /\ todo \in Seq(Calls) /\ todo # <<>> /\ Ordered(todo)
             /\ ~Has(todo, "list") /\ ~Has(todo, "create") /\ ~Has(todo, "fill")
             /\ Has(todo, "refresh") => r.op = "claim"
             /\ Has(todo, "link") => r.parent \in Issues /\ Has(todo, "find") /\ Has(todo, "check")
             /\ Staged(r) => Has(todo, "remove")
             /\ Has(todo, "remove") \/ Has(todo, "add") => Has(todo, "index")
             /\ Head(todo) \notin Ignored
<1>1. CASE r.op = "claim"
  <2>1. Plan(r, seen) = <<"index", "remove", "add", "refresh">>
    BY <1>1 DEF Plan
  <2>. QED BY <1>1, <2>1, StageCalls DEF Ignored
<1>2. CASE r.op = "close"
  <2>1. Plan(r, seen) = <<"close">> /\ ~Staged(r) /\ Head(<<"close">>) = "close" /\ <<"close">> # <<>>
    BY <1>2 DEF Plan, Staged
  <2>2. "close" \in Calls \ {"remove", "add"}
    BY DEF Calls, Writes
  <2>3. <<"close">> \in Seq(Calls) /\ Ordered(<<"close">>) /\ \A call : Has(<<"close">>, call) => call = "close"
    BY <2>2, Pieces
  <2>. QED BY <2>1, <2>3 DEF Ignored
<1>3. CASE r.op = "update"
  <2>. DEFINE stage == IF r.stage = None THEN <<>> ELSE <<"index", "remove", "add">>
              first == <<"edit">> \o stage
              old == IF r.parent = None \/ seen.parent = None THEN <<>> ELSE <<"unlink">>
              new == IF r.parent \in Issues THEN <<"find", "check", "link">> ELSE <<>>
  <2>1. Plan(r, seen) = first \o old \o new
    BY <1>3 DEF Plan
  <2>2. first = IF r.stage = None THEN <<"edit">> ELSE <<"edit", "index", "remove", "add">>
    <3>1. {"edit", "index", "remove", "add"} \subseteq Calls
      BY DEF Calls, Writes
    <3>2. "edit" \in Calls /\ "index" \in Calls /\ "remove" \in Calls /\ "add" \in Calls
      BY <3>1
    <3>3. <<"edit">> \o <<"index", "remove", "add">> = <<"edit", "index", "remove", "add">>
      BY <3>2, FourCalls
    <3>4. <<"edit">> \o <<>> = <<"edit">>
      OBVIOUS
    <3>. QED BY <3>3, <3>4
  <2>3. /\ first \in Seq(Calls) /\ Ordered(first) /\ first # <<>> /\ Head(first) = "edit"
        /\ \A call : Has(first, call) => call \in {"edit", "index", "remove", "add"}
        /\ r.stage # None => Has(first, "remove")
        /\ Has(first, "remove") \/ Has(first, "add") => Has(first, "index")
    <3>1. CASE r.stage = None
      <4>1. first = <<"edit">> /\ "edit" \in Calls \ {"remove", "add"} /\ <<"edit">> # <<>> /\ Head(<<"edit">>) = "edit"
        BY <2>2, <3>1 DEF Calls, Writes
      <4>2. <<"edit">> \in Seq(Calls) /\ Ordered(<<"edit">>) /\ \A call : Has(<<"edit">>, call) => call = "edit"
        BY <4>1, Pieces
      <4>. QED BY <3>1, <4>1, <4>2
    <3>2. CASE r.stage # None
      <4>1. first = <<"edit", "index", "remove", "add">>
        BY <2>2, <3>2
      <4>3. Head(<<"edit", "index", "remove", "add">>) = "edit"
        BY FourCalls
      <4>2. <<"edit", "index", "remove", "add">> # <<"index", "remove", "add", "refresh">>
        OBVIOUS
      <4>. QED BY <4>1, <4>2, <4>3, StageCalls
    <3>. QED BY <3>1, <3>2
  <2>4. old \in Seq(Plain) /\ LinkLast(old) /\ \A call : Has(old, call) => call = "unlink"
    <3>1. "unlink" \in Plain
      BY DEF Plain, Calls, Writes
    <3>. QED BY <3>1, Pieces, NothingLeft
  <2>5. /\ new \in Seq(Plain) /\ LinkLast(new) /\ \A call : Has(new, call) => call \in {"find", "check", "link"}
        /\ Has(new, "link") => r.parent \in Issues /\ Has(new, "find") /\ Has(new, "check")
    BY Pieces, NothingLeft
  <2>. HIDE DEF first, old, new
  <2>6. LET a == first \o old
        IN  /\ a \in Seq(Calls) /\ Ordered(a) /\ ~Has(a, "list") /\ ~Has(a, "refresh") /\ ~Has(a, "link")
            /\ \A call : Has(a, call) <=> Has(first, call) \/ Has(old, call)
            /\ a # <<>> /\ Head(a) = "edit"
    BY <2>3, <2>4, OrderedAppend
  <2>7. LET a == first \o old \o new
        IN  /\ a \in Seq(Calls) /\ Ordered(a) /\ ~Has(a, "list") /\ ~Has(a, "refresh")
            /\ \A call : Has(a, call) <=> Has(first \o old, call) \/ Has(new, call)
            /\ a # <<>> /\ Head(a) = "edit"
    BY <2>5, <2>6, OrderedAppend
  <2>8. \A call : Has(Plan(r, seen), call) <=> Has(first, call) \/ Has(old, call) \/ Has(new, call)
    BY <2>1, <2>6, <2>7
  <2>9. Staged(r) => r.stage # None
    BY <1>3 DEF Staged
  <2>10. ~Has(Plan(r, seen), "create") /\ ~Has(Plan(r, seen), "fill") /\ ~Has(Plan(r, seen), "refresh")
    BY <2>3, <2>4, <2>5, <2>8
  <2>11. Staged(r) => Has(Plan(r, seen), "remove")
    BY <2>3, <2>8, <2>9
  <2>12. Has(Plan(r, seen), "remove") \/ Has(Plan(r, seen), "add") => Has(Plan(r, seen), "index")
    BY <2>3, <2>4, <2>5, <2>8
  <2>13. Has(Plan(r, seen), "link") =>
           r.parent \in Issues /\ Has(Plan(r, seen), "find") /\ Has(Plan(r, seen), "check")
    BY <2>3, <2>4, <2>5, <2>8
  <2>. QED BY <2>1, <2>7, <2>10, <2>11, <2>12, <2>13 DEF Ignored
<1>. QED BY <1>1, <1>2, <1>3 DEF Request

\* The calls of a request that creates an issue, in the shape Begin writes them.
LEMMA CreateOrdered ==
  ASSUME NEW first \in {<<>>, <<"find", "check">>}, NEW last \in {<<>>, <<"link">>}
  PROVE  LET todo == <<"index">> \o first \o <<"create">> \o last
         IN  /\ todo \in Seq(Calls) /\ todo # <<>> /\ Ordered(todo)
             /\ \A call : Has(todo, call) => call \in {"index", "find", "check", "create", "link"}
             /\ Has(todo, "index") /\ (Has(todo, "link") => last # <<>>)
             /\ first # <<>> => Has(todo, "find") /\ Has(todo, "check")
<1>1. "index" \in Calls \ {"remove", "add"} /\ "create" \in Plain /\ "link" \in Plain
  BY DEF Plain, Calls, Writes
<1>2. /\ <<"index">> \in Seq(Calls) /\ Ordered(<<"index">>) /\ Has(<<"index">>, "index")
      /\ \A call : Has(<<"index">>, call) => call = "index"
  BY <1>1, Pieces
<1>3. <<"index">> # <<>> /\ Head(<<"index">>) = "index"
  OBVIOUS
<1>4. /\ first \in Seq(Plain) /\ LinkLast(first) /\ \A call : Has(first, call) => call \in {"find", "check"}
      /\ first # <<>> => Has(first, "find") /\ Has(first, "check")
  BY Pieces, NothingLeft
<1>5. <<"create">> \in Seq(Plain) /\ LinkLast(<<"create">>) /\ \A call : Has(<<"create">>, call) => call = "create"
  BY <1>1, Pieces
<1>6. last \in Seq(Plain) /\ LinkLast(last) /\ \A call : Has(last, call) => call = "link"
  <2>1. CASE last = <<>>
    BY <2>1, Pieces, NothingLeft
  <2>2. CASE last = <<"link">>
    BY <1>1, <2>2, Pieces
  <2>. QED BY <2>1, <2>2
<1>. DEFINE a == <<"index">> \o first
            b == a \o <<"create">>
            todo == b \o last
<1>7. /\ a \in Seq(Calls) /\ Ordered(a) /\ ~Has(a, "list") /\ ~Has(a, "refresh") /\ ~Has(a, "link")
      /\ a # <<>> /\ Head(a) = "index"
      /\ \A call : Has(a, call) <=> Has(<<"index">>, call) \/ Has(first, call)
  <2>1. ~Has(<<"index">>, "list") /\ ~Has(<<"index">>, "refresh") /\ ~Has(<<"index">>, "link")
    BY <1>2
  <2>2. ~Has(first, "list") /\ ~Has(first, "refresh") /\ ~Has(first, "link")
    BY <1>4
  <2>3. /\ a \in Seq(Calls) /\ Ordered(a) /\ ~Has(a, "list") /\ ~Has(a, "refresh")
        /\ \A call : Has(a, call) <=> Has(<<"index">>, call) \/ Has(first, call)
        /\ a # <<>> /\ Head(a) = Head(<<"index">>)
    BY <1>2, <1>3, <1>4, <2>1, OrderedAppend
  <2>. HIDE DEF a
  <2>. QED BY <1>3, <2>1, <2>2, <2>3
<1>. HIDE DEF a
<1>8. /\ b \in Seq(Calls) /\ Ordered(b) /\ ~Has(b, "list") /\ ~Has(b, "refresh") /\ ~Has(b, "link")
      /\ b # <<>> /\ Head(b) = "index"
      /\ \A call : Has(b, call) <=> Has(a, call) \/ Has(<<"create">>, call)
  BY <1>5, <1>7, OrderedAppend
<1>. HIDE DEF b
<1>9. /\ todo \in Seq(Calls) /\ Ordered(todo) /\ todo # <<>> /\ Head(todo) = "index"
      /\ \A call : Has(todo, call) <=> Has(b, call) \/ Has(last, call)
  BY <1>6, <1>8, OrderedAppend
<1>10. \A call : Has(todo, call) => call \in {"index", "find", "check", "create", "link"}
  BY <1>2, <1>4, <1>5, <1>6, <1>7, <1>8, <1>9
<1>11. Has(todo, "index")
  BY <1>2, <1>7, <1>8, <1>9
<1>12. Has(todo, "link") => last # <<>>
  BY <1>2, <1>4, <1>5, <1>7, <1>8, <1>9, NothingLeft
<1>13. first # <<>> => Has(todo, "find") /\ Has(todo, "check")
  BY <1>4, <1>7, <1>8, <1>9
<1>. QED BY <1>9, <1>10, <1>11, <1>12, <1>13 DEF a, b

----------------------------------------------------------------------------
(* Labels *)

\* The stages are pairwise different names, so the one stage label of an issue
\* is the one that is read.
LEMMA StageOfLabel ==
  ASSUME NEW labels, NEW s \in StageNames, AtStage(labels, s)
  PROVE  MapLabelsToStage(labels) = s
<1>. DEFINE held == {k \in 1..Len(stagePrecedence) : \E l \in labels : l.kind = stagePrecedence[k]}
<1>1. Len(stagePrecedence) = 10
  BY DEF stagePrecedence
<1>2. \A j, k \in 1..10 : stagePrecedence[j] = stagePrecedence[k] => j = k
  BY DEF stagePrecedence
<1>3. StageNames = {stagePrecedence[k] : k \in 1..10}
  BY <1>1 DEF StageNames, ToSet
<1>4. PICK k \in 1..10 : s = stagePrecedence[k]
  BY <1>3
<1>5. ASSUME NEW j \in 1..10 PROVE j \in held <=> j = k
  <2>1. stagePrecedence[j] \in StageNames
    BY <1>3
  <2>2. ASSUME NEW l \in labels, l.kind = stagePrecedence[j] PROVE j = k
    <3>1. l = StageToLabel(s)
      BY <2>1, <2>2 DEF AtStage
    <3>. QED BY <1>2, <1>4, <2>2, <3>1 DEF StageToLabel
  <2>3. StageToLabel(s) \in labels /\ StageToLabel(s).kind = s
    BY DEF AtStage, StageToLabel
  <2>. QED BY <1>1, <1>4, <2>2, <2>3
<1>6. held = {k}
  BY <1>1, <1>5
<1>7. MapLabelsToStage(labels) = IF held = {} THEN None
        ELSE stagePrecedence[CHOOSE n \in held : \A j \in held : n <= j]
  BY DEF MapLabelsToStage
<1>. HIDE DEF held
<1>8. (CHOOSE n \in held : \A j \in held : n <= j) = k
  BY <1>6
<1>. QED BY <1>4, <1>6, <1>7, <1>8

\* Removing what SwapRemove names and adding what SwapAdd names leaves the one label.
LEMMA SwapLeavesStage ==
  ASSUME NEW old, NEW s \in StageNames
  PROVE  AtStage((old \ SwapRemove(old, s)) \cup SwapAdd(old, s), s)
  BY DEF AtStage, SwapRemove, SwapAdd, StageToLabel

----------------------------------------------------------------------------
(* How the record of a request moves on *)

\* Another client's record, or one's own that waits: only the clean mark may go.
Waits(n, q) ==
  /\ n.r = q.r /\ n.todo = q.todo /\ n.seen = q.seen /\ n.ids = q.ids
  /\ n.tries = q.tries /\ n.late = q.late /\ (n.clean => q.clean)

Over(n) == n.r = None /\ n.todo = <<>> /\ n.ids = {} /\ ~n.late

\* The request r has made its call and has "rest" left.
MovesTo(n, q, r, rest) ==
  /\ n.clean => q.clean
  /\ rest = <<>> => Over(n)
  /\ rest # <<>> => /\ n.r = r /\ n.todo = rest /\ n.seen = q.seen /\ n.late = q.late
                    /\ n.tries = 0 /\ n.ids = {}

\* The record of a client that has no request.
LEMMA IdleType == Idle \in Progress /\ Over(Idle)
  BY EmptySeq DEF Idle, Progress, Absent, Issue, Over

\* GoOn and Fail are such moves, of one client.
LEMMA GoOnIs ==
  ASSUME NEW q \in [Clients -> Progress], NEW c \in Clients, NEW rest \in Seq(Calls)
  PROVE  /\ GoOn(q, c, rest) \in [Clients -> Progress]
         /\ MovesTo(GoOn(q, c, rest)[c], q[c], q[c].r, rest)
         /\ \A d \in Clients \ {c} : GoOn(q, c, rest)[d] = q[d]
<1>1. q[c] \in Progress
  OBVIOUS
<1>2. CASE rest = <<>>
  <2>. DEFINE n == [Idle EXCEPT !.result = "ok", !.clean = q[c].clean]
  <2>1. GoOn(q, c, rest) = [q EXCEPT ![c] = n]
    BY <1>2 DEF GoOn
  <2>2. n \in Progress /\ n.r = None /\ n.todo = <<>> /\ n.ids = {} /\ n.late = FALSE /\ n.clean = q[c].clean
    BY <1>1, IdleType DEF Idle, Progress
  <2>. HIDE DEF n
  <2>3. MovesTo(n, q[c], q[c].r, rest)
    BY <1>2, <2>2 DEF MovesTo, Over
  <2>. QED BY <2>1, <2>2, <2>3
<1>3. CASE rest # <<>>
  <2>. DEFINE n == [q[c] EXCEPT !.todo = rest, !.tries = 0, !.ids = {}]
  <2>1. GoOn(q, c, rest) = [q EXCEPT ![c] = n]
    BY <1>1, <1>3 DEF GoOn, Progress
  <2>2. n \in Progress
    BY <1>1 DEF Progress
  <2>3. MovesTo(n, q[c], q[c].r, rest)
    BY <1>1, <1>3 DEF MovesTo, Progress
  <2>. HIDE DEF n
  <2>. QED BY <2>1, <2>2, <2>3
<1>. QED BY <1>2, <1>3

\* A request that fails is over, with an error, and the others are as they were.
LEMMA FailIs ==
  ASSUME NEW q \in [Clients -> Progress], NEW c \in Clients
  PROVE  /\ Fail(q, c) \in [Clients -> Progress] /\ Over(Fail(q, c)[c]) /\ Fail(q, c)[c].result = "error"
         /\ \A d \in Clients \ {c} : Fail(q, c)[d] = q[d]
<1>. DEFINE n == [Idle EXCEPT !.result = "error"]
<1>1. n \in Progress /\ Over(n) /\ n.result = "error"
  BY IdleType DEF Idle, Progress, Over
<1>. HIDE DEF n
<1>2. Fail(q, c) = [q EXCEPT ![c] = n]
  BY DEF Fail, n
<1>. QED BY <1>1, <1>2

\* A write is seen by the requests that depend on what it changed.
LEMMA ObservedIs ==
  ASSUME NEW q \in [Clients -> Progress], NEW who, Observed(q, who)
  PROVE  /\ req' \in [Clients -> Progress]
         /\ \A d \in Clients :
              /\ Waits(req'[d], q[d]) /\ req'[d].result = q[d].result
              /\ d = who => req'[d] = q[d]
              /\ d # who /\ q[d].r # None /\ req'[d].clean
                   => Relied(issues', q[d].r) = Relied(issues, q[d].r)
              /\ d # who /\ q[d].r # None /\ req'[d].clean /\ q[d].r.issue # None
                   => issues'[q[d].r.issue] = issues[q[d].r.issue]
<1>1. ASSUME NEW d \in Clients
      PROVE  /\ req'[d] \in Progress /\ Waits(req'[d], q[d]) /\ req'[d].result = q[d].result
             /\ d = who => req'[d] = q[d]
             /\ d # who /\ q[d].r # None /\ req'[d].clean
                  => Relied(issues', q[d].r) = Relied(issues, q[d].r)
             /\ d # who /\ q[d].r # None /\ req'[d].clean /\ q[d].r.issue # None
                  => issues'[q[d].r.issue] = issues[q[d].r.issue]
  <2>. DEFINE moved == d # who /\ q[d].r # None /\ Relied(issues', q[d].r) # Relied(issues, q[d].r)
              n == [q[d] EXCEPT !.clean = FALSE]
  <2>1. q[d] \in Progress
    OBVIOUS
  <2>2. req'[d] = IF moved THEN n ELSE q[d]
    BY DEF Observed
  <2>3. n \in Progress /\ Waits(n, q[d]) /\ n.clean = FALSE /\ n.result = q[d].result
    BY <2>1 DEF Progress, Waits
  <2>4. Waits(q[d], q[d])
    BY DEF Waits
  <2>5. ASSUME q[d].r.issue # None, Relied(issues', q[d].r) = Relied(issues, q[d].r)
        PROVE  issues'[q[d].r.issue] = issues[q[d].r.issue]
    <3>1. Relied(issues', q[d].r)[1] = Relied(issues, q[d].r)[1]
      BY <2>5
    <3>. QED BY <2>5, <3>1 DEF Relied
  <2>. HIDE DEF n
  <2>. QED BY <2>1, <2>2, <2>3, <2>4, <2>5
<1>2. req' = [d \in Clients |-> req'[d]]
  BY DEF Observed
<1>. QED BY <1>1, <1>2

----------------------------------------------------------------------------
(* What a step does to the record "q" of its client, which becomes "n" *)

Failed(n) == Over(n) /\ n.result = "error"

Planned(n, q) ==
  /\ Head(q.todo) = "list" /\ n.todo = Plan(q.r, n.seen)
  /\ n.r = q.r /\ n.seen = issues[q.r.issue] /\ n.ids = {} /\ n.tries = 0
  /\ (n.clean => q.clean) /\ n.late = (q.r.issue \in taken)
  /\ q.r.op = "claim" => IssueStage(issues[q.r.issue]) = "accepted"

Builds(n, q) ==
  /\ \/ Head(q.todo) = "index" /\ n.todo = <<"load">> \o Tail(q.todo)
     \/ Head(q.todo) = "load" /\ n.todo = <<"fill">> \o Tail(q.todo) /\ index' = {}
  /\ n.r = q.r /\ n.seen = q.seen /\ n.late = q.late /\ (n.clean => q.clean)
  /\ n.ids \subseteq repo

\* The call stays to be made, or repeated.
Stays(n, q) ==
  /\ Head(q.todo) \in {"fill"} \cup Writes
  /\ n.r = q.r /\ n.todo = q.todo /\ n.seen = q.seen /\ n.late = q.late /\ (n.clean => q.clean)
  /\ n.ids \subseteq repo

\* The call is made; one that created an issue goes on with that issue.
GoesOn(n, q) ==
  /\ Head(q.todo) \notin {"list", "load"} /\ (Head(q.todo) = "index" => index # None)
  /\ \E r \in Request :
       /\ r.op = q.r.op /\ r.parent = q.r.parent /\ (Head(q.todo) # "create" => r = q.r)
       /\ MovesTo(n, q, r, Tail(q.todo))

\* The effect of a step of c on everything but the clean marks of the others.
Shape(c) ==
  /\ req' \in [Clients -> Progress]
  /\ \A d \in Clients \ {c} :
       /\ Waits(req'[d], req[d])
       /\ Busy(d) /\ req'[d].clean => Relied(issues', req[d].r) = Relied(issues, req[d].r)
       /\ Busy(d) /\ req'[d].clean /\ req[d].r.issue # None
            => issues'[req[d].r.issue] = issues[req[d].r.issue]
  /\ Busy(c) /\ req[c].todo # <<>>
  /\ \/ Failed(req'[c]) \/ Planned(req'[c], req[c]) \/ Builds(req'[c], req[c])
     \/ Stays(req'[c], req[c]) \/ GoesOn(req'[c], req[c])
  /\ repo' = repo /\ issues' \in [Issues -> Issue] /\ \A i \in Issues : issues'[i].labels \subseteq repo
  /\ index' = None => index = None
  /\ index' # None => index' \subseteq repo

Base == TypeInv /\ OrderInv /\ LabelInv

\* What the invariants say of a client that makes a call.
LEMMA CallerHas ==
  ASSUME Base, NEW c \in Clients, Busy(c), req[c].todo # <<>>
  PROVE  /\ req[c] \in Progress /\ req[c].r \in Request
         /\ req[c].todo \in Seq(Calls) /\ Tail(req[c].todo) \in Seq(Calls)
         /\ Ordered(req[c].todo) /\ Head(req[c].todo) \in Calls
         /\ Head(req[c].todo) = "list" => req[c].r.issue \in Issues
         /\ Head(req[c].todo) = "link" => req[c].r.parent \in Issues
         /\ Head(req[c].todo) = "refresh" => req[c].r.op = "claim"
         /\ Head(req[c].todo) \in {"fill", "remove", "add", "create"} =>
              index # None /\ index \subseteq repo
<1>1. req[c] \in Progress /\ req[c].r \in Request /\ req[c].todo \in Seq(Calls)
  BY DEF Base, TypeInv, Progress, Busy
<1>2. Ordered(req[c].todo)
  BY DEF Base, OrderInv
<1>3. Tail(req[c].todo) \in Seq(Calls) /\ Head(req[c].todo) \in Calls
  BY <1>1, TailElements
<1>4. Has(req[c].todo, Head(req[c].todo))
  BY <1>1, <1>2, OrderedHead
<1>5. /\ Head(req[c].todo) = "list" => req[c].r.issue \in Issues
      /\ Head(req[c].todo) = "link" => req[c].r.parent \in Issues
      /\ Head(req[c].todo) = "refresh" => req[c].r.op = "claim"
  BY <1>4 DEF Base, OrderInv, TypeInv
<1>6. ASSUME Head(req[c].todo) \in {"fill", "remove", "add", "create"} PROVE index # None
  <2>1. ~Has(req[c].todo, "fill") \/ index # None
    BY DEF Base, LabelInv
  <2>2. Head(req[c].todo) # "fill" => ~Has(req[c].todo, "index") /\ ~Has(req[c].todo, "load")
    BY <1>1, <1>2, <1>6, OrderedHead
  <2>3. Head(req[c].todo) # "fill" => Has(req[c].todo, Head(req[c].todo))
                                      /\ Head(req[c].todo) \in {"remove", "add", "create"}
    BY <1>4, <1>6
  <2>. QED BY <1>4, <2>1, <2>2, <2>3 DEF Base, LabelInv
<1>. QED BY <1>1, <1>2, <1>3, <1>5, <1>6 DEF Base, LabelInv

\* A step that touches neither the issues nor the labels has this shape if its
\* own record has.
LEMMA QuietShape ==
  ASSUME Base, NEW c \in Clients, Busy(c), req[c].todo # <<>>, UNCHANGED <<repo, issues>>,
         req' \in [Clients -> Progress], \A d \in Clients \ {c} : req'[d] = req[d],
         Failed(req'[c]) \/ Planned(req'[c], req[c]) \/ Builds(req'[c], req[c])
           \/ Stays(req'[c], req[c]) \/ GoesOn(req'[c], req[c]),
         index' = index \/ (index' # None /\ index' \subseteq repo)
  PROVE  Shape(c)
<1>1. \A d \in Clients \ {c} : Waits(req'[d], req[d]) /\ Relied(issues', req[d].r) = Relied(issues, req[d].r)
  BY DEF Waits
<1>2. issues' \in [Issues -> Issue] /\ \A i \in Issues : issues'[i].labels \subseteq repo
  BY DEF Base, TypeInv, LabelInv
<1>3. (index' = None => index = None) /\ (index' # None => index' \subseteq repo)
  BY DEF Base, LabelInv
<1>. QED BY <1>1, <1>2, <1>3 DEF Shape

\* The steps, one by one.  A read that fails, or a caller that has gone away.
LEMMA ReadFailsShape == ASSUME Base, NEW c \in Clients, ReadFails(c) PROVE Shape(c)
<1>1. Busy(c) /\ req[c].todo # <<>> /\ UNCHANGED <<repo, issues, index>> /\ req' = Fail(req, c)
  BY DEF ReadFails
<1>2. req \in [Clients -> Progress]
  BY DEF Base, TypeInv
<1>3. /\ req' \in [Clients -> Progress] /\ Failed(req'[c])
      /\ \A d \in Clients \ {c} : req'[d] = req[d]
  BY <1>1, <1>2, FailIs DEF Failed
<1>. QED BY <1>1, <1>3, QuietShape

\* A request that goes on from q, which has only lost a clean mark, or fails.
LEMMA MadeOrFailed ==
  ASSUME Base, NEW c \in Clients, Busy(c), req[c].todo # <<>>,
         Head(req[c].todo) \notin {"list", "load"}, Head(req[c].todo) = "index" => index # None,
         NEW q \in [Clients -> Progress], Waits(q[c], req[c]), \A d \in Clients \ {c} : q[d] = req[d],
         NEW next, next = GoOn(q, c, Tail(req[c].todo)) \/ next = Fail(q, c)
  PROVE  /\ next \in [Clients -> Progress] /\ \A d \in Clients \ {c} : next[d] = req[d]
         /\ Failed(next[c]) \/ GoesOn(next[c], req[c])
<1>. DEFINE rest == Tail(req[c].todo)
            g == GoOn(q, c, rest)
            f == Fail(q, c)
<1>1. req[c].r \in Request /\ rest \in Seq(Calls)
  BY CallerHas
<1>2. /\ g \in [Clients -> Progress] /\ MovesTo(g[c], q[c], q[c].r, rest)
      /\ \A d \in Clients \ {c} : g[d] = q[d]
  BY <1>1, GoOnIs
<1>3. f \in [Clients -> Progress] /\ Failed(f[c]) /\ \A d \in Clients \ {c} : f[d] = q[d]
  BY FailIs DEF Failed
<1>4. next = g \/ next = f
  OBVIOUS
<1>. HIDE DEF f, g
<1>5. MovesTo(g[c], req[c], req[c].r, rest)
  BY <1>2 DEF MovesTo, Waits
<1>6. GoesOn(g[c], req[c])
  BY <1>1, <1>5 DEF GoesOn
<1>. QED BY <1>2, <1>3, <1>4, <1>6

\* Such a step that changes nothing else.
LEMMA MadeShape ==
  ASSUME Base, NEW c \in Clients, Busy(c), req[c].todo # <<>>, UNCHANGED <<repo, issues, index>>,
         Head(req[c].todo) \notin {"list", "load"}, Head(req[c].todo) = "index" => index # None,
         NEW q \in [Clients -> Progress], Waits(q[c], req[c]), \A d \in Clients \ {c} : q[d] = req[d],
         req' = GoOn(q, c, Tail(req[c].todo)) \/ req' = Fail(q, c)
  PROVE  Shape(c)
<1>1. /\ req' \in [Clients -> Progress] /\ \A d \in Clients \ {c} : req'[d] = req[d]
      /\ Failed(req'[c]) \/ GoesOn(req'[c], req[c])
  BY MadeOrFailed
<1>. QED BY <1>1, QuietShape

\* A step that leaves a client alone leaves it waiting.
LEMMA SameWaits == ASSUME Base PROVE req \in [Clients -> Progress] /\ \A c \in Clients : Waits(req[c], req[c])
  BY DEF Base, TypeInv, Waits

\* The listing: from it a request learns its issue and plans its calls.
LEMMA ListShape == ASSUME Base, NEW c \in Clients, List(c) PROVE Shape(c)
<1>. DEFINE r == req[c].r
            i == r.issue
            q == [req EXCEPT ![c].seen = issues[i], ![c].late = i \in taken]
            rest == Plan(r, issues[i])
            g == GoOn(q, c, rest)
<1>1. Busy(c) /\ req[c].todo # <<>> /\ Head(req[c].todo) = "list"
  BY DEF List, At
<1>2. req[c] \in Progress /\ r \in Request /\ i \in Issues /\ issues[i] \in Issue /\ req \in [Clients -> Progress]
  BY <1>1, CallerHas DEF Base, TypeInv
<1>3. r.op # "create"
  <2>1. Has(req[c].todo, "list")
    BY <1>1, CallerHas, OrderedHead
  <2>. QED BY <2>1 DEF Base, OrderInv
<1>4. rest \in Seq(Calls) /\ rest # <<>>
  BY <1>2, <1>3, PlanOrdered
<1>5. UNCHANGED <<repo, issues, index>>
  BY DEF List
<1>6. CASE req' = Fail(req, c)
  <2>1. req' \in [Clients -> Progress] /\ Failed(req'[c]) /\ \A d \in Clients \ {c} : req'[d] = req[d]
    BY <1>2, <1>6, FailIs DEF Failed
  <2>. QED BY <1>1, <1>5, <2>1, QuietShape
<1>7. CASE req' = g /\ (r.op = "claim" => ~issueUnavailableForClaim(issues, i))
  <2>. DEFINE was == i \in taken
              m == [req[c] EXCEPT !.seen = issues[i], !.late = was]
  <2>1. q = [req EXCEPT ![c] = m]
    BY <1>2 DEF Progress
  <2>0. was \in BOOLEAN /\ was = (i \in taken)
    OBVIOUS
  <2>. HIDE DEF was
  <2>2. m \in Progress /\ m.r = r /\ m.seen = issues[i] /\ m.late = was /\ m.clean = req[c].clean
    BY <1>2, <2>0 DEF Progress
  <2>. HIDE DEF m
  <2>3. q \in [Clients -> Progress] /\ q[c] = m /\ \A d \in Clients \ {c} : q[d] = req[d]
    BY <1>2, <2>1, <2>2
  <2>. HIDE DEF q, rest
  <2>4. g \in [Clients -> Progress] /\ MovesTo(g[c], m, m.r, rest) /\ \A d \in Clients \ {c} : g[d] = req[d]
    BY <1>4, <2>3, GoOnIs
  <2>. HIDE DEF g
  <2>5. r.op = "claim" => IssueStage(issues[i]) = "accepted"
    BY <1>7 DEF issueUnavailableForClaim
  <2>6. Planned(g[c], req[c])
    BY <1>1, <1>4, <2>0, <2>2, <2>4, <2>5 DEF Planned, MovesTo, rest
  <2>. QED BY <1>1, <1>5, <1>7, <2>4, <2>6, QuietShape
<1>. QED BY <1>6, <1>7 DEF List

\* The label index is asked for: built already, or to be loaded.
LEMMA IndexShape == ASSUME Base, NEW c \in Clients, CheckIndex(c) PROVE Shape(c)
<1>1. Busy(c) /\ req[c].todo # <<>> /\ Head(req[c].todo) = "index" /\ UNCHANGED <<repo, issues, index>>
  BY DEF CheckIndex, At
<1>2. CASE index # None
  <2>1. req' = GoOn(req, c, Tail(req[c].todo))
    BY <1>2 DEF CheckIndex
  <2>. QED BY <1>1, <1>2, <2>1, SameWaits, MadeShape
<1>3. CASE index = None
  <2>. DEFINE rest == <<"load">> \o Tail(req[c].todo)
              g == GoOn(req, c, rest)
  <2>1. req' = g
    BY <1>3 DEF CheckIndex
  <2>2. rest \in Seq(Calls) /\ rest # <<>>
    BY <1>1, CallerHas, OrderedReplace
  <2>3. g \in [Clients -> Progress] /\ MovesTo(g[c], req[c], req[c].r, rest) /\ \A d \in Clients \ {c} : g[d] = req[d]
    BY <2>2, SameWaits, GoOnIs
  <2>. HIDE DEF g
  <2>4. Builds(g[c], req[c])
    BY <1>1, <2>2, <2>3 DEF Builds, MovesTo
  <2>. QED BY <1>1, <2>1, <2>3, <2>4, QuietShape
<1>. QED BY <1>2, <1>3

\* The repository's labels are loaded; the index comes after them.
LEMMA LoadShape == ASSUME Base, NEW c \in Clients, LoadIndex(c) PROVE Shape(c)
<1>1. /\ Busy(c) /\ req[c].todo # <<>> /\ Head(req[c].todo) = "load" /\ UNCHANGED <<repo, issues>> /\ index' = {}
      /\ req' = [req EXCEPT ![c].todo = <<"fill">> \o Tail(@), ![c].ids = repo]
  BY DEF LoadIndex, At
<1>. DEFINE rest == <<"fill">> \o Tail(req[c].todo)
            n == [req[c] EXCEPT !.todo = rest, !.ids = repo]
<1>2. rest \in Seq(Calls)
  BY <1>1, CallerHas, OrderedReplace
<1>3. req[c] \in Progress /\ req \in [Clients -> Progress] /\ repo \subseteq Label
  BY DEF Base, TypeInv
<1>4. req' = [req EXCEPT ![c] = n]
  BY <1>1, <1>3 DEF Progress
<1>. HIDE DEF rest
<1>5. /\ n \in Progress /\ n.r = req[c].r /\ n.todo = rest /\ n.seen = req[c].seen /\ n.late = req[c].late
      /\ n.clean = req[c].clean /\ n.ids = repo
  BY <1>2, <1>3 DEF Progress
<1>. HIDE DEF n
<1>6. Builds(n, req[c])
  BY <1>1, <1>5 DEF Builds, rest
<1>7. req' \in [Clients -> Progress] /\ req'[c] = n /\ \A d \in Clients \ {c} : req'[d] = req[d]
  BY <1>3, <1>4, <1>5
<1>8. index' # None /\ index' \subseteq repo
  BY <1>1, NoneAssumption
<1>. QED BY <1>1, <1>6, <1>7, <1>8, QuietShape

\* The label index is built from what was loaded.
LEMMA FillShape == ASSUME Base, NEW c \in Clients, FillIndex(c) PROVE Shape(c)
<1>1. Busy(c) /\ req[c].todo # <<>> /\ Head(req[c].todo) = "fill" /\ UNCHANGED <<repo, issues>>
  BY DEF FillIndex, At
<1>2. CASE req[c].ids = {}
  <2>1. req' = GoOn(req, c, Tail(req[c].todo)) /\ UNCHANGED index
    BY <1>2 DEF FillIndex
  <2>. QED BY <1>1, <2>1, SameWaits, MadeShape
<1>3. CASE req[c].ids # {}
  <2>1. PICK l \in req[c].ids : index' = index \cup {l} /\ req' = [req EXCEPT ![c].ids = @ \ {l}]
    BY <1>3 DEF FillIndex
  <2>. DEFINE n == [req[c] EXCEPT !.ids = @ \ {l}]
  <2>2. /\ req[c] \in Progress /\ req \in [Clients -> Progress] /\ req[c].ids \subseteq repo
        /\ repo \subseteq Repo \cup Loose /\ index \subseteq repo
    BY <1>1, CallerHas DEF Base, TypeInv, LabelInv
  <2>3. req' = [req EXCEPT ![c] = n]
    BY <2>1, <2>2 DEF Progress
  <2>4. /\ n \in Progress /\ n.r = req[c].r /\ n.todo = req[c].todo /\ n.seen = req[c].seen
        /\ n.late = req[c].late /\ n.clean = req[c].clean /\ n.ids \subseteq repo
    BY <2>2 DEF Progress
  <2>. HIDE DEF n
  <2>5. Stays(n, req[c])
    BY <1>1, <2>4 DEF Stays
  <2>6. req' \in [Clients -> Progress] /\ req'[c] = n /\ \A d \in Clients \ {c} : req'[d] = req[d]
    BY <2>2, <2>3, <2>4
  <2>7. index' \subseteq repo /\ index' \in SUBSET (Repo \cup Loose)
    BY <2>1, <2>2
  <2>8. index' # None
    BY <2>7, NoneAssumption
  <2>. QED BY <1>1, <2>5, <2>6, <2>7, <2>8, QuietShape
<1>. QED BY <1>2, <1>3

\* Find, Check and Refresh make their call.
LEMMA LookShape ==
  ASSUME Base, NEW c \in Clients, Find(c) \/ Check(c) \/ Refresh(c) PROVE Shape(c)
<1>1. /\ Busy(c) /\ req[c].todo # <<>> /\ Head(req[c].todo) \in {"find", "check", "refresh"}
      /\ UNCHANGED <<repo, issues, index>>
      /\ req' = GoOn(req, c, Tail(req[c].todo)) \/ req' = Fail(req, c)
  BY DEF Find, Check, Refresh, At
<1>. QED BY <1>1, SameWaits, MadeShape

\* The record with its clean mark kept only if b holds.
LEMMA Marked ==
  ASSUME Base, NEW c \in Clients, NEW b
  PROVE  LET q == [req EXCEPT ![c].clean = @ /\ b]
         IN  /\ q \in [Clients -> Progress] /\ Waits(q[c], req[c]) /\ \A d \in Clients \ {c} : q[d] = req[d]
             /\ q[c].clean => b
             /\ q[c].r = req[c].r /\ q[c].todo = req[c].todo /\ q[c].seen = req[c].seen
             /\ q[c].ids = req[c].ids /\ q[c].tries = req[c].tries /\ q[c].late = req[c].late
<1>. DEFINE mark == req[c].clean /\ b
            n == [req[c] EXCEPT !.clean = mark]
<1>1. req \in [Clients -> Progress] /\ req[c] \in Progress
  BY DEF Base, TypeInv
<1>2. [req EXCEPT ![c].clean = @ /\ b] = [req EXCEPT ![c] = n]
  BY <1>1 DEF Progress
<1>3. mark \in BOOLEAN /\ (mark => req[c].clean) /\ (mark => b)
  OBVIOUS
<1>. HIDE DEF mark
<1>4. /\ n \in Progress /\ n.clean = mark /\ n.r = req[c].r /\ n.todo = req[c].todo /\ n.seen = req[c].seen
      /\ n.ids = req[c].ids /\ n.tries = req[c].tries /\ n.late = req[c].late
  BY <1>1, <1>3 DEF Progress
<1>. HIDE DEF n
<1>5. Waits(n, req[c])
  BY <1>3, <1>4 DEF Waits
<1>6. [req EXCEPT ![c] = n][c] = n /\ [req EXCEPT ![c] = n] \in [Clients -> Progress]
      /\ \A d \in Clients \ {c} : [req EXCEPT ![c] = n][d] = req[d]
  BY <1>1, <1>4
<1>. QED BY <1>2, <1>3, <1>4, <1>5, <1>6

\* A label call with nothing to do is left out.
LEMMA SkipShape == ASSUME Base, NEW c \in Clients, SkipLabels(c) PROVE Shape(c)
<1>. DEFINE q == [req EXCEPT ![c].clean = @ /\ index = repo]
<1>1. /\ Busy(c) /\ req[c].todo # <<>> /\ Head(req[c].todo) \in Ignored
      /\ UNCHANGED <<repo, issues, index>> /\ req' = GoOn(q, c, Tail(req[c].todo))
  BY DEF SkipLabels
<1>2. q \in [Clients -> Progress] /\ Waits(q[c], req[c]) /\ \A d \in Clients \ {c} : q[d] = req[d]
  BY Marked
<1>. HIDE DEF q
<1>3. Head(req[c].todo) \notin {"list", "load", "index"}
  BY <1>1 DEF Ignored
<1>. QED BY <1>1, <1>2, <1>3, MadeShape

\* Writing one issue: the record it becomes is an issue, the others stay.
LEMMA OneIssue ==
  ASSUME Base, NEW i, NEW m, i \in Issues => m \in Issue /\ m.labels \subseteq repo
  PROVE  LET is == [issues EXCEPT ![i] = m]
         IN  /\ is \in [Issues -> Issue] /\ \A k \in Issues : is[k].labels \subseteq repo
             /\ i \in Issues => is[i] = m
             /\ \A k \in Issues : k # i => is[k] = issues[k]
<1>. DEFINE is == [issues EXCEPT ![i] = m]
<1>1. issues \in [Issues -> Issue] /\ \A k \in Issues : issues[k].labels \subseteq repo
  BY DEF Base, TypeInv, LabelInv
<1>2. is \in [Issues -> Issue] /\ (i \in Issues => is[i] = m) /\ \A k \in Issues : k # i => is[k] = issues[k]
  BY <1>1
<1>. HIDE DEF is
<1>3. \A k \in Issues : is[k].labels \subseteq repo
  BY <1>1, <1>2
<1>. QED BY <1>2, <1>3 DEF is

\* The labels an issue has before and after a write that was carried out or not.
Relabelled(i, call, ids, done) ==
  /\ call \notin {"remove", "add", "create"} => issues'[i].labels = issues[i].labels
  /\ call = "remove" => issues'[i].labels = IF done THEN issues[i].labels \ ids ELSE issues[i].labels
  /\ call = "add" => issues'[i].labels = IF done THEN issues[i].labels \cup ids ELSE issues[i].labels

\* The issue of the request gets its parent.
Linked(q) ==
  /\ issues[q.r.issue].parent = None
  /\ issues' = [issues EXCEPT ![q.r.issue].parent = q.r.parent]

\* The parents of the issues, where the call is carried out ("done") or not.
Reparented(q, done) ==
  IF Head(q.todo) = "link" THEN IF done THEN Linked(q) ELSE issues' = issues
  ELSE \A k \in Issues : issues'[k].parent \in {issues[k].parent, None}

\* Only a link gives an issue a parent.
LEMMA CarriedParents ==
  ASSUME Base, NEW c \in Clients, NEW ids,
         Head(req[c].todo) \in Writes, Accepts(c, Head(req[c].todo)), Carried(c, Head(req[c].todo), ids)
  PROVE  Reparented(req[c], TRUE)
<1>. DEFINE call == Head(req[c].todo)
            i == req[c].r.issue
<1>1. issues \in [Issues -> Issue]
  BY DEF Base, TypeInv
<1>2. CASE call = "link"
  BY <1>2 DEF Accepts, Carried, Reparented, Linked
<1>3. ASSUME NEW labels, issues' = [issues EXCEPT ![i].labels = labels], call # "link"
      PROVE  Reparented(req[c], TRUE)
  <2>1. \A k \in Issues : issues'[k].parent = issues[k].parent
    BY <1>1, <1>3 DEF Issue
  <2>. QED BY <1>3, <2>1 DEF Reparented
<1>4. ASSUME NEW state, issues' = [issues EXCEPT ![i].state = state], call # "link"
      PROVE  Reparented(req[c], TRUE)
  <2>1. \A k \in Issues : issues'[k].parent = issues[k].parent
    BY <1>1, <1>4 DEF Issue
  <2>. QED BY <1>4, <2>1 DEF Reparented
<1>5. CASE call = "unlink"
  <2>1. issues' = [issues EXCEPT ![i].parent = None]
    BY <1>5 DEF Carried
  <2>2. \A k \in Issues : issues'[k].parent \in {issues[k].parent, None}
    BY <1>1, <2>1 DEF Issue
  <2>. QED BY <1>5, <2>2 DEF Reparented
<1>6. CASE call = "create"
  <2>. DEFINE n == CHOOSE k \in Issues : issues[k].state = "absent"
              s == req[c].r.stage
              labels == IF s = None THEN {} ELSE {StageToLabel(s)} \cap index
              m == [Absent EXCEPT !.state = "open", !.labels = labels]
  <2>1. issues' = [issues EXCEPT ![n] = m]
    BY <1>6 DEF Carried
  <2>. HIDE DEF n, labels
  <2>2. m.parent = None
    BY DEF Absent
  <2>. HIDE DEF m
  <2>3. \A k \in Issues : issues'[k].parent \in {issues[k].parent, None}
    BY <1>1, <2>1, <2>2
  <2>. QED BY <1>6, <2>3 DEF Reparented
<1>7. call = "edit" => issues' = issues
  BY DEF Carried
<1>8. call = "remove" => issues' = [issues EXCEPT ![i].labels = @ \ ids]
  BY DEF Carried
<1>9. call = "add" => issues' = [issues EXCEPT ![i].labels = @ \cup ids]
  BY DEF Carried
<1>10. call = "close" => \E state : issues' = [issues EXCEPT ![i].state = state]
  BY DEF Carried
<1>11. CASE call = "edit"
  BY <1>7, <1>11 DEF Reparented
<1>. QED BY <1>2, <1>3, <1>4, <1>5, <1>6, <1>8, <1>9, <1>10, <1>11 DEF Writes

\* A write that is carried out leaves issues, with labels of the repository.
LEMMA CarriedIs ==
  ASSUME Base, NEW c \in Clients, Busy(c), req[c].todo # <<>>, NEW ids \in SUBSET repo,
         Head(req[c].todo) \in Writes, Accepts(c, Head(req[c].todo)), Carried(c, Head(req[c].todo), ids)
  PROVE  /\ issues' \in [Issues -> Issue] /\ \A k \in Issues : issues'[k].labels \subseteq repo
         /\ req[c].r.issue \in Issues => Relabelled(req[c].r.issue, Head(req[c].todo), ids, TRUE)
         /\ Head(req[c].todo) = "create" =>
              \E k \in Issues : issues[k].state = "absent" /\ issues'[k].state # "absent"
<1>. DEFINE call == Head(req[c].todo)
            i == req[c].r.issue
<1>1. repo \subseteq Label /\ issues \in [Issues -> Issue] /\ \A k \in Issues : issues[k].labels \subseteq repo
  BY DEF Base, TypeInv, LabelInv
<1>2. CASE call = "edit"
  <2>1. issues' = issues
    BY <1>2 DEF Carried
  <2>. QED BY <1>1, <1>2, <2>1 DEF Relabelled
<1>3. CASE call = "remove"
  <2>. DEFINE m == [issues[i] EXCEPT !.labels = @ \ ids]
  <2>1. i \in Issues => issues' = [issues EXCEPT ![i] = m]
    BY <1>1, <1>3 DEF Carried
  <2>2. i \in Issues => m \in Issue /\ m.labels = issues[i].labels \ ids /\ m.labels \subseteq repo
    BY <1>1 DEF Issue
  <2>. HIDE DEF m
  <2>3. i \notin Issues => issues' = issues
    BY <1>1, <1>3 DEF Carried
  <2>. QED BY <1>1, <1>3, <2>1, <2>2, <2>3, OneIssue DEF Relabelled
<1>4. CASE call = "add"
  <2>. DEFINE m == [issues[i] EXCEPT !.labels = @ \cup ids]
  <2>1. i \in Issues => issues' = [issues EXCEPT ![i] = m]
    BY <1>1, <1>4 DEF Carried
  <2>2. i \in Issues => m \in Issue /\ m.labels = issues[i].labels \cup ids /\ m.labels \subseteq repo
    BY <1>1 DEF Issue
  <2>. HIDE DEF m
  <2>3. i \notin Issues => issues' = issues
    BY <1>1, <1>4 DEF Carried
  <2>. QED BY <1>1, <1>4, <2>1, <2>2, <2>3, OneIssue DEF Relabelled
<1>5. CASE call = "close"
  <2>. DEFINE state == IF req[c].r.stage \in {"wont_fix", "cancelled"} THEN "not_planned" ELSE "completed"
              m == [issues[i] EXCEPT !.state = state]
  <2>0. state \in Closed
    BY DEF Closed
  <2>1. issues' = [issues EXCEPT ![i].state = state]
    BY <1>5 DEF Carried
  <2>. HIDE DEF state
  <2>2. i \in Issues => issues' = [issues EXCEPT ![i] = m]
    BY <1>1, <2>1
  <2>3. i \in Issues => m \in Issue /\ m.labels = issues[i].labels
    BY <1>1, <2>0 DEF Issue
  <2>. HIDE DEF m
  <2>4. i \notin Issues => issues' = issues
    BY <1>1, <2>1
  <2>. QED BY <1>1, <1>5, <2>2, <2>3, <2>4, OneIssue DEF Relabelled
<1>6. CASE call = "unlink"
  <2>. DEFINE m == [issues[i] EXCEPT !.parent = None]
  <2>1. i \in Issues => issues' = [issues EXCEPT ![i] = m]
    BY <1>1, <1>6 DEF Carried
  <2>2. i \in Issues => m \in Issue /\ m.labels = issues[i].labels
    BY <1>1 DEF Issue
  <2>. HIDE DEF m
  <2>3. i \notin Issues => issues' = issues
    BY <1>1, <1>6 DEF Carried
  <2>. QED BY <1>1, <1>6, <2>1, <2>2, <2>3, OneIssue DEF Relabelled
<1>7. CASE call = "link"
  <2>. DEFINE p == req[c].r.parent
              m == [issues[i] EXCEPT !.parent = p]
  <2>0. p \in Issues
    BY <1>7, CallerHas
  <2>1. issues' = [issues EXCEPT ![i].parent = p]
    BY <1>7 DEF Carried
  <2>. HIDE DEF p
  <2>2. i \in Issues => issues' = [issues EXCEPT ![i] = m]
    BY <1>1, <2>1
  <2>3. i \in Issues => m \in Issue /\ m.labels = issues[i].labels
    BY <1>1, <2>0 DEF Issue
  <2>. HIDE DEF m
  <2>4. i \notin Issues => issues' = issues
    BY <1>1, <2>1
  <2>. QED BY <1>1, <1>7, <2>2, <2>3, <2>4, OneIssue DEF Relabelled
<1>8. CASE call = "create"
  <2>. DEFINE n == CHOOSE k \in Issues : issues[k].state = "absent"
              s == req[c].r.stage
              labels == IF s = None THEN {} ELSE {StageToLabel(s)} \cap index
              m == [Absent EXCEPT !.state = "open", !.labels = labels]
  <2>1. n \in Issues /\ issues[n].state = "absent"
    BY <1>8 DEF Accepts
  <2>2. index \subseteq repo
    BY <1>8, CallerHas
  <2>3. labels \subseteq repo
    BY <2>2
  <2>4. issues' = [issues EXCEPT ![n] = m]
    BY <1>8 DEF Carried
  <2>. HIDE DEF n, labels
  <2>5. m \in Issue /\ m.labels = labels /\ m.state = "open"
    BY <1>1, <2>3 DEF Issue, Absent
  <2>. HIDE DEF m
  <2>6. issues' \in [Issues -> Issue] /\ (\A k \in Issues : issues'[k].labels \subseteq repo) /\ issues'[n] = m
    BY <2>1, <2>3, <2>4, <2>5, OneIssue
  <2>. QED BY <1>8, <2>1, <2>5, <2>6 DEF Relabelled
<1>. QED BY <1>2, <1>3, <1>4, <1>5, <1>6, <1>7, <1>8 DEF Writes

\* What comes of one attempt at a write, besides the shape of the step.
Effect(c) ==
  LET q == req[c]
      n == req'[c]
  IN \E done \in BOOLEAN, ids \in SUBSET repo :
       /\ Reparented(q, done)
       /\ q.r.issue \in Issues => Relabelled(q.r.issue, Head(q.todo), ids, done)
       /\ \/ Failed(n) \/ ~n.clean
          \/ /\ Head(q.todo) \in Ignored =>
                  IF q.tries # 0 THEN ids = q.ids ELSE ids = LabelIds(c, Head(q.todo)) /\ index = repo
             /\ \/ done /\ GoesOn(n, q)
                \/ Stays(n, q) /\ n.tries # 0 /\ n.ids = ids

\* One HTTP attempt at a mutation: what becomes of the request, and of the issue.
LEMMA AttemptShape ==
  ASSUME Base, NEW c \in Clients, Attempt(c) PROVE Shape(c) /\ Effect(c)
<1>. DEFINE call == Head(req[c].todo)
            first == req[c].tries = 0
            ids == IF ~first \/ call \notin Ignored THEN req[c].ids ELSE LabelIds(c, call)
            mark == first /\ call \in Ignored => index = repo
            kept == [req EXCEPT ![c].clean = @ /\ mark]
            rest == Tail(req[c].todo)
            made == {k \in Issues : issues[k].state = "absent" /\ issues'[k].state # "absent"}
            named == IF call = "create" THEN [kept EXCEPT ![c].r.issue = CHOOSE k \in made : TRUE] ELSE kept
<1>1. Busy(c) /\ req[c].todo # <<>> /\ call \in Writes /\ UNCHANGED <<repo, index>>
  BY DEF Attempt
<1>2. /\ req[c] \in Progress /\ req[c].r \in Request /\ rest \in Seq(Calls)
      /\ call \in Ignored => index \subseteq repo
  BY <1>1, CallerHas DEF Ignored
<1>3. ids \in SUBSET repo
  <2>1. req[c].ids \subseteq repo
    BY DEF Base, LabelInv
  <2>2. LabelIds(c, call) \subseteq index
    BY DEF LabelIds
  <2>. QED BY <1>2, <2>1, <2>2
<1>4. /\ kept \in [Clients -> Progress] /\ Waits(kept[c], req[c]) /\ \A d \in Clients \ {c} : kept[d] = req[d]
      /\ kept[c].clean => mark
      /\ kept[c].r = req[c].r /\ kept[c].todo = req[c].todo /\ kept[c].seen = req[c].seen
      /\ kept[c].ids = req[c].ids /\ kept[c].tries = req[c].tries /\ kept[c].late = req[c].late
  <2>. HIDE DEF mark
  <2>. QED BY Marked
<1>5. PICK answer \in {"ok", "again", "broken"}, done \in BOOLEAN :
        /\ answer = "ok" => done
        /\ IF done /\ Accepts(c, call) THEN Carried(c, call, ids) ELSE UNCHANGED issues
        /\ CASE answer = "ok" /\ Accepts(c, call) -> Observed(GoOn(named, c, rest), c)
             [] answer = "again" /\ Again(c) -> Observed([Tried(kept, c) EXCEPT ![c].ids = ids], c)
             [] OTHER ->
                  Observed(IF call \in Ignored THEN GoOn([kept EXCEPT ![c].clean = FALSE], c, rest)
                           ELSE Fail(kept, c), c)
  BY DEF Attempt
<1>. HIDE DEF ids, kept, mark, rest
<1>6. /\ issues' \in [Issues -> Issue] /\ \A k \in Issues : issues'[k].labels \subseteq repo
      /\ Reparented(req[c], done /\ Accepts(c, call))
      /\ req[c].r.issue \in Issues => Relabelled(req[c].r.issue, call, ids, done /\ Accepts(c, call))
      /\ call = "create" /\ done /\ Accepts(c, call) => made # {}
  <2>1. CASE done /\ Accepts(c, call)
    BY <1>1, <1>3, <1>5, <2>1, CarriedIs, CarriedParents
  <2>2. CASE ~(done /\ Accepts(c, call))
    BY <1>5, <2>2 DEF Base, TypeInv, LabelInv, Relabelled, Reparented
  <2>. QED BY <2>1, <2>2
<1>7. call \in Ignored => Accepts(c, call)
  BY DEF Ignored, Accepts
<1>. DEFINE moved(q) == /\ q \in [Clients -> Progress] /\ \A d \in Clients \ {c} : q[d] = req[d]
                        /\ Observed(q, c)
                        /\ \/ Failed(q[c])
                           \/ /\ q[c].clean => kept[c].clean
                              /\ \/ GoesOn(q[c], req[c]) /\ ((done /\ Accepts(c, call)) \/ ~q[c].clean)
                                 \/ Stays(q[c], req[c]) /\ q[c].tries # 0 /\ q[c].ids = ids
<1>8. \E q : moved(q)
  <2>1. CASE answer = "ok" /\ Accepts(c, call)
    <3>. DEFINE new == CHOOSE k \in made : TRUE
                r == IF call = "create" THEN [req[c].r EXCEPT !.issue = new] ELSE req[c].r
                m == [kept[c] EXCEPT !.r = r]
                g == GoOn(named, c, rest)
    <3>1. kept[c] \in Progress
      BY <1>4
    <3>2. call = "create" => new \in Issues
      BY <1>5, <1>6, <2>1
    <3>. HIDE DEF new
    <3>3. r \in Request /\ r.op = req[c].r.op /\ r.parent = req[c].r.parent /\ (call # "create" => r = req[c].r)
      BY <1>2, <3>2 DEF Request
    <3>4. named = [kept EXCEPT ![c] = m]
      <4>1. CASE call = "create"
        <5>1. named = [kept EXCEPT ![c].r.issue = new]
          BY <4>1 DEF new
        <5>2. r = [kept[c].r EXCEPT !.issue = new]
          BY <1>4, <4>1
        <5>. HIDE DEF named, r
        <5>. QED BY <1>4, <3>1, <5>1, <5>2
      <4>2. CASE call # "create"
        <5>1. named = kept /\ r = kept[c].r
          BY <1>4, <4>2
        <5>. HIDE DEF named, r
        <5>2. m = kept[c]
          BY <3>1, <5>1 DEF Progress
        <5>. HIDE DEF m
        <5>. QED BY <1>4, <5>1, <5>2
      <4>. QED BY <4>1, <4>2
    <3>. HIDE DEF r, named
    <3>5. m \in Progress /\ m.r = r /\ m.clean = kept[c].clean /\ m.seen = req[c].seen /\ m.late = req[c].late
      BY <1>4, <3>1, <3>3 DEF Progress
    <3>. HIDE DEF m
    <3>6. named \in [Clients -> Progress] /\ named[c] = m /\ \A d \in Clients \ {c} : named[d] = req[d]
      BY <1>4, <3>4, <3>5
    <3>7. g \in [Clients -> Progress] /\ MovesTo(g[c], m, r, rest) /\ \A d \in Clients \ {c} : g[d] = req[d]
      BY <1>2, <3>5, <3>6, GoOnIs
    <3>8. Observed(g, c)
      BY <1>5, <2>1
    <3>. HIDE DEF g
    <3>9. MovesTo(g[c], req[c], r, rest) /\ (g[c].clean => kept[c].clean)
      BY <1>4, <3>5, <3>7 DEF MovesTo, Waits
    <3>10. call \notin {"list", "load", "index"}
      BY <1>1 DEF Writes
    <3>11. GoesOn(g[c], req[c])
      BY <3>3, <3>9, <3>10 DEF GoesOn, rest
    <3>12. done /\ Accepts(c, call)
      BY <1>5, <2>1
    <3>. QED BY <3>7, <3>8, <3>9, <3>11, <3>12
  <2>2. CASE answer = "again" /\ Again(c)
    <3>. DEFINE m == [kept[c] EXCEPT !.tries = @ + 1, !.ids = ids]
                g == [Tried(kept, c) EXCEPT ![c].ids = ids]
    <3>1. kept[c] \in Progress /\ repo \subseteq Label
      BY <1>4 DEF Base, TypeInv
    <3>2. g = [kept EXCEPT ![c] = m]
      BY <1>4, <3>1 DEF Tried, Progress
    <3>3. /\ m \in Progress /\ m.r = req[c].r /\ m.todo = req[c].todo /\ m.seen = req[c].seen
          /\ m.late = req[c].late /\ m.clean = kept[c].clean /\ m.ids = ids /\ m.tries # 0
      <4>1. ids \in SUBSET Label /\ kept[c].tries \in Nat /\ kept[c].tries + 1 \in Nat /\ kept[c].tries + 1 # 0
        BY <1>3, <3>1 DEF Progress
      <4>2. m \in Progress
        BY <3>1, <4>1 DEF Progress
      <4>. QED BY <1>4, <3>1, <4>1, <4>2 DEF Progress
    <3>4. Observed(g, c)
      BY <1>5, <2>2
    <3>. HIDE DEF m, g
    <3>5. g \in [Clients -> Progress] /\ g[c] = m /\ \A d \in Clients \ {c} : g[d] = req[d]
      BY <1>4, <3>2, <3>3
    <3>6. Stays(m, req[c])
      BY <1>1, <1>3, <1>4, <3>3 DEF Stays, Waits
    <3>. QED BY <3>3, <3>4, <3>5, <3>6
  <2>3. CASE ~(answer = "ok" /\ Accepts(c, call)) /\ ~(answer = "again" /\ Again(c))
    <3>. DEFINE m == [kept[c] EXCEPT !.clean = FALSE]
                stained == [kept EXCEPT ![c].clean = FALSE]
                g == GoOn(stained, c, rest)
                f == Fail(kept, c)
    <3>1. kept[c] \in Progress
      BY <1>4
    <3>2. stained = [kept EXCEPT ![c] = m]
      BY <3>1 DEF Progress
    <3>3. m \in Progress /\ m.r = req[c].r /\ m.seen = req[c].seen /\ m.late = req[c].late /\ m.clean = FALSE
      BY <1>4, <3>1 DEF Progress
    <3>. HIDE DEF m, stained
    <3>4. stained \in [Clients -> Progress] /\ stained[c] = m /\ \A d \in Clients \ {c} : stained[d] = req[d]
      BY <1>4, <3>2, <3>3
    <3>5. CASE call \in Ignored
      <4>1. Observed(g, c)
        BY <1>5, <2>3, <3>5 DEF stained
      <4>2. g \in [Clients -> Progress] /\ MovesTo(g[c], m, m.r, rest) /\ \A d \in Clients \ {c} : g[d] = req[d]
        BY <1>2, <3>4, GoOnIs
      <4>. HIDE DEF g
      <4>3. MovesTo(g[c], req[c], req[c].r, rest) /\ ~g[c].clean
        BY <3>3, <4>2 DEF MovesTo
      <4>4. call \notin {"list", "load", "index"}
        BY <1>1 DEF Writes
      <4>5. GoesOn(g[c], req[c])
        BY <1>2, <4>3, <4>4 DEF GoesOn, rest
      <4>. QED BY <4>1, <4>2, <4>3, <4>5
    <3>6. CASE call \notin Ignored
      <4>1. Observed(f, c)
        BY <1>5, <2>3, <3>6
      <4>2. f \in [Clients -> Progress] /\ Failed(f[c]) /\ \A d \in Clients \ {c} : f[d] = kept[d]
        BY <1>4, FailIs DEF Failed
      <4>. HIDE DEF f
      <4>. QED BY <1>4, <4>1, <4>2
    <3>. QED BY <3>5, <3>6
  <2>. QED BY <2>1, <2>2, <2>3
<1>9. PICK q : moved(q)
  BY <1>8
<1>10. /\ req' \in [Clients -> Progress] /\ req'[c] = q[c]
       /\ \A d \in Clients \ {c} :
            /\ Waits(req'[d], req[d])
            /\ Busy(d) /\ req'[d].clean => Relied(issues', req[d].r) = Relied(issues, req[d].r)
            /\ Busy(d) /\ req'[d].clean /\ req[d].r.issue # None
                 => issues'[req[d].r.issue] = issues[req[d].r.issue]
  BY <1>9, ObservedIs DEF Busy
<1>11. Shape(c)
  <2>1. Failed(req'[c]) \/ Stays(req'[c], req[c]) \/ GoesOn(req'[c], req[c])
    BY <1>9, <1>10
  <2>2. (index' = None => index = None) /\ (index' # None => index' \subseteq repo)
    BY <1>1 DEF Base, LabelInv
  <2>. QED BY <1>1, <1>6, <1>10, <2>1, <2>2 DEF Shape
<1>12. Effect(c)
  <2>. DEFINE did == done /\ Accepts(c, call)
  <2>1. did \in BOOLEAN
    OBVIOUS
  <2>2. kept[c].clean /\ call \in Ignored =>
          IF req[c].tries # 0 THEN ids = req[c].ids ELSE ids = LabelIds(c, call) /\ index = repo
    BY <1>4 DEF ids, mark
  <2>3. \/ Failed(req'[c]) \/ ~req'[c].clean
        \/ /\ kept[c].clean
           /\ \/ did /\ GoesOn(req'[c], req[c])
              \/ Stays(req'[c], req[c]) /\ req'[c].tries # 0 /\ req'[c].ids = ids
    BY <1>9, <1>10
  <2>. HIDE DEF did, ids
  <2>4. /\ req[c].r.issue \in Issues => Relabelled(req[c].r.issue, call, ids, did)
        /\ Reparented(req[c], did)
    BY <1>6 DEF did
  <2>. QED BY <1>3, <2>1, <2>2, <2>3, <2>4 DEF Effect
<1>. QED BY <1>11, <1>12

\* Every step of a request has one of the five outcomes.
LEMMA StepShape == ASSUME Base, NEW c \in Clients, Step(c) PROVE Shape(c)
  BY ReadFailsShape, ListShape, IndexShape, LoadShape, FillShape, LookShape, SkipShape, AttemptShape DEF Step

----------------------------------------------------------------------------
(* The types, the order of the calls and the labels *)

\* What OrderInv and LabelInv say of one request.
CallsInOrder(n) ==
  /\ Ordered(n.todo)
  /\ Has(n.todo, "refresh") => n.r.op = "claim"
  /\ Has(n.todo, "create") => n.r.op = "create"
  /\ Has(n.todo, "list") => n.r.op # "create"
  /\ Has(n.todo, "link") => n.r.parent \in Issues

IndexAhead(n) ==
  /\ ~Has(n.todo, "fill")
  /\ (\E call \in {"remove", "add", "create"} : Has(n.todo, call)) => Has(n.todo, "index") \/ Has(n.todo, "load")

\* A request's own record after its step.
LEMMA OwnOrder ==
  ASSUME Base, NEW c \in Clients, Shape(c)
  PROVE  /\ CallsInOrder(req'[c]) /\ req'[c].ids \subseteq repo
         /\ index' = None => IndexAhead(req'[c])
         /\ req'[c].r # None /\ req'[c].r.op # "create" => req'[c].r.issue \in Issues
<1>. DEFINE n == req'[c]
            q == req[c]
<1>1. /\ Busy(c) /\ q.todo # <<>> /\ (index' = None => index = None)
      /\ Failed(n) \/ Planned(n, q) \/ Builds(n, q) \/ Stays(n, q) \/ GoesOn(n, q)
  BY DEF Shape
<1>2. /\ q.r \in Request /\ q.todo \in Seq(Calls) /\ Ordered(q.todo)
      /\ Head(q.todo) = "fill" => index # None
  BY <1>1, CallerHas
<1>3. CallsInOrder(q) /\ (index = None => IndexAhead(q))
  BY DEF Base, OrderInv, LabelInv, CallsInOrder, IndexAhead
<1>4. q.r # None /\ (q.r.op # "create" => q.r.issue \in Issues)
  BY <1>1 DEF Base, TypeInv, Busy
<1>5. Has(q.todo, Head(q.todo))
  BY <1>1, <1>2, OrderedHead
<1>6. CASE n.todo = <<>> /\ n.ids = {} /\ n.r = None
  BY <1>6, NothingLeft DEF CallsInOrder, IndexAhead
<1>7. CASE Planned(n, q)
  <2>1. n.r = q.r /\ q.r.op # "create" /\ n.todo = Plan(q.r, n.seen) /\ n.ids = {}
    BY <1>3, <1>5, <1>7 DEF Planned, CallsInOrder
  <2>2. CallsInOrder(n) /\ IndexAhead(n)
    <3>1. LET todo == Plan(q.r, n.seen)
          IN  /\ Ordered(todo) /\ ~Has(todo, "list") /\ ~Has(todo, "create") /\ ~Has(todo, "fill")
              /\ Has(todo, "refresh") => q.r.op = "claim"
              /\ Has(todo, "link") => q.r.parent \in Issues
              /\ Has(todo, "remove") \/ Has(todo, "add") => Has(todo, "index")
      BY <1>2, <2>1, PlanOrdered
    <3>. QED BY <2>1, <3>1 DEF CallsInOrder, IndexAhead
  <2>. QED BY <1>4, <2>1, <2>2
<1>8. CASE Builds(n, q)
  <2>1. PICK new \in {"load", "fill"} :
          /\ n.todo = <<new>> \o Tail(q.todo) /\ Head(q.todo) \in {"index", "load"}
          /\ n.r = q.r /\ n.ids \subseteq repo /\ (new = "fill" => index' = {})
    BY <1>8 DEF Builds
  <2>2. /\ Ordered(n.todo) /\ Has(n.todo, new)
        /\ \A call : call \notin {"index", "load", "fill"} => (Has(n.todo, call) <=> Has(q.todo, call))
    BY <1>1, <1>2, <2>1, OrderedReplace
  <2>3. CallsInOrder(n)
    BY <1>3, <2>1, <2>2 DEF CallsInOrder
  <2>4. index' = None => new = "load"
    BY <2>1, NoneAssumption
  <2>5. new = "load" => ~Has(n.todo, "fill")
    <3>. SUFFICES ASSUME new = "load", Has(n.todo, "fill") PROVE FALSE
      OBVIOUS
    <3>1. PICK j \in 1..Len(n.todo), k \in 1..Len(n.todo) : n.todo[j] = "load" /\ n.todo[k] = "fill"
      BY <2>2 DEF Has
    <3>2. k = j
      BY <2>2, <3>1 DEF Ordered
    <3>. QED BY <3>1, <3>2
  <2>. QED BY <1>4, <2>1, <2>2, <2>3, <2>4, <2>5 DEF IndexAhead
<1>9. CASE Stays(n, q)
  <2>1. n.r = q.r /\ n.todo = q.todo /\ n.ids \subseteq repo
    BY <1>9 DEF Stays
  <2>. QED BY <1>1, <1>3, <1>4, <2>1 DEF CallsInOrder, IndexAhead
<1>10. CASE GoesOn(n, q) /\ n.todo # <<>>
  <2>1. PICK r \in Request :
          /\ r.op = q.r.op /\ r.parent = q.r.parent /\ (Head(q.todo) # "create" => r = q.r)
          /\ MovesTo(n, q, r, Tail(q.todo))
    BY <1>10 DEF GoesOn
  <2>2. Tail(q.todo) # <<>> /\ n.r = r /\ n.todo = Tail(q.todo) /\ n.ids = {}
    BY <1>10, <2>1 DEF MovesTo, Over
  <2>3. Ordered(n.todo) /\ (\A call : Has(n.todo, call) => Has(q.todo, call))
        /\ \A call : Has(q.todo, call) => (Has(n.todo, call) \/ Head(q.todo) = call)
    BY <1>1, <1>2, <2>2, OrderedTail
  <2>4. CallsInOrder(n)
    BY <1>3, <2>1, <2>2, <2>3 DEF CallsInOrder
  <2>5. index' = None => Head(q.todo) # "index" /\ Head(q.todo) # "load"
    BY <1>1, <1>10 DEF GoesOn
  <2>6. index' = None => IndexAhead(n)
    BY <1>1, <1>3, <2>3, <2>5 DEF IndexAhead
  <2>7. r.op # "create" => r = q.r
    BY <1>3, <1>5, <2>1 DEF CallsInOrder
  <2>. QED BY <1>4, <2>2, <2>4, <2>6, <2>7
<1>11. Failed(n) => n.todo = <<>> /\ n.ids = {} /\ n.r = None
  BY DEF Failed, Over
<1>12. GoesOn(n, q) /\ n.todo = <<>> => n.ids = {} /\ n.r = None
  BY DEF GoesOn, MovesTo, Over
<1>. QED BY <1>1, <1>6, <1>7, <1>8, <1>9, <1>10, <1>11, <1>12

\* At the start there are no requests.
LEMMA BaseInit == Init => Base
<1>. SUFFICES ASSUME Init PROVE Base
  OBVIOUS
<1>1. /\ repo = Repo /\ issues = Start /\ index = None /\ req = [c \in Clients |-> Idle]
  BY DEF Init
<1>2. Idle \in Progress /\ Idle.todo = <<>> /\ Idle.r = None /\ Idle.ids = {}
  BY IdleType DEF Over
<1>3. \A c \in Clients : req[c] = Idle
  BY <1>1
<1>4. TypeInv
  <2>1. repo \subseteq Label /\ issues \in [Issues -> Issue]
    BY <1>1, RequestsAssumption
  <2>2. req \in [Clients -> Progress]
    BY <1>1, <1>2
  <2>. QED BY <1>1, <1>2, <1>3, <2>1, <2>2 DEF TypeInv, Busy
<1>5. OrderInv
  BY <1>2, <1>3, NothingLeft DEF OrderInv
<1>6. LabelInv
  BY <1>1, <1>2, <1>3, NothingLeft, RequestsAssumption DEF LabelInv
<1>. QED BY <1>4, <1>5, <1>6 DEF Base

\* A step of a client keeps them.
LEMMA BaseMoves == ASSUME Base, NEW c \in Clients, Shape(c) PROVE Base'
<1>1. /\ req' \in [Clients -> Progress] /\ repo' = repo
      /\ issues' \in [Issues -> Issue] /\ \A i \in Issues : issues'[i].labels \subseteq repo
      /\ index' = None => index = None
      /\ index' # None => index' \subseteq repo
  BY DEF Shape
<1>2. \A d \in Clients \ {c} : /\ req'[d].r = req[d].r /\ req'[d].todo = req[d].todo
                               /\ req'[d].ids = req[d].ids
  BY DEF Shape, Waits
<1>3. /\ CallsInOrder(req'[c]) /\ req'[c].ids \subseteq repo
      /\ index' = None => IndexAhead(req'[c])
      /\ req'[c].r # None /\ req'[c].r.op # "create" => req'[c].r.issue \in Issues
  BY OwnOrder
<1>4. TypeInv'
  <2>1. \A d \in Clients : req'[d].r # None /\ req'[d].r.op # "create" => req'[d].r.issue \in Issues
    BY <1>2, <1>3 DEF Base, TypeInv, Busy
  <2>. QED BY <1>1, <2>1 DEF Base, TypeInv, Busy
<1>5. OrderInv'
  BY <1>2, <1>3 DEF Base, OrderInv, CallsInOrder
<1>6. LabelInv'
  <2>1. \A d \in Clients : req'[d].ids \subseteq repo
    BY <1>2, <1>3 DEF Base, LabelInv
  <2>2. index' = None => \A d \in Clients : IndexAhead(req'[d])
    BY <1>1, <1>2, <1>3 DEF Base, LabelInv, IndexAhead
  <2>. QED BY <1>1, <2>1, <2>2 DEF Base, LabelInv, IndexAhead
<1>. QED BY <1>4, <1>5, <1>6 DEF Base

\* A request begins with the listing, or with what creates its issue.
LEMMA BeginIs ==
  ASSUME Base, NEW c \in Clients, NEW r \in Requests, Begin(c, r)
  PROVE  /\ UNCHANGED <<repo, issues, index, taken>>
         /\ req' \in [Clients -> Progress] /\ \A d \in Clients \ {c} : req'[d] = req[d]
         /\ LET n == req'[c]
            IN  /\ n.r = r /\ n.ids = {} /\ n.tries = 0 /\ ~n.late
                /\ CallsInOrder(n) /\ IndexAhead(n) /\ (r.op # "create" => Has(n.todo, "list"))
                /\ Has(n.todo, "link") => Has(n.todo, "find") /\ Has(n.todo, "check")
                /\ n.clean /\ Target(r) # None => StageToLabel(Target(r)) \in repo
<1>. DEFINE first == IF r.parent = None THEN <<>> ELSE <<"find", "check">>
            last == IF r.parent = None THEN <<>> ELSE <<"link">>
            created == <<"index">> \o first \o <<"create">> \o last
            todo == IF r.op = "create" THEN created ELSE <<"list">>
            clean == Target(r) # None => StageToLabel(Target(r)) \in repo
            n == [Idle EXCEPT !.r = r, !.todo = todo, !.clean = clean]
<1>1. req' = [req EXCEPT ![c] = n] /\ UNCHANGED <<repo, issues, index, taken>>
  BY DEF Begin
<1>2. /\ created \in Seq(Calls) /\ Ordered(created) /\ Has(created, "index")
      /\ \A call : Has(created, call) => call \in {"index", "find", "check", "create", "link"}
      /\ Has(created, "link") => r.parent # None /\ Has(created, "find") /\ Has(created, "check")
  <2>1. /\ first \in {<<>>, <<"find", "check">>} /\ last \in {<<>>, <<"link">>}
        /\ last # <<>> => r.parent # None /\ first # <<>>
    OBVIOUS
  <2>. HIDE DEF first, last
  <2>. QED BY <2>1, CreateOrdered
<1>3. <<"list">> \in Seq(Calls) /\ Ordered(<<"list">>) /\ Has(<<"list">>, "list")
      /\ \A call : Has(<<"list">>, call) => call = "list"
  <2>1. "list" \in Calls \ {"remove", "add"}
    BY DEF Calls
  <2>. QED BY <2>1, Pieces
<1>4. r \in Request /\ (r.op = "create" => r.parent # Clear) /\ r.parent \in Issues \cup {None, Clear}
  BY RequestsAssumption DEF Request
<1>. HIDE DEF created
<1>5. todo \in Seq(Calls)
  BY <1>2, <1>3
<1>6. clean \in BOOLEAN
  OBVIOUS
<1>7. clean /\ Target(r) # None => StageToLabel(Target(r)) \in repo
  OBVIOUS
<1>. HIDE DEF todo, clean
<1>8. n \in Progress /\ n.r = r /\ n.todo = todo /\ n.ids = {} /\ n.tries = 0 /\ n.late = FALSE /\ n.clean = clean
  BY <1>4, <1>5, <1>6, IdleType DEF Idle, Progress
<1>. HIDE DEF n
<1>9. req' \in [Clients -> Progress] /\ req'[c] = n /\ \A d \in Clients \ {c} : req'[d] = req[d]
  BY <1>1, <1>8 DEF Base, TypeInv
<1>10. CallsInOrder(n) /\ IndexAhead(n)
  BY <1>2, <1>3, <1>4, <1>8 DEF CallsInOrder, IndexAhead, todo
<1>11. /\ r.op # "create" => Has(n.todo, "list")
       /\ Has(n.todo, "link") => Has(n.todo, "find") /\ Has(n.todo, "check")
  BY <1>2, <1>3, <1>8 DEF todo
<1>. QED BY <1>1, <1>7, <1>8, <1>9, <1>10, <1>11

\* The users' edits.
LEMMA UsersIs ==
  ASSUME Base, UserEdits
  PROVE  /\ req' \in [Clients -> Progress]
         /\ \A d \in Clients :
              /\ Waits(req'[d], req[d])
              /\ Busy(d) /\ req'[d].clean => Relied(issues', req[d].r) = Relied(issues, req[d].r)
              /\ Busy(d) /\ req'[d].clean /\ req[d].r.issue # None
                   => issues'[req[d].r.issue] = issues[req[d].r.issue]
         /\ issues' \in [Issues -> Issue] /\ \A k \in Issues : issues'[k].labels \subseteq repo'
         /\ repo \subseteq repo' /\ repo' \subseteq Repo \cup Loose /\ index' = index
         /\ taken' = taken \ Untaken
<1>1. Observed(req, None) /\ index' = index /\ taken' = taken \ Untaken
  BY DEF UserEdits
<1>2. /\ req \in [Clients -> Progress] /\ repo \subseteq Repo \cup Loose /\ repo \subseteq Label
      /\ issues \in [Issues -> Issue] /\ \A k \in Issues : issues[k].labels \subseteq repo
  BY DEF Base, TypeInv, LabelInv
<1>3. /\ req' \in [Clients -> Progress]
      /\ \A d \in Clients :
           /\ Waits(req'[d], req[d])
           /\ d # None /\ Busy(d) /\ req'[d].clean => Relied(issues', req[d].r) = Relied(issues, req[d].r)
           /\ d # None /\ Busy(d) /\ req'[d].clean /\ req[d].r.issue # None
                => issues'[req[d].r.issue] = issues[req[d].r.issue]
  BY <1>1, <1>2, ObservedIs DEF Busy
<1>4. \A d \in Clients : d # None
  BY NoneAssumption
<1>5. PICK i \in Issues :
        \/ \E l \in repo \cup Loose :
             /\ issues' = [issues EXCEPT ![i].labels = @ \cup {l}]
             /\ repo' = repo \cup {l}
        \/ \E l \in issues[i].labels :
             issues' = [issues EXCEPT ![i].labels = @ \ {l}] /\ UNCHANGED repo
        \/ issues' = [issues EXCEPT ![i].assigned = ~@] /\ UNCHANGED repo
        \/ issues' = [issues EXCEPT ![i].state = IF @ = "open" THEN "completed" ELSE "open"]
           /\ UNCHANGED repo
  BY DEF UserEdits
<1>. DEFINE Edited(m) == issues' = [issues EXCEPT ![i] = m] /\ m \in Issue /\ m.labels \subseteq repo'
            Grown == repo \subseteq repo' /\ repo' \subseteq Repo \cup Loose
<1>6. Grown /\ \E m : Edited(m)
  <2>1. ASSUME NEW l \in repo \cup Loose, issues' = [issues EXCEPT ![i].labels = @ \cup {l}], repo' = repo \cup {l}
        PROVE  Grown /\ \E m : Edited(m)
    <3>. DEFINE m == [issues[i] EXCEPT !.labels = @ \cup {l}]
    <3>1. issues' = [issues EXCEPT ![i] = m]
      BY <1>2, <2>1
    <3>2. l \in Label
      BY <1>2, RequestsAssumption
    <3>3. m \in Issue /\ m.labels \subseteq repo'
      BY <1>2, <2>1, <3>2 DEF Issue
    <3>. HIDE DEF m
    <3>4. Edited(m)
      BY <3>1, <3>3
    <3>. QED BY <1>2, <2>1, <3>4
  <2>2. ASSUME NEW l \in issues[i].labels, issues' = [issues EXCEPT ![i].labels = @ \ {l}], UNCHANGED repo
        PROVE  Grown /\ \E m : Edited(m)
    <3>. DEFINE m == [issues[i] EXCEPT !.labels = @ \ {l}]
    <3>1. issues' = [issues EXCEPT ![i] = m]
      BY <1>2, <2>2
    <3>2. m \in Issue /\ m.labels \subseteq repo'
      BY <1>2, <2>2 DEF Issue
    <3>. HIDE DEF m
    <3>3. Edited(m)
      BY <3>1, <3>2
    <3>. QED BY <1>2, <2>2, <3>3
  <2>3. ASSUME issues' = [issues EXCEPT ![i].assigned = ~@], UNCHANGED repo
        PROVE  Grown /\ \E m : Edited(m)
    <3>. DEFINE other == ~issues[i].assigned
                m == [issues[i] EXCEPT !.assigned = other]
    <3>1. issues' = [issues EXCEPT ![i] = m]
      BY <1>2, <2>3
    <3>2. other \in BOOLEAN
      OBVIOUS
    <3>. HIDE DEF other
    <3>3. m \in Issue /\ m.labels \subseteq repo'
      BY <1>2, <2>3, <3>2 DEF Issue
    <3>. HIDE DEF m
    <3>4. Edited(m)
      BY <3>1, <3>3
    <3>. QED BY <1>2, <2>3, <3>4
  <2>4. ASSUME issues' = [issues EXCEPT ![i].state = IF @ = "open" THEN "completed" ELSE "open"], UNCHANGED repo
        PROVE  Grown /\ \E m : Edited(m)
    <3>. DEFINE m == [issues[i] EXCEPT !.state = IF @ = "open" THEN "completed" ELSE "open"]
    <3>1. issues' = [issues EXCEPT ![i] = m]
      BY <1>2, <2>4
    <3>2. m \in Issue /\ m.labels \subseteq repo'
      BY <1>2, <2>4 DEF Issue, Closed
    <3>. HIDE DEF m
    <3>3. Edited(m)
      BY <3>1, <3>2
    <3>. QED BY <1>2, <2>4, <3>3
  <2>. QED BY <1>5, <2>1, <2>2, <2>3, <2>4
<1>7. issues' \in [Issues -> Issue] /\ \A k \in Issues : issues'[k].labels \subseteq repo'
  BY <1>2, <1>6
<1>. QED BY <1>1, <1>3, <1>4, <1>6, <1>7

\* The types, the order and the labels are kept by every step.
LEMMA BaseStep == Base /\ [Next]_vars => Base'
<1>. SUFFICES ASSUME Base, [Next]_vars PROVE Base'
  OBVIOUS
<1>1. ASSUME NEW c \in Clients, Step(c) PROVE Base'
  BY <1>1, StepShape, BaseMoves
<1>2. ASSUME NEW c \in Clients, NEW r \in Requests, Begin(c, r) PROVE Base'
  <2>1. /\ UNCHANGED <<repo, issues, index>>
        /\ req' \in [Clients -> Progress] /\ \A d \in Clients \ {c} : req'[d] = req[d]
        /\ req'[c].r = r /\ req'[c].ids = {} /\ CallsInOrder(req'[c]) /\ IndexAhead(req'[c])
    BY <1>2, BeginIs
  <2>2. r.op # "create" => r.issue \in Issues
    BY RequestsAssumption
  <2>3. TypeInv'
    BY <2>1, <2>2 DEF Base, TypeInv, Busy
  <2>4. OrderInv'
    BY <2>1 DEF Base, OrderInv, CallsInOrder
  <2>5. LabelInv'
    BY <2>1 DEF Base, LabelInv, IndexAhead
  <2>. QED BY <2>3, <2>4, <2>5 DEF Base
<1>3. CASE UserEdits
  <2>1. /\ req' \in [Clients -> Progress]
        /\ \A d \in Clients : req'[d].r = req[d].r /\ req'[d].todo = req[d].todo /\ req'[d].ids = req[d].ids
        /\ issues' \in [Issues -> Issue] /\ \A k \in Issues : issues'[k].labels \subseteq repo'
        /\ repo \subseteq repo' /\ repo' \subseteq Repo \cup Loose /\ index' = index
    BY <1>3, UsersIs DEF Waits
  <2>2. TypeInv'
    BY <2>1, RequestsAssumption DEF Base, TypeInv, Busy
  <2>3. OrderInv'
    BY <2>1 DEF Base, OrderInv
  <2>4. LabelInv'
    BY <2>1 DEF Base, LabelInv
  <2>. QED BY <2>2, <2>3, <2>4 DEF Base
<1>4. CASE UNCHANGED vars
  BY <1>4 DEF vars, Base, TypeInv, OrderInv, LabelInv, Busy
<1>. QED BY <1>1, <1>2, <1>3, <1>4 DEF Next

----------------------------------------------------------------------------
(* The labels of a stage change *)

\* The stage a request of a stage change asks for is one of the known ones.
LEMMA TargetIsStage ==
  ASSUME NEW r \in Request, Staged(r)
  PROVE  Target(r) \in StageNames /\ (r.op = "claim" => Target(r) = "working") /\ r.op # "create"
<1>1. "working" \in StageNames
  <2>1. Len(stagePrecedence) = 10 /\ stagePrecedence[1] = "working"
    BY DEF stagePrecedence
  <2>. QED BY <2>1 DEF StageNames, ToSet
<1>. QED BY <1>1 DEF Target, Staged, Request

\* Who writes: a step that changes an issue is an attempt, and the calls whose
\* failure is ignored are made or skipped.
LEMMA WhoWrites ==
  ASSUME NEW c \in Clients, Step(c)
  PROVE  /\ Attempt(c) \/ UNCHANGED issues
         /\ Head(req[c].todo) \in Ignored => Attempt(c) \/ SkipLabels(c)
<1>1. ReadFails(c) \/ List(c) \/ CheckIndex(c) \/ LoadIndex(c) \/ FillIndex(c)
        \/ Find(c) \/ Check(c) \/ Refresh(c) => UNCHANGED issues /\ Head(req[c].todo) \notin Ignored
  BY DEF ReadFails, List, CheckIndex, LoadIndex, FillIndex, Find, Check, Refresh, At, Ignored
<1>2. SkipLabels(c) => UNCHANGED issues
  BY DEF SkipLabels
<1>. QED BY <1>1, <1>2 DEF Step

\* The ids that are sent, or need not be, are those the swap asks for, and the
\* labels are what they were but for these ids.
LEMMA Sent ==
  ASSUME Base, SwapInv, NEW c \in Clients, Busy(c), req[c].todo # <<>>,
         Staged(req[c].r), req[c].clean, Head(req[c].todo) \in Ignored, NEW ids,
         IF req[c].tries # 0 THEN ids = req[c].ids ELSE ids = LabelIds(c, Head(req[c].todo)) /\ index = repo
  PROVE  LET q == req[c]
             old == q.seen.labels
             s == Target(q.r)
             labels == issues[q.r.issue].labels
         IN  IF Head(q.todo) = "remove"
             THEN ids = SwapRemove(old, s) /\ labels \ ids = old \ ids
             ELSE ids = SwapAdd(old, s) /\ labels \cup ids = (old \ SwapRemove(old, s)) \cup ids
<1>. DEFINE q == req[c]
            old == q.seen.labels
            s == Target(q.r)
            labels == issues[q.r.issue].labels
<1>1. q.r \in Request /\ q.todo \in Seq(Calls) /\ Ordered(q.todo) /\ Head(q.todo) \in {"remove", "add"}
  BY CallerHas DEF Ignored
<1>2. ~Has(q.todo, "list")
  BY <1>1, OrderedHead
<1>3. /\ StageToLabel(s) \in repo
      /\ IF Repeating(q) THEN Repeated(q, labels) ELSE Between(q, q.todo, labels)
  BY <1>2 DEF SwapInv
<1>4. q.r.issue \in Issues
  BY <1>1, TargetIsStage DEF Base, TypeInv
<1>5. CASE q.tries # 0
  <2>1. Repeated(q, labels)
    BY <1>3, <1>5 DEF Repeating
  <2>. QED BY <1>5, <2>1 DEF Repeated
<1>6. CASE q.tries = 0
  <2>1. Between(q, q.todo, labels)
    BY <1>3, <1>6 DEF Repeating
  <2>2. /\ index = repo /\ labels \subseteq repo
        /\ ids = (IF Head(q.todo) = "remove" THEN SwapRemove(old, s) ELSE SwapAdd(old, s)) \cap repo
    BY <1>4, <1>6 DEF LabelIds, Base, LabelInv
  <2>3. CASE Head(q.todo) = "remove"
    <3>1. labels = old
      BY <1>1, <2>1, <2>3, OrderedHead DEF Between
    <3>2. SwapRemove(old, s) \subseteq old
      BY DEF SwapRemove
    <3>. QED BY <2>2, <2>3, <3>1, <3>2
  <2>4. CASE Head(q.todo) = "add"
    <3>1. ~Has(q.todo, "remove") /\ Has(q.todo, "add")
      BY <1>1, <2>4, OrderedHead, OrderedTail
    <3>2. labels = old \ SwapRemove(old, s)
      BY <2>1, <3>1 DEF Between
    <3>3. SwapAdd(old, s) \subseteq repo
      BY <1>3 DEF SwapAdd
    <3>. QED BY <2>2, <2>4, <3>2, <3>3
  <2>. QED BY <1>1, <2>3, <2>4
<1>. QED BY <1>5, <1>6

\* A call is not both made and still to be made.
LEMMA NotBoth ==
  ASSUME NEW n, NEW q, q.todo \in Seq(Calls), q.todo # <<>>, q.r # None, GoesOn(n, q)
  PROVE  ~Stays(n, q)
<1>1. n.r = q.r /\ n.todo = q.todo => n.todo = Tail(q.todo)
  BY DEF GoesOn, MovesTo, Over
<1>. DEFINE rest == Tail(q.todo)
            n0 == Len(rest)
            n1 == Len(q.todo)
<1>2. n0 = n1 - 1 /\ n1 \in Nat
  BY TailElements
<1>3. rest = q.todo => n0 = n1
  OBVIOUS
<1>. HIDE DEF n0, n1, rest
<1>4. rest # q.todo
  BY <1>2, <1>3
<1>. QED BY <1>1, <1>4 DEF Stays, rest

\* Only the swap's two calls and the creation of an issue write labels.
LEMMA LabelsStay ==
  ASSUME Base, NEW c \in Clients, Step(c), Staged(req[c].r), Head(req[c].todo) \notin Ignored, ~Failed(req'[c]),
         req'[c].clean
  PROVE  issues'[req[c].r.issue].labels = issues[req[c].r.issue].labels
<1>1. Busy(c) /\ req[c].todo # <<>>
  BY StepShape DEF Shape
<1>2. req[c].r \in Request /\ req[c].todo \in Seq(Calls) /\ Ordered(req[c].todo)
  BY <1>1, CallerHas
<1>3. req[c].r.op # "create" /\ req[c].r.issue \in Issues
  BY <1>1, <1>2, TargetIsStage DEF Base, TypeInv
<1>4. Head(req[c].todo) # "create"
  <2>1. Has(req[c].todo, Head(req[c].todo))
    BY <1>1, <1>2, OrderedHead
  <2>. QED BY <1>3, <2>1 DEF Base, OrderInv
<1>5. CASE Attempt(c)
  <2>1. Effect(c)
    BY <1>5, AttemptShape
  <2>. QED BY <1>3, <1>4, <2>1 DEF Effect, Relabelled, Ignored
<1>6. CASE UNCHANGED issues
  BY <1>6
<1>. QED BY <1>5, <1>6, WhoWrites

\* A call of a stage change that is made leaves the labels that the calls after
\* it count on.
LEMMA Landed ==
  ASSUME Base, SwapInv, NEW c \in Clients, Step(c), Staged(req[c].r),
         GoesOn(req'[c], req[c]), req'[c].clean, ~Failed(req'[c])
  PROVE  Between(req[c], Tail(req[c].todo), issues'[req[c].r.issue].labels)
<1>. DEFINE n == req'[c]
            q == req[c]
            old == q.seen.labels
            s == Target(q.r)
            labels == issues[q.r.issue].labels
            now == issues'[q.r.issue].labels
<1>1. Busy(c) /\ q.todo # <<>>
  BY StepShape DEF Shape
<1>2. q.r \in Request /\ q.todo \in Seq(Calls) /\ Ordered(q.todo) /\ Tail(q.todo) \in Seq(Calls)
  BY <1>1, CallerHas
<1>3. s \in StageNames /\ q.r.op # "create"
  BY <1>2, TargetIsStage
<1>4. q.r.issue \in Issues
  BY <1>1, <1>3 DEF Base, TypeInv
<1>5. Head(q.todo) \notin {"list", "create"} /\ ~Has(q.todo, "list")
  <2>1. Has(q.todo, Head(q.todo)) /\ (Has(q.todo, "list") => Head(q.todo) = "list")
    BY <1>1, <1>2, OrderedHead
  <2>2. Has(q.todo, "create") => q.r.op = "create"
    BY DEF Base, OrderInv
  <2>. QED BY <1>3, <2>1, <2>2 DEF GoesOn
<1>6. q.clean
  BY DEF GoesOn, MovesTo
<1>7. ~Stays(n, q)
  BY <1>1, <1>2, NotBoth DEF Busy
<1>8. ASSUME Attempt(c)
      PROVE  \E done \in BOOLEAN, ids \in SUBSET repo :
               /\ done /\ Relabelled(q.r.issue, Head(q.todo), ids, done)
               /\ Head(q.todo) \in Ignored =>
                    IF q.tries # 0 THEN ids = q.ids ELSE ids = LabelIds(c, Head(q.todo)) /\ index = repo
  <2>1. Effect(c)
    BY <1>8, AttemptShape
  <2>. QED BY <1>4, <1>7, <2>1 DEF Effect
<1>9. CASE Head(q.todo) \notin Ignored
  <2>1. now = labels
    BY <1>9, LabelsStay
  <2>2. Between(q, q.todo, labels)
    BY <1>1, <1>5, <1>6, <1>9 DEF SwapInv, Repeating
  <2>3. (Has(Tail(q.todo), "remove") <=> Has(q.todo, "remove")) /\ (Has(Tail(q.todo), "add") <=> Has(q.todo, "add"))
    BY <1>1, <1>2, <1>9, OrderedTail DEF Ignored
  <2>. QED BY <2>1, <2>2, <2>3 DEF Between
<1>10. CASE Head(q.todo) \in Ignored
  <2>1. \E ids : /\ IF q.tries # 0 THEN ids = q.ids ELSE ids = LabelIds(c, Head(q.todo)) /\ index = repo
                 /\ now = IF Head(q.todo) = "remove" THEN labels \ ids ELSE labels \cup ids
    <3>1. CASE Attempt(c)
      BY <1>8, <1>10, <3>1 DEF Relabelled, Ignored
    <3>2. CASE SkipLabels(c)
      <4>. DEFINE marked == [req EXCEPT ![c].clean = @ /\ index = repo]
      <4>1. q.tries = 0 /\ LabelIds(c, Head(q.todo)) = {} /\ UNCHANGED issues /\ req' = GoOn(marked, c, Tail(q.todo))
        BY <3>2 DEF SkipLabels
      <4>2. marked \in [Clients -> Progress] /\ (marked[c].clean => index = repo)
        BY Marked
      <4>. HIDE DEF marked
      <4>3. MovesTo(GoOn(marked, c, Tail(q.todo))[c], marked[c], marked[c].r, Tail(q.todo))
        BY <1>2, <4>2, GoOnIs
      <4>4. n.clean => marked[c].clean
        BY <4>1, <4>3 DEF MovesTo
      <4>5. index = repo
        BY <4>2, <4>4
      <4>. QED BY <4>1, <4>5
    <3>. QED BY <1>10, <3>1, <3>2, WhoWrites
  <2>2. PICK ids : /\ IF q.tries # 0 THEN ids = q.ids ELSE ids = LabelIds(c, Head(q.todo)) /\ index = repo
                   /\ now = IF Head(q.todo) = "remove" THEN labels \ ids ELSE labels \cup ids
    BY <2>1
  <2>3. IF Head(q.todo) = "remove"
        THEN ids = SwapRemove(old, s) /\ labels \ ids = old \ ids
        ELSE ids = SwapAdd(old, s) /\ labels \cup ids = (old \ SwapRemove(old, s)) \cup ids
    BY <1>1, <1>6, <1>10, <2>2, Sent
  <2>4. CASE Head(q.todo) = "remove"
    <3>1. ~Has(Tail(q.todo), "remove") /\ Has(Tail(q.todo), "add")
      BY <1>1, <1>2, <2>4, OrderedTail
    <3>2. now = old \ SwapRemove(old, s)
      BY <2>2, <2>3, <2>4
    <3>. QED BY <3>1, <3>2 DEF Between
  <2>5. CASE Head(q.todo) = "add"
    <3>1. ~Has(Tail(q.todo), "remove") /\ ~Has(Tail(q.todo), "add")
      BY <1>1, <1>2, <2>5, OrderedTail
    <3>2. now = (old \ SwapRemove(old, s)) \cup SwapAdd(old, s)
      BY <2>2, <2>3, <2>5
    <3>3. AtStage(now, s)
      BY <1>3, <3>2, SwapLeavesStage
    <3>. QED BY <3>1, <3>3 DEF Between
  <2>. QED BY <1>10, <2>4, <2>5 DEF Ignored
<1>. QED BY <1>9, <1>10

\* What SwapInv says of one request.
SwapHolds(n, is, labels) ==
  n.r # None /\ Staged(n.r) /\ n.clean =>
    /\ StageToLabel(Target(n.r)) \in labels
    /\ ~Has(n.todo, "list") =>
         IF Repeating(n) THEN Repeated(n, is[n.r.issue].labels) ELSE Between(n, n.todo, is[n.r.issue].labels)

\* A request's own record after its step.
LEMMA OwnSwap ==
  ASSUME Base, SwapInv, NEW c \in Clients, Step(c)
  PROVE  SwapHolds(req'[c], issues', repo)
<1>. DEFINE n == req'[c]
            q == req[c]
            labels == issues[q.r.issue].labels
            now == issues'[q.r.issue].labels
<1>. SUFFICES ASSUME n.r # None, Staged(n.r), n.clean
              PROVE  /\ StageToLabel(Target(n.r)) \in repo
                     /\ ~Has(n.todo, "list") =>
                          IF Repeating(n) THEN Repeated(n, issues'[n.r.issue].labels)
                          ELSE Between(n, n.todo, issues'[n.r.issue].labels)
  BY DEF SwapHolds
<1>1. /\ Shape(c) /\ Busy(c) /\ q.todo # <<>>
      /\ Planned(n, q) \/ Builds(n, q) \/ Stays(n, q) \/ GoesOn(n, q)
  BY StepShape DEF Shape, Failed, Over
<1>2. q \in Progress /\ q.r \in Request /\ q.todo \in Seq(Calls) /\ Ordered(q.todo) /\ q.r # None
  BY <1>1, CallerHas DEF Busy
<1>3. ~Failed(n)
  BY DEF Failed, Over
<1>4. n.r = q.r /\ q.clean
  <2>1. CASE GoesOn(n, q)
    <3>1. PICK r \in Request :
            r.op = q.r.op /\ (Head(q.todo) # "create" => r = q.r) /\ MovesTo(n, q, r, Tail(q.todo))
      BY <2>1 DEF GoesOn
    <3>2. n.r = r
      BY <3>1 DEF MovesTo, Over
    <3>3. r.op # "create"
      BY <3>2, TargetIsStage
    <3>4. Has(q.todo, Head(q.todo))
      BY <1>1, <1>2, OrderedHead
    <3>5. Head(q.todo) # "create"
      BY <3>1, <3>3, <3>4 DEF Base, OrderInv
    <3>. QED BY <3>1, <3>2, <3>5 DEF MovesTo
  <2>2. CASE Planned(n, q) \/ Builds(n, q) \/ Stays(n, q)
    BY <2>2 DEF Planned, Builds, Stays
  <2>. QED BY <1>1, <2>1, <2>2
<1>5. Staged(q.r) /\ StageToLabel(Target(q.r)) \in repo
  BY <1>1, <1>4 DEF SwapInv
<1>6. ~Has(q.todo, "list") => IF Repeating(q) THEN Repeated(q, labels) ELSE Between(q, q.todo, labels)
  BY <1>1, <1>4, <1>5 DEF SwapInv
<1>7. Head(q.todo) \notin Ignored => now = labels
  BY <1>3, <1>5, LabelsStay
<1>8. Has(q.todo, "list") => Head(q.todo) = "list"
  BY <1>1, <1>2, OrderedHead
<1>9. CASE Planned(n, q)
  <2>1. /\ Head(q.todo) = "list" /\ n.todo = Plan(q.r, n.seen) /\ n.seen = issues[q.r.issue] /\ n.tries = 0
    BY <1>9 DEF Planned
  <2>2. now = n.seen.labels
    BY <1>7, <2>1 DEF Ignored
  <2>3. Has(n.todo, "remove")
    BY <1>2, <1>5, <2>1, PlanOrdered, TargetIsStage
  <2>4. Between(n, n.todo, now)
    BY <2>2, <2>3 DEF Between
  <2>. QED BY <1>4, <1>5, <2>1, <2>4 DEF Repeating
<1>10. CASE Builds(n, q)
  <2>1. PICK new \in {"load", "fill"} :
          /\ n.todo = <<new>> \o Tail(q.todo) /\ Head(q.todo) \in {"index", "load"} /\ n.seen = q.seen
    BY <1>10 DEF Builds
  <2>2. /\ Head(n.todo) = new
        /\ \A call : call \notin {"index", "load", "fill"} => (Has(n.todo, call) <=> Has(q.todo, call))
    BY <1>1, <1>2, <2>1, OrderedReplace
  <2>3. ~Repeating(n) /\ ~Repeating(q) /\ now = labels
    BY <1>7, <2>1, <2>2 DEF Repeating, Ignored
  <2>4. Between(q, q.todo, labels)
    BY <1>6, <1>8, <2>1, <2>3
  <2>5. Between(n, n.todo, now)
    BY <1>4, <2>1, <2>2, <2>3, <2>4 DEF Between
  <2>. QED BY <1>4, <1>5, <2>3, <2>5
<1>11. CASE Stays(n, q)
  <2>1. n.todo = q.todo /\ n.seen = q.seen /\ Head(q.todo) \in {"fill"} \cup Writes
    BY <1>11 DEF Stays
  <2>2. CASE Head(q.todo) \notin Ignored
    <3>1. ~Repeating(n) /\ ~Repeating(q) /\ now = labels
      BY <1>7, <2>1, <2>2 DEF Repeating
    <3>2. Head(q.todo) # "list"
      BY <2>1 DEF Writes
    <3>3. Between(q, q.todo, labels)
      BY <1>6, <1>8, <3>1, <3>2
    <3>4. Between(n, n.todo, now)
      BY <1>4, <2>1, <3>1, <3>3 DEF Between
    <3>. QED BY <1>4, <1>5, <3>1, <3>4
  <2>3. CASE Head(q.todo) \in Ignored
    <3>1. ~GoesOn(n, q)
      BY <1>1, <1>2, <1>11, NotBoth
    <3>2. Attempt(c)
      <4>1. ASSUME SkipLabels(c) PROVE Failed(n) \/ GoesOn(n, q)
        <5>. DEFINE marked == [req EXCEPT ![c].clean = @ /\ index = repo]
        <5>1. req' = GoOn(marked, c, Tail(q.todo))
          BY <4>1 DEF SkipLabels
        <5>2. marked \in [Clients -> Progress] /\ Waits(marked[c], q) /\ \A d \in Clients \ {c} : marked[d] = req[d]
          BY Marked
        <5>. HIDE DEF marked
        <5>3. Head(q.todo) \notin {"list", "load", "index"}
          BY <2>3 DEF Ignored
        <5>. QED BY <1>1, <5>1, <5>2, <5>3, MadeOrFailed
      <4>. QED BY <1>3, <2>3, <3>1, <4>1, WhoWrites
    <3>3. q.r.issue \in Issues
      BY <1>1, <1>2, <1>5, TargetIsStage DEF Base, TypeInv
    <3>4. PICK done \in BOOLEAN, ids \in SUBSET repo :
            /\ Relabelled(q.r.issue, Head(q.todo), ids, done)
            /\ IF q.tries # 0 THEN ids = q.ids ELSE ids = LabelIds(c, Head(q.todo)) /\ index = repo
            /\ n.tries # 0 /\ n.ids = ids
      BY <1>3, <2>3, <3>1, <3>2, <3>3, AttemptShape DEF Effect
    <3>5. LET old == q.seen.labels
              s == Target(q.r)
          IN  IF Head(q.todo) = "remove"
              THEN ids = SwapRemove(old, s) /\ labels \ ids = old \ ids
              ELSE ids = SwapAdd(old, s) /\ labels \cup ids = (old \ SwapRemove(old, s)) \cup ids
      BY <1>1, <1>4, <1>5, <2>3, <3>4, Sent
    <3>6. now \ ids = labels \ ids \/ Head(q.todo) # "remove"
      BY <3>4 DEF Relabelled
    <3>7. now \cup ids = labels \cup ids \/ Head(q.todo) # "add"
      BY <3>4 DEF Relabelled
    <3>8. Head(q.todo) \in {"remove", "add"}
      BY <2>3 DEF Ignored
    <3>9. Repeated(n, now)
      BY <1>4, <2>1, <3>4, <3>5, <3>6, <3>7, <3>8 DEF Repeated
    <3>10. Repeating(n)
      BY <1>1, <2>1, <2>3, <3>4 DEF Repeating
    <3>. QED BY <1>4, <1>5, <3>9, <3>10
  <2>. QED BY <2>2, <2>3
<1>12. CASE GoesOn(n, q)
  <2>1. Between(q, Tail(q.todo), now)
    BY <1>3, <1>5, <1>12, Landed
  <2>2. n.todo = Tail(q.todo) /\ n.seen = q.seen /\ n.tries = 0
    BY <1>12 DEF GoesOn, MovesTo, Over
  <2>3. ~Repeating(n)
    BY <2>2 DEF Repeating
  <2>4. Between(n, n.todo, now)
    BY <1>4, <2>1, <2>2 DEF Between
  <2>. QED BY <1>4, <1>5, <2>3, <2>4
<1>. QED BY <1>1, <1>9, <1>10, <1>11, <1>12

\* At the start no stage is being changed.
LEMMA SwapInit == Init => SwapInv
<1>1. Idle.r = None
  BY DEF Idle
<1>. QED BY <1>1 DEF Init, SwapInv, Busy

\* Whoever waits keeps what it counts on, or loses its clean mark.
LEMMA WaitingSwap ==
  ASSUME Base, SwapInv, NEW d \in Clients, Waits(req'[d], req[d]), repo \subseteq repo',
         Busy(d) /\ req'[d].clean /\ req[d].r.issue # None
           => issues'[req[d].r.issue] = issues[req[d].r.issue]
  PROVE  SwapHolds(req'[d], issues', repo')
<1>. SUFFICES ASSUME req'[d].r # None, Staged(req'[d].r), req'[d].clean
              PROVE  SwapHolds(req'[d], issues', repo')
  BY DEF SwapHolds
<1>1. /\ req'[d].r = req[d].r /\ req'[d].todo = req[d].todo /\ req'[d].seen = req[d].seen
      /\ req'[d].ids = req[d].ids /\ req'[d].tries = req[d].tries /\ req[d].clean
  BY DEF Waits
<1>2. Busy(d) /\ Staged(req[d].r) /\ req[d].r \in Request
  BY <1>1 DEF Busy, Base, TypeInv, Progress
<1>3. req[d].r.issue \in Issues
  BY <1>2, TargetIsStage DEF Base, TypeInv
<1>4. issues'[req[d].r.issue] = issues[req[d].r.issue]
  BY <1>2, <1>3, NoneAssumption
<1>5. SwapHolds(req[d], issues, repo)
  BY DEF SwapInv, SwapHolds, Busy
<1>. QED BY <1>1, <1>2, <1>4, <1>5 DEF SwapHolds, Repeating, Repeated, Between, Busy

\* Steps of the request, of other requests and of users all keep SwapInv.
LEMMA SwapStep == Base /\ SwapInv /\ [Next]_vars => SwapInv'
<1>. SUFFICES ASSUME Base, SwapInv, [Next]_vars PROVE SwapInv'
  OBVIOUS
<1>0. (\A d \in Clients : SwapHolds(req'[d], issues', repo')) => SwapInv'
  BY DEF SwapHolds, SwapInv, Busy
<1>1. ASSUME NEW c \in Clients, Step(c) PROVE SwapInv'
  <2>1. Shape(c)
    BY <1>1, StepShape
  <2>2. \A d \in Clients \ {c} : SwapHolds(req'[d], issues', repo')
    BY <2>1, WaitingSwap DEF Shape
  <2>3. SwapHolds(req'[c], issues', repo')
    BY <1>1, <2>1, OwnSwap DEF Shape
  <2>. QED BY <1>0, <2>2, <2>3
<1>2. ASSUME NEW c \in Clients, NEW r \in Requests, Begin(c, r) PROVE SwapInv'
  <2>1. /\ UNCHANGED <<repo, issues>> /\ \A d \in Clients \ {c} : req'[d] = req[d]
        /\ req'[c].r = r /\ (r.op # "create" => Has(req'[c].todo, "list"))
        /\ req'[c].clean /\ Target(r) # None => StageToLabel(Target(r)) \in repo
    BY <1>2, BeginIs
  <2>2. \A d \in Clients \ {c} : SwapHolds(req'[d], issues', repo')
    BY <2>1 DEF SwapInv, SwapHolds, Busy
  <2>3. r \in Request
    BY RequestsAssumption
  <2>4. Staged(r) => Target(r) # None /\ r.op # "create"
    BY <2>3, TargetIsStage, NoneAssumption
  <2>5. SwapHolds(req'[c], issues', repo')
    BY <2>1, <2>4 DEF SwapHolds
  <2>. QED BY <1>0, <2>2, <2>5
<1>3. CASE UserEdits
  <2>1. \A d \in Clients : SwapHolds(req'[d], issues', repo')
    BY <1>3, UsersIs, WaitingSwap
  <2>. QED BY <1>0, <2>1
<1>4. CASE UNCHANGED vars
  BY <1>4 DEF vars, SwapInv, Busy
<1>. QED BY <1>1, <1>2, <1>3, <1>4 DEF Next

----------------------------------------------------------------------------
(* Claims after claims *)

\* An issue with the label of one stage is read as being at it.
LEMMA ReadAtStage ==
  ASSUME NEW issue, NEW s \in StageNames, AtStage(issue.labels, s)
  PROVE  IssueStage(issue) = s
<1>1. MapLabelsToStage(issue.labels) = s /\ s # None
  BY StageOfLabel, NoneAssumption
<1>. QED BY <1>1 DEF IssueStage

\* At the start nothing is claimed.
LEMMA TakenInit == Init => TakenInv
<1>1. Idle.r = None
  BY DEF Idle
<1>. QED BY <1>1 DEF Init, TakenInv, Busy

\* A claim that returns undisturbed leaves its issue at "working".
LEMMA ClaimedIsWorking ==
  ASSUME Base, SwapInv, NEW c \in Clients, Busy(c), req[c].todo # <<>>, Head(req[c].todo) = "refresh", req[c].clean
  PROVE  req[c].r.issue \in Issues /\ AtStage(issues[req[c].r.issue].labels, "working")
<1>1. req[c].r \in Request /\ req[c].todo \in Seq(Calls) /\ Ordered(req[c].todo) /\ req[c].r.op = "claim"
  BY CallerHas
<1>2. ~Has(req[c].todo, "list") /\ ~Has(req[c].todo, "remove") /\ ~Has(req[c].todo, "add")
  BY <1>1, OrderedHead
<1>3. Staged(req[c].r) /\ Target(req[c].r) = "working"
  BY <1>1, TargetIsStage DEF Staged
<1>4. ~Repeating(req[c])
  BY DEF Repeating, Ignored
<1>5. Between(req[c], req[c].todo, issues[req[c].r.issue].labels)
  BY <1>2, <1>3, <1>4 DEF SwapInv
<1>. QED BY <1>1, <1>2, <1>3, <1>5 DEF Between, Base, TypeInv

\* A claim that ends takes its issue, and it was alone; whoever touches the issue
\* afterwards ends that.
LEMMA TakenStep == Base /\ SwapInv /\ TakenInv /\ [Next]_vars => TakenInv'
<1>. SUFFICES ASSUME Base, SwapInv, TakenInv, [Next]_vars PROVE TakenInv'
  OBVIOUS
<1>. DEFINE Working(i) == i \in Issues /\ AtStage(issues'[i].labels, "working")
            Early(n) == n.r # None /\ n.r.op = "claim" => ~n.late
<1>0. (\A i \in taken' : Working(i)) /\ (\A d \in Clients : Early(req'[d])) => TakenInv'
  BY DEF TakenInv, Busy
<1>1. \A d \in Clients : Early(req[d])
  BY DEF TakenInv, Busy
<1>2. \A i \in taken : i \in Issues /\ AtStage(issues[i].labels, "working")
  BY DEF TakenInv
<1>3. taken' = taken \ Untaken => \A i \in taken' : Working(i)
  BY <1>2 DEF Untaken
<1>4. taken' = taken /\ UNCHANGED issues => \A i \in taken' : Working(i)
  BY <1>2
<1>. HIDE DEF Working
<1>5. ASSUME NEW c \in Clients, Step(c) PROVE TakenInv'
  <2>1. Shape(c)
    BY <1>5, StepShape
  <2>2. \A i \in taken' : Working(i)
    <3>1. CASE Attempt(c)
      BY <1>3, <3>1 DEF Attempt
    <3>2. CASE Refresh(c)
      <4>1. /\ Busy(c) /\ req[c].todo # <<>> /\ Head(req[c].todo) = "refresh" /\ UNCHANGED issues
            /\ taken' = IF req[c].clean THEN taken \cup {req[c].r.issue} ELSE taken
        BY <3>2 DEF Refresh, At
      <4>. QED BY <1>2, <4>1, ClaimedIsWorking DEF Working
    <3>3. CASE ~Attempt(c) /\ ~Refresh(c)
      <4>1. UNCHANGED <<issues, taken>>
        BY <1>5, <3>3 DEF Step, ReadFails, List, CheckIndex, LoadIndex, FillIndex, Find, Check, SkipLabels
      <4>. QED BY <1>4, <4>1
    <3>. QED BY <3>1, <3>2, <3>3
  <2>3. \A d \in Clients \ {c} : Early(req'[d])
    BY <1>1, <2>1 DEF Shape, Waits
  <2>4. Early(req'[c])
    <3>1. CASE Planned(req'[c], req[c])
      <4>. SUFFICES ASSUME req[c].r.op = "claim", req[c].r.issue \in taken PROVE FALSE
        BY <3>1 DEF Planned
      <4>1. IssueStage(issues[req[c].r.issue]) = "accepted"
        BY <3>1 DEF Planned
      <4>2. "working" \in StageNames
        <5>1. Len(stagePrecedence) = 10 /\ stagePrecedence[1] = "working"
          BY DEF stagePrecedence
        <5>. QED BY <5>1 DEF StageNames, ToSet
      <4>3. IssueStage(issues[req[c].r.issue]) = "working"
        BY <1>2, <4>2, ReadAtStage
      <4>. QED BY <4>1, <4>3
    <3>2. CASE ~Planned(req'[c], req[c])
      <4>1. req'[c].r = None \/ (req'[c].r.op = req[c].r.op /\ req'[c].late = req[c].late)
        BY <2>1, <3>2 DEF Shape, Failed, Builds, Stays, GoesOn, MovesTo, Over
      <4>2. req[c].r # None
        BY <2>1 DEF Shape, Busy
      <4>. QED BY <1>1, <4>1, <4>2
    <3>. QED BY <3>1, <3>2
  <2>. QED BY <1>0, <2>2, <2>3, <2>4
<1>6. ASSUME NEW c \in Clients, NEW r \in Requests, Begin(c, r) PROVE TakenInv'
  <2>1. UNCHANGED <<issues, taken>> /\ (\A d \in Clients \ {c} : req'[d] = req[d]) /\ ~req'[c].late
    BY <1>6, BeginIs
  <2>2. \A d \in Clients : Early(req'[d])
    BY <1>1, <2>1
  <2>. QED BY <1>0, <1>4, <2>1, <2>2
<1>7. CASE UserEdits
  <2>1. taken' = taken \ Untaken /\ \A d \in Clients : Waits(req'[d], req[d])
    BY <1>7, UsersIs
  <2>2. \A d \in Clients : Early(req'[d])
    BY <1>1, <2>1 DEF Waits
  <2>. QED BY <1>0, <1>3, <2>1, <2>2
<1>8. CASE UNCHANGED vars
  BY <1>0, <1>1, <1>4, <1>8 DEF vars
<1>. QED BY <1>5, <1>6, <1>7, <1>8 DEF Next

----------------------------------------------------------------------------
(* The limits on sub-issues *)

\* Parents that are taken away leave fewer sub-issues, and fewer issues above.
LEMMA FewerBelow ==
  ASSUME NEW old, NEW new, \A k \in Issues : new[k].parent \in {old[k].parent, None},
         NEW p \in Issues
  PROVE  Children(new, p) \subseteq Children(old, p) /\ Above(new, p) \subseteq Above(old, p)
<1>1. Children(new, p) \subseteq Children(old, p)
  BY NoneAssumption DEF Children
<1>2. ASSUME NEW way \in SUBSET Issues, \A b \in way : old[b].parent \in way \cup {None}
      PROVE  \A b \in way : new[b].parent \in way \cup {None}
  BY <1>2
<1>. QED BY <1>1, <1>2 DEF Above

\* A link gives the parent one sub-issue, and the issue those above its parent.
LEMMA OneMore ==
  ASSUME NEW old \in [Issues -> Issue], NEW new, NEW i \in Issues, NEW p \in Issues,
         new[i].parent = p, \A k \in Issues \ {i} : new[k] = old[k]
  PROVE  /\ Children(new, p) \subseteq Children(old, p) \cup {i}
         /\ Above(new, i) \subseteq Above(old, p) \cup {i}
<1>1. new[i].parent = p /\ \A k \in Issues \ {i} : new[k] = old[k]
  OBVIOUS
<1>2. Children(new, p) \subseteq Children(old, p) \cup {i}
  BY <1>1 DEF Children
<1>. DEFINE way == Above(old, p) \cup {i}
<1>3. way \in SUBSET Issues /\ i \in way /\ p \in way
  BY DEF Above
<1>4. ASSUME NEW b \in Above(old, p) PROVE old[b].parent \in Above(old, p) \cup {None}
  <2>1. b \in Issues /\ old[b].parent \in Issues \cup {None}
    BY DEF Above, Issue
  <2>2. ASSUME NEW w \in SUBSET Issues, p \in w, \A k \in w : old[k].parent \in w \cup {None},
               old[b].parent # None
        PROVE  old[b].parent \in w
    <3>1. b \in w
      BY <2>2 DEF Above
    <3>. QED BY <2>2, <3>1
  <2>. QED BY <2>1, <2>2 DEF Above
<1>5. \A b \in way : new[b].parent \in way \cup {None}
  BY <1>1, <1>3, <1>4
<1>6. Above(new, i) \subseteq way
  BY <1>3, <1>5 DEF Above
<1>. QED BY <1>1, <1>2, <1>6

\* The sub-issues and the issues above can be counted.
LEMMA Counts ==
  ASSUME NEW is, NEW p
  PROVE  /\ IsFiniteSet(Children(is, p)) /\ Cardinality(Children(is, p)) \in Nat
         /\ IsFiniteSet(Above(is, p)) /\ Cardinality(Above(is, p)) \in Nat
<1>1. Children(is, p) \subseteq Issues /\ Above(is, p) \subseteq Issues
  BY DEF Children, Above
<1>2. IsFiniteSet(Children(is, p)) /\ IsFiniteSet(Above(is, p))
  BY <1>1, BoundsAssumption, FS_Subset
<1>. QED BY <1>2, FS_CardinalityType

\* At the start no request counts on anything.
LEMMA LinkInit == Init => LinkInv
<1>1. Idle.r = None
  BY DEF Idle
<1>. QED BY <1>1 DEF Init, LinkInv, LinkHolds

\* What a check that is passed has found.
LEMMA Passed ==
  ASSUME Base, NEW c \in Clients, Step(c), req'[c].r # None
  PROVE  /\ Head(req[c].todo) = "find" =>
              issues' = issues /\ Cardinality(Children(issues, req[c].r.parent)) < MaxSubIssues
         /\ Head(req[c].todo) = "check" =>
              issues' = issues /\ issueDepth(issues, req[c].r.parent) < MaxDepth
<1>. DEFINE p == req[c].r.parent
            n == Cardinality(Children(issues, p))
            d == issueDepth(issues, p)
<1>1. req' # Fail(req, c)
  BY FailIs DEF Base, TypeInv, Over
<1>2. ~ReadFails(c)
  BY <1>1 DEF ReadFails
<1>3. n \in Nat /\ d \in Nat /\ MaxSubIssues \in Nat /\ MaxDepth \in Nat
  BY Counts, BoundsAssumption DEF issueDepth
<1>4. CASE Head(req[c].todo) = "find"
  <2>1. Find(c)
    BY <1>2, <1>4 DEF Step, List, CheckIndex, LoadIndex, FillIndex, Check, Refresh, At,
                      SkipLabels, Ignored, Attempt, Writes
  <2>2. issues' = issues /\ ~(n >= MaxSubIssues)
    BY <1>1, <2>1 DEF Find
  <2>. QED BY <1>3, <1>4, <2>2
<1>5. CASE Head(req[c].todo) = "check"
  <2>1. Check(c)
    BY <1>2, <1>5 DEF Step, List, CheckIndex, LoadIndex, FillIndex, Find, Refresh, At,
                      SkipLabels, Ignored, Attempt, Writes
  <2>2. issues' = issues /\ ~(d >= MaxDepth)
    BY <1>1, <2>1 DEF Check
  <2>. QED BY <1>3, <1>5, <2>2
<1>. QED BY <1>4, <1>5

\* A call to link is an attempt, whatever comes of it.
LEMMA LinkIsAttempt ==
  ASSUME NEW c \in Clients, Step(c), Head(req[c].todo) = "link"
  PROVE  Attempt(c)
BY DEF Step, ReadFails, List, CheckIndex, LoadIndex, FillIndex, Find, Check, Refresh, At,
       SkipLabels, Ignored

\* What a request has found stays as it is or is fewer by any step of its own but
\* the link.
LEMMA OwnParents ==
  ASSUME Base, NEW c \in Clients, Step(c), Head(req[c].todo) # "link"
  PROVE  \A k \in Issues : issues'[k].parent \in {issues[k].parent, None}
<1>1. CASE Attempt(c)
  BY <1>1, AttemptShape DEF Effect, Reparented
<1>2. CASE UNCHANGED issues
  BY <1>2
<1>. QED BY <1>1, <1>2, WhoWrites

\* A request's own record after its step.
LEMMA OwnLink ==
  ASSUME Base, LinkInv, NEW c \in Clients, Step(c)
  PROVE  LinkHolds(req'[c], issues')
<1>. DEFINE n == req'[c]
            q == req[c]
            p == q.r.parent
            few(is) == Cardinality(Children(is, p)) < MaxSubIssues
            flat(is) == issueDepth(is, p) < MaxDepth
<1>. SUFFICES ASSUME n.r # None, n.clean, Has(n.todo, "link"), ~MayBeLinked(n, issues')
              PROVE  /\ Has(n.todo, "find") \/ Cardinality(Children(issues', n.r.parent)) < MaxSubIssues
                     /\ Has(n.todo, "check") \/ issueDepth(issues', n.r.parent) < MaxDepth
  BY DEF LinkHolds
<1>1. /\ Shape(c) /\ Busy(c) /\ q.todo # <<>> /\ q.r \in Request
      /\ q.todo \in Seq(Calls) /\ Ordered(q.todo)
  BY StepShape, CallerHas DEF Shape
<1>2. ~Failed(n)
  BY DEF Failed, Over
<1>3. CASE Planned(n, q)
  <2>1. Has(q.todo, "list")
    BY <1>1, <1>3, OrderedHead DEF Planned
  <2>2. q.r.op # "create"
    BY <2>1 DEF Base, OrderInv
  <2>3. n.todo = Plan(q.r, n.seen)
    BY <1>3 DEF Planned
  <2>. QED BY <1>1, <2>2, <2>3, PlanOrdered
<1>4. CASE Builds(n, q) \/ Stays(n, q) \/ GoesOn(n, q)
  <2>1. /\ q.clean /\ n.r.parent = p
        /\ \A call \in {"find", "check", "link"} :
              /\ Has(n.todo, call) => Has(q.todo, call)
              /\ Has(q.todo, call) => Has(n.todo, call) \/ Head(q.todo) = call
    <3>1. CASE Builds(n, q)
      <4>1. PICK new \in {"load", "fill"} :
              n.todo = <<new>> \o Tail(q.todo) /\ Head(q.todo) \in {"index", "load"}
        BY <3>1 DEF Builds
      <4>2. \A call \in {"find", "check", "link"} : Has(n.todo, call) <=> Has(q.todo, call)
        BY <1>1, <4>1, OrderedReplace
      <4>. QED BY <3>1, <4>2 DEF Builds
    <3>2. CASE Stays(n, q)
      BY <3>2 DEF Stays
    <3>3. CASE GoesOn(n, q)
      <4>1. Tail(q.todo) # <<>> /\ n.todo = Tail(q.todo) /\ q.clean /\ n.r.parent = p
        BY <3>3 DEF GoesOn, MovesTo, Over
      <4>. QED BY <1>1, <4>1, OrderedTail
    <3>. QED BY <1>4, <3>1, <3>2, <3>3
  <2>2. Has(q.todo, "link") /\ p \in Issues
    BY <2>1 DEF Base, OrderInv
  <2>3. ~MayBeLinked(q, issues) =>
          (Has(q.todo, "find") \/ few(issues)) /\ (Has(q.todo, "check") \/ flat(issues))
    BY <1>1, <2>1, <2>2 DEF LinkInv, LinkHolds, Busy
  <2>4. CASE Head(q.todo) = "link"
    <3>1. Attempt(c) /\ Effect(c)
      BY <2>4, LinkIsAttempt, AttemptShape
    <3>2. Tail(q.todo) = <<>>
      BY <1>1, <2>4, OrderedHead
    <3>3. ~GoesOn(n, q)
      BY <3>2 DEF GoesOn, MovesTo, Over
    <3>4. Stays(n, q) /\ n.tries # 0
      BY <1>2, <3>1, <3>3 DEF Effect
    <3>5. Linked(q) \/ issues' = issues
      BY <2>4, <3>1 DEF Effect, Reparented
    <3>6. n.r = q.r /\ n.todo = q.todo
      BY <3>4 DEF Stays
    <3>7. issues \in [Issues -> Issue] /\ p # None
      BY <2>2, NoneAssumption DEF Base, TypeInv
    <3>8. issues' = issues
      <4>. SUFFICES ASSUME Linked(q) PROVE issues' = issues
        BY <3>5
      <4>1. issues' = [issues EXCEPT ![q.r.issue].parent = p]
        BY DEF Linked
      <4>2. CASE q.r.issue \in Issues
        <5>1. issues'[q.r.issue].parent = p
          BY <3>7, <4>1, <4>2 DEF Issue
        <5>. QED BY <1>1, <2>4, <3>4, <3>6, <3>7, <4>2, <5>1 DEF MayBeLinked
      <4>3. CASE q.r.issue \notin Issues
        BY <3>7, <4>1, <4>3
      <4>. QED BY <4>2, <4>3
    <3>9. ~MayBeLinked(q, issues)
      BY <1>1, <3>4, <3>6, <3>8 DEF MayBeLinked
    <3>. QED BY <2>1, <2>3, <3>6, <3>8, <3>9
  <2>5. CASE Head(q.todo) # "link"
    <3>1. ~MayBeLinked(q, issues)
      BY <2>5 DEF MayBeLinked
    <3>2. /\ few(issues) => few(issues')
          /\ flat(issues) => flat(issues')
      <4>1. /\ Children(issues', p) \subseteq Children(issues, p)
            /\ Above(issues', p) \subseteq Above(issues, p)
        BY <2>2, <2>5, OwnParents, FewerBelow
      <4>2. /\ Cardinality(Children(issues', p)) <= Cardinality(Children(issues, p))
            /\ issueDepth(issues', p) <= issueDepth(issues, p)
        BY <4>1, Counts, FS_Subset DEF issueDepth
      <4>3. /\ Cardinality(Children(issues', p)) \in Nat /\ Cardinality(Children(issues, p)) \in Nat
            /\ issueDepth(issues', p) \in Nat /\ issueDepth(issues, p) \in Nat
            /\ MaxSubIssues \in Nat /\ MaxDepth \in Nat
        BY Counts, BoundsAssumption DEF issueDepth
      <4>. QED BY <4>2, <4>3
    <3>3. Has(n.todo, "find") \/ few(issues')
      <4>1. CASE Head(q.todo) = "find"
        BY <4>1, Passed
      <4>2. CASE Head(q.todo) # "find"
        BY <2>1, <2>3, <3>1, <3>2, <4>2
      <4>. QED BY <4>1, <4>2
    <3>4. Has(n.todo, "check") \/ flat(issues')
      <4>1. CASE Head(q.todo) = "check"
        BY <4>1, Passed
      <4>2. CASE Head(q.todo) # "check"
        BY <2>1, <2>3, <3>1, <3>2, <4>2
      <4>. QED BY <4>1, <4>2
    <3>. QED BY <2>1, <3>3, <3>4
  <2>. QED BY <2>4, <2>5
<1>. QED BY <1>1, <1>2, <1>3, <1>4 DEF Shape

\* Whoever waits keeps what it counts on, or loses its clean mark.
LEMMA WaitingLink ==
  ASSUME Base, LinkInv, NEW d \in Clients, Waits(req'[d], req[d]),
         Busy(d) /\ req'[d].clean => Relied(issues', req[d].r) = Relied(issues, req[d].r)
  PROVE  LinkHolds(req'[d], issues')
<1>. DEFINE q == req[d]
<1>. SUFFICES ASSUME req'[d].r # None, req'[d].clean, Has(req'[d].todo, "link"),
                     ~MayBeLinked(req'[d], issues')
              PROVE  LinkHolds(req'[d], issues')
  BY DEF LinkHolds
<1>1. req'[d].r = q.r /\ req'[d].todo = q.todo /\ req'[d].tries = q.tries /\ q.clean
  BY DEF Waits
<1>2. Busy(d) /\ q.r.parent \in Issues
  BY <1>1 DEF Busy, Base, OrderInv
<1>3. Relied(issues', q.r) = Relied(issues, q.r)
  BY <1>2
<1>4. /\ Children(issues', q.r.parent) = Children(issues, q.r.parent)
      /\ issueDepth(issues', q.r.parent) = issueDepth(issues, q.r.parent)
  <2>1. Relied(issues', q.r)[2] = Relied(issues, q.r)[2]
    BY <1>3
  <2>2. <<Children(issues', q.r.parent), issueDepth(issues', q.r.parent)>>
          = <<Children(issues, q.r.parent), issueDepth(issues, q.r.parent)>>
    BY <1>2, <2>1 DEF Relied
  <2>. QED BY <2>2
<1>5. q.r.issue \in Issues => issues'[q.r.issue] = issues[q.r.issue]
  <2>1. Relied(issues', q.r)[1] = Relied(issues, q.r)[1]
    BY <1>3
  <2>. QED BY <2>1, NoneAssumption DEF Relied
<1>6. ~MayBeLinked(q, issues)
  BY <1>1, <1>5 DEF MayBeLinked
<1>7. LinkHolds(q, issues)
  BY DEF LinkInv
<1>. QED BY <1>1, <1>2, <1>4, <1>6, <1>7 DEF LinkHolds, Busy

\* Steps of the request, of other requests and of users all keep LinkInv.
LEMMA LinkStep == Base /\ LinkInv /\ [Next]_vars => LinkInv'
<1>. SUFFICES ASSUME Base, LinkInv, [Next]_vars PROVE LinkInv'
  OBVIOUS
<1>0. (\A d \in Clients : LinkHolds(req'[d], issues')) => LinkInv'
  BY DEF LinkInv
<1>1. ASSUME NEW c \in Clients, Step(c) PROVE LinkInv'
  <2>1. \A d \in Clients \ {c} : LinkHolds(req'[d], issues')
    BY <1>1, StepShape, WaitingLink DEF Shape
  <2>2. LinkHolds(req'[c], issues')
    BY <1>1, OwnLink
  <2>. QED BY <1>0, <2>1, <2>2
<1>2. ASSUME NEW c \in Clients, NEW r \in Requests, Begin(c, r) PROVE LinkInv'
  <2>1. /\ UNCHANGED issues /\ \A d \in Clients \ {c} : req'[d] = req[d]
        /\ Has(req'[c].todo, "link") => Has(req'[c].todo, "find") /\ Has(req'[c].todo, "check")
    BY <1>2, BeginIs
  <2>2. \A d \in Clients \ {c} : LinkHolds(req'[d], issues')
    BY <2>1 DEF LinkInv
  <2>3. LinkHolds(req'[c], issues')
    BY <2>1 DEF LinkHolds
  <2>. QED BY <1>0, <2>2, <2>3
<1>3. CASE UserEdits
  <2>1. \A d \in Clients : LinkHolds(req'[d], issues')
    BY <1>3, UsersIs, WaitingLink
  <2>. QED BY <1>0, <2>1
<1>4. CASE UNCHANGED vars
  BY <1>4 DEF vars, LinkInv
<1>. QED BY <1>1, <1>2, <1>3, <1>4 DEF Next

----------------------------------------------------------------------------
(* Theorems *)

Inv == Base /\ SwapInv /\ TakenInv /\ LinkInv

\* The four parts together are inductive.
LEMMA AlwaysInv == Spec => []Inv
<1>1. Init => Inv
  BY BaseInit, SwapInit, TakenInit, LinkInit DEF Inv
<1>2. Inv /\ [Next]_vars => Inv'
  BY BaseStep, SwapStep, TakenStep, LinkStep DEF Inv
<1>. QED BY <1>1, <1>2, PTL DEF Spec

\* A request returns by a step of its own, which makes its call.
LEMMA OwnReturn ==
  ASSUME Base, [Next]_vars, NEW c \in Clients, Returned(c)
  PROVE  Step(c) /\ Shape(c) /\ GoesOn(req'[c], req[c])
<1>1. Busy(c) /\ req'[c].r = None /\ req'[c].result = "ok" /\ req[c].r # None
  BY DEF Returned, Busy
<1>2. ASSUME NEW d \in Clients, Step(d), d # c PROVE FALSE
  <2>1. req'[c].r = req[c].r
    BY <1>2, StepShape DEF Shape, Waits
  <2>. QED BY <1>1, <2>1
<1>3. ASSUME NEW d \in Clients, NEW r \in Requests, Begin(d, r) PROVE FALSE
  <2>1. /\ req'[d].r = r /\ r # None
        /\ \A e \in Clients \ {d} : req'[e] = req[e]
    BY <1>3, BeginIs, NoneAssumption
  <2>. QED BY <1>1, <2>1
<1>4. ~UserEdits
  <2>. SUFFICES ASSUME UserEdits PROVE FALSE
    OBVIOUS
  <2>1. req'[c].r = req[c].r
    BY UsersIs DEF Waits
  <2>. QED BY <1>1, <2>1
<1>5. vars' # vars
  BY <1>1 DEF vars
<1>6. Step(c)
  BY <1>2, <1>3, <1>4, <1>5 DEF Next
<1>7. ~Failed(req'[c]) /\ ~Planned(req'[c], req[c]) /\ ~Builds(req'[c], req[c]) /\ ~Stays(req'[c], req[c])
  BY <1>1 DEF Failed, Planned, Builds, Stays
<1>. QED BY <1>6, <1>7, StepShape DEF Shape

\* The record of every request is one the program can hold, the calls it has
\* left are in their order, and labels are only the repository's: what the
\* GraphQL calls of ClaimTask, UpdateTask, CloseTask and CreateTask rely on.
THEOREM TypeCorrect == Spec => [](TypeInv /\ OrderInv /\ LabelInv)
<1>1. Inv => TypeInv /\ OrderInv /\ LabelInv
  BY DEF Inv, Base
<1>. QED BY <1>1, AlwaysInv, PTL

\* What GetReadyTasks offers ClaimTask does not call unavailable, and
\* GetBlockedTasks does not list.
THEOREM ReadyCanBeClaimed == Spec => []ReadyIsClaimable
<1>1. "accepted" # None
  <2>1. Len(stagePrecedence) = 10 /\ stagePrecedence[5] = "accepted"
    BY DEF stagePrecedence
  <2>. QED BY <2>1, NoneAssumption DEF StageNames, ToSet
<1>2. ReadyIsClaimable
  BY <1>1 DEF ReadyIsClaimable, computeReady, computeBlocked, issueUnavailableForClaim, IssueStage
<1>. QED BY <1>2, PTL

\* UpdateTask and ClaimTask: a stage change that nothing disturbed leaves its
\* issue at the stage asked for, whatever labels it had and however often the
\* transport repeated the calls.
THEOREM UndisturbedStageLands == Spec => LoneUpdateLands
<1>. DEFINE Lands(c) == LET r == req[c].r
                       IN Returned(c) /\ req'[c].clean /\ (r.op = "claim" \/ (r.op = "update" /\ r.stage # None))
                          => IssueStage(issues'[r.issue]) = Target(r)
<1>1. ASSUME Inv, [Next]_vars, NEW c \in Clients PROVE Lands(c)
  <2>. SUFFICES ASSUME Returned(c), req'[c].clean, Staged(req[c].r)
                PROVE  IssueStage(issues'[req[c].r.issue]) = Target(req[c].r)
    BY DEF Staged
  <2>1. Busy(c) /\ req'[c].r = None /\ req'[c].result = "ok" /\ req[c].r # None
    BY DEF Returned, Busy
  <2>2. Base /\ SwapInv /\ Step(c) /\ Shape(c) /\ GoesOn(req'[c], req[c])
    BY <1>1, OwnReturn DEF Inv
  <2>3. req[c].todo # <<>>
    BY <2>2 DEF Shape
  <2>4. /\ req[c].r \in Request /\ req[c].todo \in Seq(Calls)
        /\ Target(req[c].r) \in StageNames /\ req[c].r.op # "create"
    BY <2>1, <2>2, <2>3, CallerHas, TargetIsStage
  <2>5. ~Failed(req'[c])
    BY <2>1 DEF Failed
  <2>7. Between(req[c], Tail(req[c].todo), issues'[req[c].r.issue].labels)
    BY <2>2, <2>5, Landed
  <2>8. Tail(req[c].todo) = <<>>
    <3>. SUFFICES ASSUME Tail(req[c].todo) # <<>> PROVE FALSE
      OBVIOUS
    <3>1. req'[c].r \in Request /\ req'[c].r.op = req[c].r.op
      BY <2>2 DEF GoesOn, MovesTo
    <3>2. Head(req[c].todo) = "create" \/ req'[c].r = req[c].r
      BY <2>2 DEF GoesOn, MovesTo
    <3>3. Has(req[c].todo, "create") => req[c].r.op = "create"
      BY <2>2 DEF Base, OrderInv
    <3>4. Has(req[c].todo, Head(req[c].todo))
      BY <2>1, <2>2, <2>3, CallerHas, OrderedHead
    <3>. QED BY <2>1, <2>4, <3>2, <3>3, <3>4
  <2>9. AtStage(issues'[req[c].r.issue].labels, Target(req[c].r))
    BY <2>7, <2>8, NothingLeft DEF Between
  <2>. QED BY <2>4, <2>9, ReadAtStage
<1>2. Inv /\ [Next]_vars => [\A c \in Clients : Lands(c)]_vars
  BY <1>1
<1>. QED BY <1>2, AlwaysInv, PTL DEF Spec, LoneUpdateLands

\* ClaimTask: a claim that begins after a claim of the same issue returned, with
\* nothing changed since, is refused.
THEOREM LateClaimIsRefused == Spec => LateClaimFails
<1>1. Inv => [\A c \in Clients : Returned(c) /\ req[c].r.op = "claim" => ~req[c].late]_vars
  BY DEF Inv, TakenInv, Returned
<1>. QED BY <1>1, AlwaysInv, PTL DEF LateClaimFails

\* checkSubIssueLimits, called before addSubIssue by UpdateTask and CreateTask: an
\* issue attached while nobody else changed the sub-issues of its parent, or how
\* deep the parent lies, leaves both limits kept, for any limits.
THEOREM LinkKeepsLimits == Spec => LoneLinkWithinLimits
<1>. DEFINE Kept(c) ==
       At(c, "link") /\ Returned(c) /\ req'[c].clean
       => LET i == CHOOSE k \in Issues : issues'[k] # issues[k]
          IN issues' # issues
             => /\ Cardinality(Children(issues', issues'[i].parent)) <= MaxSubIssues
                /\ issueDepth(issues', i) <= MaxDepth
<1>1. ASSUME Inv, [Next]_vars, NEW c \in Clients PROVE Kept(c)
  <2>. DEFINE q == req[c]
              i == q.r.issue
              p == q.r.parent
  <2>. SUFFICES ASSUME At(c, "link"), Returned(c), req'[c].clean, issues' # issues
                PROVE  LET k == CHOOSE j \in Issues : issues'[j] # issues[j]
                       IN  /\ Cardinality(Children(issues', issues'[k].parent)) <= MaxSubIssues
                           /\ issueDepth(issues', k) <= MaxDepth
    OBVIOUS
  <2>1. /\ Base /\ LinkInv /\ Busy(c) /\ q.todo # <<>> /\ Head(q.todo) = "link"
        /\ Step(c) /\ GoesOn(req'[c], q) /\ req'[c].result = "ok" /\ req'[c].r = None
    BY <1>1, OwnReturn DEF Inv, At, Returned
  <2>2. /\ q.r \in Request /\ q.todo \in Seq(Calls) /\ Ordered(q.todo) /\ p \in Issues
        /\ issues \in [Issues -> Issue] /\ p # None
    BY <2>1, CallerHas, NoneAssumption DEF Base, TypeInv
  <2>3. Linked(q)
    <3>1. Effect(c)
      BY <2>1, LinkIsAttempt, AttemptShape
    <3>2. ~Failed(req'[c]) /\ ~Stays(req'[c], q)
      BY <2>1 DEF Failed, Stays, Busy
    <3>. QED BY <2>1, <3>1, <3>2 DEF Effect, Reparented
  <2>4. issues[i].parent = None /\ issues' = [issues EXCEPT ![i].parent = p] /\ i \in Issues
    BY <2>2, <2>3 DEF Linked
  <2>5. /\ Children(issues', p) \subseteq Children(issues, p) \cup {i}
        /\ Above(issues', i) \subseteq Above(issues, p) \cup {i}
        /\ issues'[i].parent = p /\ \A j \in Issues \ {i} : issues'[j] = issues[j]
    <3>1. issues'[i].parent = p /\ \A j \in Issues \ {i} : issues'[j] = issues[j]
      BY <2>2, <2>4 DEF Issue
    <3>2. i \in Issues /\ p \in Issues /\ issues \in [Issues -> Issue]
      BY <2>2, <2>4
    <3>. HIDE DEF i, p
    <3>. QED BY <3>1, <3>2, OneMore
  <2>6. (CHOOSE j \in Issues : issues'[j] # issues[j]) = i
    <3>1. issues'[i] # issues[i]
      BY <2>2, <2>4, <2>5
    <3>2. \A j \in Issues : issues'[j] # issues[j] => j = i
      BY <2>5
    <3>. QED BY <2>4, <3>1, <3>2
  <2>7. Cardinality(Children(issues, p)) < MaxSubIssues /\ issueDepth(issues, p) < MaxDepth
    <3>1. q.clean
      BY <2>1 DEF GoesOn, MovesTo
    <3>2. Has(q.todo, "link") /\ Tail(q.todo) = <<>>
      BY <2>1, <2>2, OrderedHead
    <3>3. ~Has(q.todo, "find") /\ ~Has(q.todo, "check")
      BY <2>1, <2>2, <3>2, OrderedTail, NothingLeft
    <3>4. ~MayBeLinked(q, issues)
      BY <2>4 DEF MayBeLinked
    <3>. QED BY <2>1, <3>1, <3>2, <3>3, <3>4 DEF LinkInv, LinkHolds, Busy
  <2>8. ASSUME NEW S, IsFiniteSet(S), NEW T, IsFiniteSet(T), T \subseteq S \cup {i},
               NEW most \in Nat, Cardinality(S) < most
        PROVE  Cardinality(T) <= most
    <3>. HIDE DEF i
    <3>0. Cardinality(S) \in Nat /\ Cardinality(T) \in Nat
      BY <2>8, FS_CardinalityType
    <3>1. /\ IsFiniteSet(S \cup {i}) /\ Cardinality(S \cup {i}) <= Cardinality(S) + 1
          /\ Cardinality(S) \in Nat /\ Cardinality(T) \in Nat
      BY <2>8, <3>0, FS_AddElement
    <3>2. Cardinality(T) <= Cardinality(S \cup {i}) /\ Cardinality(S \cup {i}) \in Nat
      BY <2>8, <3>1, FS_Subset, FS_CardinalityType
    <3>. QED BY <2>8, <3>1, <3>2
  <2>9. Cardinality(Children(issues', p)) <= MaxSubIssues /\ issueDepth(issues', i) <= MaxDepth
    BY <2>5, <2>7, <2>8, Counts, BoundsAssumption DEF issueDepth
  <2>. QED BY <2>5, <2>6, <2>9
<1>2. Inv /\ [Next]_vars => [\A c \in Clients : Kept(c)]_vars
  BY <1>1
<1>. QED BY <1>2, AlwaysInv, PTL DEF Spec, LoneLinkWithinLimits
=============================================================================
