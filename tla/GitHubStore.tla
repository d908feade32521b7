---------------------------- MODULE GitHubStore ----------------------------
(***************************************************************************)
(* The GitHub pass-through store: tasks that are the issues of a GitHub    *)
(* repository (internal/platform/github).  Nothing is kept locally but a   *)
(* cache of the repository's labels.  A request is a sequence of GraphQL   *)
(* calls with no transaction around them: it lists the issues, decides on  *)
(* that snapshot and then writes; other requests and the users of GitHub   *)
(* act between its calls.  The HTTP transport repeats a call that was      *)
(* answered 429 or 5xx, whether or not it was carried out.                 *)
(*                                                                         *)
(* Only stage labels, the unavailable label ("held"), sub-issues, the      *)
(* assignee and the closed state are kept of an issue.  Priority and type  *)
(* are swapped by the code that swaps stages.  The 200 issues the listing  *)
(* is cut at, titles and comments are left out.                            *)
(***************************************************************************)
EXTENDS Integers, FiniteSets, Sequences, SequencesExt

CONSTANTS
  Issues,         \* the issue numbers of the repository
  Clients,        \* the requests in progress
  None,           \* no stage, no parent, no request
  Clear,          \* the parent of a request that takes the parent away
  Requests,       \* the requests clients make, a set of records of Request
  Start,          \* [Issues -> Issue], the repository at the start
  Repo,           \* the labels the repository has at the start
  Loose,          \* the labels its users may add to it
  MaxRetries,     \* maxRetries of the transport
  MaxSubIssues,   \* MaxSubIssuesPerParent
  MaxDepth,       \* MaxSubIssueDepth
  MaxVisits,      \* bound: requests of one client
  MaxEdits        \* bound: edits by users of GitHub

ASSUME BoundsAssumption ==
  /\ MaxRetries \in Nat /\ MaxVisits \in Nat /\ MaxEdits \in Nat
  /\ MaxSubIssues \in Nat /\ MaxDepth \in Nat /\ IsFiniteSet(Issues)

VARIABLES
  repo,      \* labels of the repository
  issues,    \* issues, as GitHub holds them
  index,     \* labelIndex: None, or the labels the store knows the id of
  req,       \* request in progress of each client
  visits,    \* requests each client has begun
  edits,     \* edits made by users
  taken      \* history: issues whose last change was a claim that returned

vars == <<repo, issues, index, req, visits, edits, taken>>

----------------------------------------------------------------------------
(* Labels and stages *)

stagePrecedence ==
  <<"working", "in_review", "in_qa", "deploying", "accepted", "triage",
    "completed", "wont_fix", "duplicate", "cancelled">>
StageNames == ToSet(stagePrecedence)

\* A label stands for a stage, or holds the issue ("held").  The one the store
\* writes has its prefix; users also write the bare name.
Label == [kind : StageNames \cup {"held"}, own : BOOLEAN]
StageToLabel(s) == [kind |-> s, own |-> TRUE]

Closed == {"completed", "not_planned"}
Issue == [state : {"absent", "open"} \cup Closed, labels : SUBSET Label,
          assigned : BOOLEAN, parent : Issues \cup {None}]
Absent == [state |-> "absent", labels |-> {}, assigned |-> FALSE, parent |-> None]

MapLabelsToStage(labels) ==
  LET held == {k \in 1..Len(stagePrecedence) :
                 \E l \in labels : l.kind = stagePrecedence[k]}
  IN IF held = {} THEN None
     ELSE stagePrecedence[CHOOSE k \in held : \A j \in held : k <= j]

\* IssueToPhaseStage: a stage label wins, also over the closed state.
IssueStage(issue) ==
  LET s == MapLabelsToStage(issue.labels)
  IN CASE s # None -> s
       [] s = None /\ issue.state = "open" -> "accepted"
       [] s = None /\ issue.state = "not_planned" -> "wont_fix"
       [] OTHER -> "completed"

phaseForStage(s) ==
  IF s \in {"completed", "wont_fix", "duplicate", "cancelled"} THEN "closed"
  ELSE IF s \in {"working", "in_review", "in_qa", "deploying"} THEN "in_progress"
  ELSE "open"

\* The labels a stage swap removes from an issue that has "current", and adds.
SwapRemove_OwnOnly(current, s) ==
  {l \in current : l.kind \in StageNames /\ l.own /\ l # StageToLabel(s)}
SwapRemove(current, s) ==
  {l \in current : l.kind \in StageNames /\ l # StageToLabel(s)}
SwapAdd(current, s) == {StageToLabel(s)} \ current

----------------------------------------------------------------------------
(* Sub-issues *)

Children(is, p) == {i \in Issues : is[i].parent = p}

\* The issues on the way up from i: those in every set of issues that has i and
\* the parent, if there is one, of each of its members.
Above(is, i) ==
  {a \in Issues : \A way \in SUBSET Issues :
     i \in way /\ (\A b \in way : is[b].parent \in way \cup {None}) => a \in way}

issueDepth(is, i) == Cardinality(Above(is, i))

hasOpenSubIssue(is, i) == \E k \in Children(is, i) : is[k].state = "open"

hasExternalUnavailableLabel(labels) == \E l \in labels : l.kind = "held"

issueUnavailableForClaim_AnyStage(is, i) ==
  hasExternalUnavailableLabel(is[i].labels) \/ hasOpenSubIssue(is, i)
issueUnavailableForClaim(is, i) ==
  \/ IssueStage(is[i]) # "accepted"
  \/ hasExternalUnavailableLabel(is[i].labels)
  \/ hasOpenSubIssue(is, i)

\* What GetReadyTasks reports of one listing (without include_unblocked_open).
computeReady_IgnoresHeld(is) ==
  {i \in Issues : /\ is[i].state = "open"
                  /\ MapLabelsToStage(is[i].labels) = "accepted"
                  /\ ~hasOpenSubIssue(is, i)}
computeReady(is) ==
  {i \in Issues : /\ is[i].state = "open"
                  /\ MapLabelsToStage(is[i].labels) = "accepted"
                  /\ ~hasOpenSubIssue(is, i)
                  /\ ~hasExternalUnavailableLabel(is[i].labels)}

\* What GetBlockedTasks reports of one listing.
computeBlocked(is) ==
  {i \in Issues : /\ is[i].state = "open"
                  /\ \/ hasExternalUnavailableLabel(is[i].labels)
                     \/ hasOpenSubIssue(is, i)}

----------------------------------------------------------------------------
(* Requests *)

Request ==
  [op : {"claim", "update", "close", "create"}, issue : Issues \cup {None},
   stage : StageNames \cup {None}, parent : Issues \cup {None, Clear}]

\* The stage whose label a request puts on its issue; a close changes no label.
Target(r) == CASE r.op = "claim" -> "working" [] r.op = "close" -> None [] OTHER -> r.stage

\* The calls of a request, in the order of its todo, are of these kinds: list,
\* index, load, fill, find, check, refresh, and those that write.
Writes == {"edit", "remove", "add", "close", "create", "unlink", "link"}
Ignored == {"remove", "add"}     \* a failure of these is not reported

\* A request names its issue, but for the one that creates it, which has no
\* parent to take away; an issue has only labels of the repository.
ASSUME RequestsAssumption ==
  /\ Requests \subseteq Request /\ Start \in [Issues -> Issue]
  /\ \A r \in Requests : IF r.op = "create" THEN r.parent # Clear ELSE r.issue \in Issues
  /\ Repo \subseteq Label /\ Loose \subseteq Label
  /\ \A i \in Issues : Start[i].labels \subseteq Repo

ASSUME NoneAssumption ==
  /\ None \notin Issues /\ None \notin StageNames /\ None \notin Requests
  /\ None \notin Clients /\ \A known \in SUBSET (Repo \cup Loose) : known # None

Idle == [r |-> None, todo |-> <<>>, seen |-> Absent, ids |-> {},
         tries |-> 0, clean |-> TRUE, late |-> FALSE, result |-> "none"]

Init ==
  /\ repo = Repo /\ issues = Start /\ index = None
  /\ req = [c \in Clients |-> Idle]
  /\ visits = [c \in Clients |-> 0]
  /\ edits = 0 /\ taken = {}

Busy(c) == req[c].r # None
At(c, call) == Busy(c) /\ req[c].todo # <<>> /\ Head(req[c].todo) = call

\* The issue and the sub-issues a request depends on.
Relied(is, r) ==
  <<IF r.issue = None THEN Absent ELSE is[r.issue],
    IF r.parent \in Issues THEN <<Children(is, r.parent), issueDepth(is, r.parent)>>
    ELSE <<>> >>

\* "q" with the clean marks of the requests other than "who"'s whose ground
\* has changed taken away, and the claims that are no longer the last word.
Observed(q, who) ==
  /\ req' = [c \in Clients |->
       IF c # who /\ q[c].r # None /\ Relied(issues', q[c].r) # Relied(issues, q[c].r)
       THEN [q[c] EXCEPT !.clean = FALSE] ELSE q[c]]

Untaken == {i \in Issues : issues'[i] # issues[i]}

Begin(c, r) ==
  /\ ~Busy(c) /\ visits[c] < MaxVisits
  /\ visits' = [visits EXCEPT ![c] = @ + 1]
  /\ req' = [req EXCEPT ![c] =
       [Idle EXCEPT !.r = r,
          !.todo = IF r.op = "create"
                   THEN <<"index">>
                        \o (IF r.parent = None THEN <<>> ELSE <<"find", "check">>)
                        \o <<"create">>
                        \o (IF r.parent = None THEN <<>> ELSE <<"link">>)
                   ELSE <<"list">>,
          !.clean = Target(r) # None => StageToLabel(Target(r)) \in repo]]
  /\ UNCHANGED <<repo, issues, index, edits, taken>>

\* The request of c goes on with "rest"; when nothing is left it has returned.
GoOn(q, c, rest) ==
  IF rest = <<>> THEN [q EXCEPT ![c] = [Idle EXCEPT !.result = "ok", !.clean = q[c].clean]]
  ELSE [q EXCEPT ![c].todo = rest, ![c].tries = 0, ![c].ids = {}]

Fail(q, c) == [q EXCEPT ![c] = [Idle EXCEPT !.result = "error"]]

\* A call that only reads.  Its retries change nothing and are one step.
ReadFails(c) ==
  /\ Busy(c) /\ req[c].todo # <<>>
  /\ Head(req[c].todo) \in {"list", "load", "find", "check", "refresh"}
  /\ req' = Fail(req, c)
  /\ UNCHANGED <<repo, issues, index, visits, edits, taken>>

\* What a request does after it has found its issue in the listing.
Plan(r, seen) ==
  CASE r.op = "claim" -> <<"index", "remove", "add", "refresh">>
    [] r.op = "close" -> <<"close">>
    [] r.op = "update" ->
         <<"edit">>
         \o (IF r.stage = None THEN <<>> ELSE <<"index", "remove", "add">>)
         \o (IF r.parent = None \/ seen.parent = None THEN <<>> ELSE <<"unlink">>)
         \o (IF r.parent \in Issues THEN <<"find", "check", "link">> ELSE <<>>)

\* listIssues at the head of ClaimTask, UpdateTask and CloseTask, and the
\* refusals that follow from it.
List(c) ==
  LET r == req[c].r
      i == r.issue
      there == issues[i].state = "open" \/ (r.op = "update" /\ issues[i].state \in Closed)
      free == r.op = "claim" =>
                ~issues[i].assigned /\ ~issueUnavailableForClaim(issues, i)
  IN /\ At(c, "list")
     /\ req' = IF ~there \/ ~free THEN Fail(req, c)
               ELSE GoOn([req EXCEPT ![c].seen = issues[i],
                                     ![c].late = i \in taken],
                         c, Plan(r, issues[i]))
     /\ UNCHANGED <<repo, issues, index, visits, edits, taken>>

\* ensureLabelIndex: nil is seen by every request that comes before the first
\* answer; each then puts an empty map in place and fills it, label by label,
\* with no lock.
CheckIndex(c) ==
  /\ At(c, "index")
  /\ req' = GoOn(req, c, IF index = None THEN <<"load">> \o Tail(req[c].todo)
                         ELSE Tail(req[c].todo))
  /\ UNCHANGED <<repo, issues, index, visits, edits, taken>>

LoadIndex(c) ==
  /\ At(c, "load")
  /\ index' = {}
  /\ req' = [req EXCEPT ![c].todo = <<"fill">> \o Tail(@), ![c].ids = repo]
  /\ UNCHANGED <<repo, issues, visits, edits, taken>>

FillIndex(c) ==
  /\ At(c, "fill")
  /\ IF req[c].ids = {}
     THEN req' = GoOn(req, c, Tail(req[c].todo)) /\ UNCHANGED index
     ELSE \E l \in req[c].ids : /\ index' = index \cup {l}
                                /\ req' = [req EXCEPT ![c].ids = @ \ {l}]
  /\ UNCHANGED <<repo, issues, visits, edits, taken>>

\* getIssueByTaskID and the count of checkSubIssueLimits ...
Find_OffByOne(c) ==
  LET p == req[c].r.parent
      n == Cardinality(Children(issues, p))
  IN /\ At(c, "find")
     /\ req' = IF issues[p].state = "absent" \/ n > MaxSubIssues THEN Fail(req, c)
               ELSE GoOn(req, c, Tail(req[c].todo))
     /\ UNCHANGED <<repo, issues, index, visits, edits, taken>>
Find(c) ==
  LET p == req[c].r.parent
      n == Cardinality(Children(issues, p))
  IN /\ At(c, "find")
     /\ req' = IF issues[p].state = "absent" \/ n >= MaxSubIssues THEN Fail(req, c)
               ELSE GoOn(req, c, Tail(req[c].todo))
     /\ UNCHANGED <<repo, issues, index, visits, edits, taken>>

\* ... which then lists the issues again for the depth.
Check(c) ==
  /\ At(c, "check")
  /\ req' = IF issueDepth(issues, req[c].r.parent) >= MaxDepth THEN Fail(req, c)
            ELSE GoOn(req, c, Tail(req[c].todo))
  /\ UNCHANGED <<repo, issues, index, visits, edits, taken>>

\* getIssue at the end of ClaimTask: the claim has returned.
Refresh(c) ==
  /\ At(c, "refresh")
  /\ req' = GoOn(req, c, Tail(req[c].todo))
  /\ taken' = IF req[c].clean THEN taken \cup {req[c].r.issue} ELSE taken
  /\ UNCHANGED <<repo, issues, index, visits, edits>>

----------------------------------------------------------------------------
(* Calls that write *)

\* labelNamesToIDs: labels the index does not have are dropped.
LabelIds(c, call) ==
  LET current == req[c].seen.labels
      s == Target(req[c].r)
      want == IF call = "remove" THEN SwapRemove(current, s) ELSE SwapAdd(current, s)
  IN want \cap index

\* A call without ids to send is not made.
SkipLabels(c) ==
  LET call == Head(req[c].todo)
  IN /\ Busy(c) /\ req[c].todo # <<>> /\ call \in Ignored
     /\ req[c].tries = 0 /\ LabelIds(c, call) = {}
     /\ req' = GoOn([req EXCEPT ![c].clean = @ /\ index = repo], c, Tail(req[c].todo))
     /\ UNCHANGED <<repo, issues, index, visits, edits, taken>>

\* CreateTask links the issue its createIssue answered, which r.issue then holds.
Carried(c, call, ids) ==
  LET i == req[c].r.issue
      p == req[c].r.parent
  IN CASE call = "edit"   -> issues' = issues
       [] call = "remove" -> issues' = [issues EXCEPT ![i].labels = @ \ ids]
       [] call = "add"    -> issues' = [issues EXCEPT ![i].labels = @ \cup ids]
       [] call = "close"  -> issues' = [issues EXCEPT ![i].state =
                               IF req[c].r.stage \in {"wont_fix", "cancelled"}
                               THEN "not_planned" ELSE "completed"]
       [] call = "unlink" -> issues' = [issues EXCEPT ![i].parent = None]
       [] call = "link"   -> issues' = [issues EXCEPT ![i].parent = p]
       [] call = "create" ->
            LET n == CHOOSE k \in Issues : issues[k].state = "absent"
                s == req[c].r.stage
            IN issues' = [issues EXCEPT ![n] =
                 [Absent EXCEPT !.state = "open",
                    !.labels = IF s = None THEN {} ELSE {StageToLabel(s)} \cap index]]

\* GitHub refuses to detach from a parent the issue does not have, to attach an
\* issue that has one or stands above the parent, and, as a bound of the model,
\* to create more issues than there are numbers.
Accepts(c, call) ==
  LET i == req[c].r.issue
  IN CASE call = "unlink" -> issues[i].parent = req[c].seen.parent
       [] call = "link"   -> issues[i].parent = None /\ i \notin Above(issues, req[c].r.parent)
       [] call = "create" -> \E k \in Issues : issues[k].state = "absent"
       [] OTHER -> TRUE

\* Whether the transport's loop has an attempt left, and how it counts one.
Again(c) == req[c].tries < MaxRetries

Tried_Uncounted(q, c) == q
Tried(q, c) == [q EXCEPT ![c].tries = @ + 1]

\* One attempt of rateLimitTransport.RoundTrip at a call that writes.  GitHub
\* may carry it out ("done") whatever is answered: "again" is a 429, a secondary
\* limit or a 5xx, repeated MaxRetries times; "broken" is an error of the network.
Attempt(c) ==
  LET call == Head(req[c].todo)
      first == req[c].tries = 0
      ids == IF ~first \/ call \notin Ignored THEN req[c].ids ELSE LabelIds(c, call)
      kept == [req EXCEPT ![c].clean = @ /\ (first /\ call \in Ignored => index = repo)]
  IN /\ Busy(c) /\ req[c].todo # <<>> /\ call \in Writes
     /\ call \in Ignored => ids # {}
     /\ \E answer \in {"ok", "again", "broken"}, done \in BOOLEAN :
          /\ answer = "ok" => done
          /\ IF done /\ Accepts(c, call) THEN Carried(c, call, ids) ELSE UNCHANGED issues
          /\ CASE answer = "ok" /\ Accepts(c, call) ->
                    LET made == {i \in Issues : issues[i].state = "absent" /\ issues'[i].state # "absent"}
                    IN Observed(GoOn(IF call = "create"
                                     THEN [kept EXCEPT ![c].r.issue = CHOOSE i \in made : TRUE]
                                     ELSE kept, c, Tail(req[c].todo)), c)
               [] answer = "again" /\ Again(c) ->
                    Observed([Tried(kept, c) EXCEPT ![c].ids = ids], c)
               [] OTHER ->
                    Observed(IF call \in Ignored
                             THEN GoOn([kept EXCEPT ![c].clean = FALSE], c, Tail(req[c].todo))
                             ELSE Fail(kept, c), c)
     /\ taken' = taken \ Untaken
     /\ UNCHANGED <<repo, index, visits, edits>>

----------------------------------------------------------------------------
(* The users of GitHub *)

UserEdits ==
  /\ edits < MaxEdits
  /\ edits' = edits + 1
  /\ \E i \in Issues :
       /\ issues[i].state # "absent"
       /\ \/ \E l \in repo \cup Loose :
               /\ issues' = [issues EXCEPT ![i].labels = @ \cup {l}]
               /\ repo' = repo \cup {l}
          \/ \E l \in issues[i].labels :
               issues' = [issues EXCEPT ![i].labels = @ \ {l}] /\ UNCHANGED repo
          \/ issues' = [issues EXCEPT ![i].assigned = ~@] /\ UNCHANGED repo
          \/ issues' = [issues EXCEPT ![i].state = IF @ = "open" THEN "completed" ELSE "open"]
             /\ UNCHANGED repo
  /\ Observed(req, None)
  /\ taken' = taken \ Untaken
  /\ UNCHANGED <<index, visits>>

Step(c) ==
  \/ ReadFails(c) \/ List(c) \/ CheckIndex(c) \/ LoadIndex(c) \/ FillIndex(c)
  \/ Find(c) \/ Check(c) \/ Refresh(c) \/ SkipLabels(c) \/ Attempt(c)

Next ==
  \/ \E c \in Clients : Step(c) \/ \E r \in Requests : Begin(c, r)
  \/ UserEdits

Spec == Init /\ [][Next]_vars

\* A request's goroutine goes on as long as its calls are answered; the HTTP
\* client answers each of them, if only with an error.
FairSpec == Spec /\ \A c \in Clients : WF_vars(Step(c))

----------------------------------------------------------------------------
(* Properties *)

\* The two answers an agent works from agree: a task GetReadyTasks offers is
\* one ClaimTask does not call unavailable, and none GetBlockedTasks lists.
ReadyIsClaimable ==
  \A i \in computeReady(issues) :
    ~issueUnavailableForClaim(issues, i) /\ i \notin computeBlocked(issues)

Returned(c) == Busy(c) /\ req'[c].r = None /\ req'[c].result = "ok"

\* A stage change or claim that returned, that no call of failed, on whose issue
\* nobody else wrote meanwhile and that looked its labels up in a full index,
\* has left the issue at the stage it asked for: UpdateTask and ClaimTask have
\* removed every label that would be read before it.
LoneUpdateLands ==
  [][\A c \in Clients :
       LET r == req[c].r
       IN Returned(c) /\ req'[c].clean /\ (r.op = "claim" \/ (r.op = "update" /\ r.stage # None))
          => IssueStage(issues'[r.issue]) = Target(r)]_vars

\* A claim that begins after another claim of the issue has returned, when
\* nothing has changed the issue since, does not succeed.
LateClaimFails ==
  [][\A c \in Clients : Returned(c) /\ req[c].r.op = "claim" => ~req[c].late]_vars

\* An issue attached while nobody else changed its parent's sub-issues leaves
\* the parent within the limits of checkSubIssueLimits.
LoneLinkWithinLimits ==
  [][\A c \in Clients :
       At(c, "link") /\ Returned(c) /\ req'[c].clean
       => LET i == CHOOSE k \in Issues : issues'[k] # issues[k]
          IN issues' # issues
             => /\ Cardinality(Children(issues', issues'[i].parent)) <= MaxSubIssues
                /\ issueDepth(issues', i) <= MaxDepth]_vars

\* Every request returns: a call is repeated a bounded number of times.
RequestsReturn == \A c \in Clients : Busy(c) ~> ~Busy(c)
=============================================================================
