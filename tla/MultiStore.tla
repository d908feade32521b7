------------------------------ MODULE MultiStore ------------------------------
(***************************************************************************)
(* internal/store/multistore.go for one external collection: which store   *)
(* a request for one of its tasks ends at.  A task is a row of the primary *)
(* store or an issue of the platform; the platform store is built from the *)
(* token of the oldest linked account by the first request that names the  *)
(* collection, and kept.  A request that names only a task asks the        *)
(* primary store and then the platform stores that are registered.         *)
(*                                                                         *)
(* Every call of a store is a step of its own: requests race each other,   *)
(* accounts that are linked, unlinked or get another token, and a restart. *)
(***************************************************************************)
EXTENDS Naturals, FiniteSets, Sequences, SequencesExt

CONSTANTS
  Requests,     \* requests in progress at once
  Tasks,        \* ids of tasks of the collection
  None,         \* no task, no store
  Primary,      \* the primary store
  MaxTokens,    \* bound: tokens granted
  MaxStores,    \* bound: platform stores built since the start
  MaxRestarts   \* bound: restarts of the server

ASSUME BoundsAssumption ==
  MaxTokens \in Nat /\ MaxStores \in Nat /\ MaxRestarts \in Nat

Stores == 1..MaxStores
Tokens == 1..MaxTokens

ASSUME NamesAssumption ==
  /\ None # Primary /\ None # "platform"
  /\ None \notin Stores /\ Primary \notin Stores /\ None \notin Tasks

VARIABLES
  linked,     \* tokens of the collection's accounts, the oldest account first
  granted,    \* tokens granted so far
  live,       \* tokens the platform accepts
  place,      \* where each task is kept: Primary, "platform" or None
  cached,     \* platforms[collectionID]: None or a store
  built,      \* the token of each platform store built since the start
  open,       \* platform stores that were not closed
  req,        \* the requests
  restarts,   \* restarts so far
  relied      \* history: requests whose task the registered store can read

accounts == <<linked, granted, live>>
routing == <<cached, built, open>>
vars == <<linked, granted, live, place, cached, built, open, req, restarts, relied>>

NoRequest == [at |-> "idle", task |-> None, new |-> FALSE, store |-> None]

Init ==
  /\ linked = <<>> /\ granted = 0 /\ live = {}
  /\ place = [t \in Tasks |-> None]
  /\ cached = None /\ built = <<>> /\ open = {}
  /\ req = [r \in Requests |-> NoRequest]
  /\ restarts = 0 /\ relied = {}

\* Store s answers for the platform: its token is still accepted.
Works(s) == s \in Stores /\ built[s] \in live
\* The call GetTask of store s finds task t.
Has(s, t) == IF s = Primary THEN place[t] = Primary
             ELSE Works(s) /\ place[t] = "platform"
Answered(r) == req[r].at \in {"idle", "found", "missing", "failed"}
\* An id nobody has given to a task.
Unused(t) == place[t] = None /\ \A r \in Requests : Answered(r) \/ req[r].task # t

----------------------------------------------------------------------------
(* Accounts of the collection, and the platform *)

\* CreateLinkedAccount at the end of a link flow.
Link ==
  /\ granted < MaxTokens
  /\ granted' = granted + 1 /\ live' = live \cup {granted + 1}
  /\ linked' = Append(linked, granted + 1)
  /\ UNCHANGED <<place, routing, req, restarts, relied>>

\* DeleteLinkedAccount; the token itself goes on working.
Unlink(k) ==
  /\ linked' = RemoveAt(linked, k)
  /\ UNCHANGED <<granted, live, place, routing, req, restarts, relied>>

\* UpdateLinkedAccount by the token refresher: the old token is worth nothing.
ReplaceToken_RowKept(k) ==
  /\ granted < MaxTokens
  /\ granted' = granted + 1
  /\ live' = (live \cup {granted + 1}) \ {linked[k]}
  /\ UNCHANGED <<linked, place, routing, req, restarts, relied>>
ReplaceToken(k) ==
  /\ granted < MaxTokens
  /\ granted' = granted + 1
  /\ live' = (live \cup {granted + 1}) \ {linked[k]}
  /\ linked' = [linked EXCEPT ![k] = granted + 1]
  /\ relied' = IF cached # None /\ built[cached] = linked[k] THEN {} ELSE relied
  /\ UNCHANGED <<place, routing, req, restarts>>

\* Somebody opens an issue at the platform.
OpenIssue(t) ==
  /\ Unused(t)
  /\ place' = [place EXCEPT ![t] = "platform"]
  /\ UNCHANGED <<accounts, routing, req, restarts, relied>>

----------------------------------------------------------------------------
(* Requests *)

Goes(r, at, s) == req' = [req EXCEPT ![r].at = at, ![r].store = s]
Answers(r, how) == req' = [req EXCEPT ![r] = [@ EXCEPT !.at = how, !.store = None]]

\* CreateTask and the listings name the collection.
Create(r, t) ==
  /\ Answered(r) /\ Unused(t)
  /\ req' = [req EXCEPT ![r] = [at |-> "look", task |-> t, new |-> TRUE, store |-> None]]
  /\ relied' = relied \ {r}
  /\ UNCHANGED <<accounts, place, routing, restarts>>

\* GetTask, UpdateTask, ClaimTask, CloseTask and the others name a task.
Begin(r, t) ==
  /\ Answered(r) /\ place[t] # None
  /\ req' = [req EXCEPT ![r] = [at |-> "find", task |-> t, new |-> FALSE, store |-> None]]
  /\ relied' = IF cached # None /\ Has(cached, t) THEN relied \cup {r} ELSE relied \ {r}
  /\ UNCHANGED <<accounts, place, routing, restarts>>

\* storeForTask: the primary store first; an error of its counts as not found.
\* Then the platform stores, as they were registered at this moment.
Find_PrimaryOnly(r) ==
  /\ req[r].at = "find"
  /\ IF place[req[r].task] = Primary THEN Goes(r, "look", None) ELSE Answers(r, "missing")
  /\ UNCHANGED <<accounts, place, routing, restarts, relied>>
Find(r) ==
  /\ req[r].at = "find"
  /\ \/ place[req[r].task] = Primary /\ Goes(r, "look", None)
     \/ cached # None /\ Goes(r, "scan", cached)
     \/ cached = None /\ Answers(r, "missing")
  /\ UNCHANGED <<accounts, place, routing, restarts, relied>>

Scan(r) ==
  /\ req[r].at = "scan"
  /\ IF Has(req[r].store, req[r].task) THEN Goes(r, "look", None) ELSE Answers(r, "missing")
  /\ UNCHANGED <<accounts, place, routing, restarts, relied>>

\* storeForCtx, under the read lock.
Look(r) ==
  /\ req[r].at = "look"
  /\ IF cached # None THEN Goes(r, "use", cached) ELSE Goes(r, "resolve", None)
  /\ UNCHANGED <<accounts, place, routing, restarts, relied>>

\* lazyResolve up to the store it builds, with no lock held.  Without an account,
\* and after an error of the primary store or the resolver, the request goes to
\* the primary store.
Resolve(r) ==
  LET s == Len(built) + 1
  IN /\ req[r].at = "resolve"
     /\ \/ Goes(r, "use", Primary) /\ UNCHANGED <<built, open>>
        \/ /\ linked # <<>> /\ s \in Stores
           /\ built' = Append(built, Head(linked))
           /\ open' = open \cup {s}
           /\ Goes(r, "settle", s)
     /\ UNCHANGED <<accounts, place, cached, restarts, relied>>

\* The end of lazyResolve, under the write lock.
Settle_Overwrites(r) ==
  /\ req[r].at = "settle"
  /\ cached' = req[r].store /\ Goes(r, "use", req[r].store)
  /\ UNCHANGED <<accounts, place, built, open, restarts, relied>>
Settle(r) ==
  /\ req[r].at = "settle"
  /\ IF cached # None
     THEN /\ open' = open \ {req[r].store}
          /\ Goes(r, "use", cached) /\ UNCHANGED cached
     ELSE /\ cached' = req[r].store
          /\ Goes(r, "use", cached') /\ UNCHANGED open
  /\ UNCHANGED <<accounts, place, built, restarts, relied>>

\* The call of the store that was chosen.
Use(r) ==
  LET s == req[r].store
      t == req[r].task
  IN /\ req[r].at = "use"
     /\ IF ~req[r].new
        THEN Answers(r, IF Has(s, t) THEN "found" ELSE "missing") /\ UNCHANGED place
        ELSE IF s = Primary \/ Works(s)
        THEN /\ place' = [place EXCEPT ![t] = IF s = Primary THEN Primary ELSE "platform"]
             /\ Answers(r, "found")
        ELSE Answers(r, "failed") /\ UNCHANGED place
     /\ UNCHANGED <<accounts, routing, restarts, relied>>

Step(r) == Find(r) \/ Scan(r) \/ Look(r) \/ Resolve(r) \/ Settle(r) \/ Use(r)

\* Close, and another start: the requests and the stores are gone.
Restart ==
  /\ restarts < MaxRestarts
  /\ restarts' = restarts + 1
  /\ cached' = None /\ built' = <<>> /\ open' = {}
  /\ req' = [r \in Requests |-> NoRequest] /\ relied' = {}
  /\ UNCHANGED <<accounts, place>>

Next ==
  \/ Link \/ Restart
  \/ \E k \in DOMAIN linked : Unlink(k) \/ ReplaceToken(k)
  \/ \E t \in Tasks : OpenIssue(t)
  \/ \E r \in Requests, t \in Tasks : Create(r, t) \/ Begin(r, t)
  \/ \E r \in Requests : Step(r)

Spec == Init /\ [][Next]_vars

----------------------------------------------------------------------------
(* Properties *)

Steps == {"idle", "find", "scan", "look", "resolve", "settle", "use",
          "found", "missing", "failed"}

\* The variables keep their shapes: the rows hold different tokens, none of
\* which was replaced, and nobody holds a store outside the steps that go to one.
TypeOK ==
  /\ granted \in 0..MaxTokens /\ live \subseteq 1..granted
  /\ linked \in Seq(live)
  /\ \A j, k \in DOMAIN linked : linked[j] = linked[k] => j = k
  /\ place \in [Tasks -> {None, Primary, "platform"}]
  /\ built \in Seq(Tokens) /\ Len(built) <= MaxStores
  /\ cached \in {None} \cup DOMAIN built /\ open \subseteq DOMAIN built
  /\ req \in [Requests -> [at : Steps, task : Tasks \cup {None}, new : BOOLEAN,
                           store : {None, Primary} \cup DOMAIN built]]
  /\ \A r \in Requests : req[r].store # None <=> req[r].at \in {"scan", "settle", "use"}
  /\ relied \subseteq Requests /\ restarts \in 0..MaxRestarts

\* Requests that resolve the collection at once end with one store
\* (multistore.go:143-152): no request goes on with a store of its own or one
\* that was closed, and none stays open that nobody can reach.
OneStore ==
  /\ open = {req[r].store : r \in {q \in Requests : req[q].at = "settle"}}
              \cup ({cached} \ {None})
  /\ \A r \in Requests :
       req[r].at \in {"scan", "use"} => req[r].store \in {cached, Primary}

\* A request for a task of the platform finds it if the registered store can
\* read it from the request's beginning on, whatever is linked, unlinked or
\* resolved meanwhile (storeForTask, multistore.go:165-189).
FoundOnceRegistered == \A r \in relied : req[r].at # "missing"
=============================================================================
