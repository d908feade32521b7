--------------------------- MODULE MultiStoreProofs ---------------------------
(***************************************************************************)
(* Theorems about MultiStore for any number of requests, tasks, accounts   *)
(* and platform stores.                                                    *)
(***************************************************************************)
EXTENDS MultiStore, SequenceTheorems, TLAPS

-----------------------------------------------------------------------------
(* Types *)

\* Taking an account out of the listing keeps the others, each once.
LEMMA RemoveAtKeeps ==
    ASSUME NEW S, NEW s \in Seq(S), NEW k \in DOMAIN s,
           \A i, j \in DOMAIN s : s[i] = s[j] => i = j
    PROVE  /\ RemoveAt(s, k) \in Seq(S)
           /\ \A i, j \in DOMAIN RemoveAt(s, k) :
                 RemoveAt(s, k)[i] = RemoveAt(s, k)[j] => i = j
  <1> DEFINE r == RemoveAt(s, k)
  <1>1. k \in 1..Len(s) /\ Len(s) \in Nat
    OBVIOUS
  <1>2. r = SubSeq(s, 1, k-1) \o SubSeq(s, k+1, Len(s))
    BY DEF RemoveAt
  <1> DEFINE p == SubSeq(s, 1, k-1)
             q == SubSeq(s, k+1, Len(s))
  <1>3. /\ p \in Seq(S) /\ Len(p) = k-1 /\ \A i \in 1..(k-1) : p[i] = s[i]
        /\ q \in Seq(S) /\ Len(q) = Len(s) - k /\ \A i \in 1..(Len(s) - k) : q[i] = s[i+k]
    BY <1>1
  <1>4. /\ r \in Seq(S) /\ Len(r) = Len(s) - 1
        /\ \A i \in 1..Len(r) : r[i] = IF i < k THEN s[i] ELSE s[i+1]
    <2> HIDE DEF p, q
    <2>1. r \in Seq(S) /\ Len(r) = Len(p) + Len(q)
      <3>1. r = p \o q
        BY <1>2 DEF p, q
      <3> HIDE DEF r
      <3> QED BY <1>3, <3>1, ConcatProperties
    <2>2. Len(r) = Len(s) - 1
      BY <1>1, <1>3, <2>1
    <2>3. ASSUME NEW i \in 1..Len(r)
          PROVE  r[i] = IF i < k THEN s[i] ELSE s[i+1]
      <3>0. r = p \o q
        BY <1>2 DEF p, q
      <3> HIDE DEF r
      <3>1. r[i] = IF i <= Len(p) THEN p[i] ELSE q[i - Len(p)]
        <4>1. i \in 1..Len(p) + Len(q)
          BY <2>1
        <4> HIDE DEF p, q
        <4>2. (p \o q)[i] = IF i <= Len(p) THEN p[i] ELSE q[i - Len(p)]
          BY <1>3, <4>1, ConcatProperties
        <4> QED BY <3>0, <4>2
      <3>2. CASE i < k
        <4>1. i <= Len(p) /\ i \in 1..(k-1)
          BY <1>1, <1>3, <2>2, <2>3, <3>2
        <4> QED BY <1>3, <3>1, <3>2, <4>1
      <3>3. CASE ~(i < k)
        <4>1. ~(i <= Len(p)) /\ i - Len(p) = i - (k-1)
          BY <1>1, <1>3, <2>2, <2>3, <3>3
        <4>2. i - (k-1) \in 1..(Len(s) - k) /\ (i - (k-1)) + k = i + 1
          BY <1>1, <2>2, <2>3, <3>3
        <4> DEFINE d == i - (k-1)
        <4>3. q[d] = s[d+k]
          BY <1>3, <4>2
        <4> QED BY <3>1, <3>3, <4>1, <4>2, <4>3
      <3> QED BY <3>2, <3>3
    <2> QED BY <2>1, <2>2, <2>3
  <1> HIDE DEF r
  <1>5. ASSUME NEW i \in 1..Len(r), NEW j \in 1..Len(r), r[i] = r[j] PROVE i = j
    <2> DEFINE u(n) == IF n < k THEN n ELSE n + 1
    <2>1. r[i] = s[u(i)] /\ r[j] = s[u(j)]
      BY <1>4
    <2>2. u(i) \in DOMAIN s /\ u(j) \in DOMAIN s
      BY <1>1, <1>4
    <2>3. u(i) = u(j)
      <3> HIDE DEF u
      <3>1. s[u(i)] = s[u(j)]
        BY <1>5, <2>1
      <3> QED BY <2>2, <3>1, Zenon
    <2> QED BY <1>1, <1>4, <2>3
  <1> QED BY <1>4, <1>5 DEF r

\* The accounts of the collection and what the platform accepts.
AccountsOK ==
  /\ granted \in 0..MaxTokens /\ live \subseteq 1..granted
  /\ linked \in Seq(live)
  /\ \A j, k \in DOMAIN linked : linked[j] = linked[k] => j = k

\* At the start no account is linked.
LEMMA AccountsInit == Init => AccountsOK
  BY BoundsAssumption DEF Init, AccountsOK

\* Linking, unlinking and replacing a token keep the accounts typed.
LEMMA AccountsStep == AccountsOK /\ [Next]_vars => AccountsOK'
<1> SUFFICES ASSUME AccountsOK, [Next]_vars PROVE AccountsOK'
  OBVIOUS
<1>1. CASE Link
  <2>1. linked \in Seq(live') /\ granted + 1 \notin live /\ granted' = granted + 1
    BY <1>1 DEF Link, AccountsOK
  <2>2. linked' \in Seq(live') /\ Len(linked') = Len(linked) + 1
        /\ (\A j \in 1..Len(linked) : linked'[j] = linked[j] /\ linked[j] \in live)
        /\ linked'[Len(linked) + 1] = granted + 1
    BY <1>1, <2>1 DEF Link, AccountsOK
  <2>3. \A j, k \in 1..Len(linked') : linked'[j] = linked'[k] => j = k
    BY <2>1, <2>2 DEF AccountsOK
  <2>4. granted' \in 0..MaxTokens /\ live' \subseteq 1..granted'
    BY <1>1, BoundsAssumption DEF Link, AccountsOK
  <2> QED BY <2>2, <2>3, <2>4 DEF AccountsOK
<1>2. ASSUME NEW k \in DOMAIN linked, Unlink(k) PROVE AccountsOK'
  BY <1>2, RemoveAtKeeps DEF Unlink, AccountsOK
<1>3. ASSUME NEW k \in DOMAIN linked, ReplaceToken(k) PROVE AccountsOK'
  <2>1. k \in 1..Len(linked) /\ granted + 1 \notin live
        /\ linked' = [linked EXCEPT ![k] = granted + 1]
        /\ live' = (live \cup {granted + 1}) \ {linked[k]} /\ granted' = granted + 1
    BY <1>3 DEF ReplaceToken, AccountsOK
  <2>2. linked[k] \in live /\ linked[k] # granted + 1
    BY <2>1 DEF AccountsOK
  <2>3. \A j \in 1..Len(linked) : linked'[j] \in live'
    BY <2>1, <2>2 DEF AccountsOK
  <2>4. linked' \in Seq(live') /\ DOMAIN linked' = DOMAIN linked
    <3>1. Len(linked) \in Nat /\ linked \in [1..Len(linked) -> live]
      BY DEF AccountsOK
    <3>2. linked' \in [1..Len(linked) -> live']
      BY <2>1, <2>3, <3>1
    <3> QED BY <3>1, <3>2
  <2>5. \A i, j \in DOMAIN linked' : linked'[i] = linked'[j] => i = j
    BY <2>1, <2>4 DEF AccountsOK
  <2>6. granted' \in 0..MaxTokens /\ live' \subseteq 1..granted'
    BY <1>3, <2>1, BoundsAssumption DEF ReplaceToken, AccountsOK
  <2> QED BY <2>4, <2>5, <2>6 DEF AccountsOK
<1>4. CASE UNCHANGED accounts
  BY <1>4 DEF AccountsOK, accounts
<1> QED
  BY <1>1, <1>2, <1>3, <1>4
  DEF Next, vars, accounts, Restart, OpenIssue, Create, Begin, Step, Find, Scan, Look,
      Resolve, Settle, Use

\* The requests: a store a request has built is one of those that were built.
RequestsOK ==
  /\ req \in [Requests -> [at : Steps, task : Tasks \cup {None}, new : BOOLEAN,
                           store : {None, Primary} \cup DOMAIN built]]
  /\ \A r \in Requests : req[r].store # None <=> req[r].at \in {"scan", "settle", "use"}
  /\ \A r \in Requests : req[r].at = "settle" => req[r].store \in DOMAIN built

\* The registered store and the stores that were built.
StoresOK ==
  /\ place \in [Tasks -> {None, Primary, "platform"}]
  /\ built \in Seq(Tokens) /\ Len(built) <= MaxStores
  /\ cached \in {None} \cup DOMAIN built /\ open \subseteq DOMAIN built
  /\ relied \subseteq Requests /\ restarts \in 0..MaxRestarts

\* The three parts give the type invariant.
LEMMA TypeParts == AccountsOK /\ RequestsOK /\ StoresOK => TypeOK
  BY DEF AccountsOK, RequestsOK, StoresOK, TypeOK

\* Store numbers are neither None nor Primary.
LEMMA StoreNames ==
    ASSUME StoresOK
    PROVE  /\ Len(built) \in Nat /\ DOMAIN built = 1..Len(built)
           /\ None \notin DOMAIN built /\ Primary \notin DOMAIN built
  BY NamesAssumption, BoundsAssumption DEF StoresOK, Stores

\* A request that goes on with a store, or with none.
LEMMA MoveOK ==
    ASSUME RequestsOK, NEW r \in Requests, NEW at \in Steps,
           NEW s \in {None, Primary} \cup DOMAIN built',
           DOMAIN built \subseteq DOMAIN built',
           s # None <=> at \in {"scan", "settle", "use"},
           at = "settle" => s \in DOMAIN built',
           Goes(r, at, s)
    PROVE  RequestsOK'
<1> DEFINE new == [req[r] EXCEPT !.at = at, !.store = s]
<1>1. req' = [req EXCEPT ![r] = new]
  BY DEF Goes
<1>2. /\ new \in [at : Steps, task : Tasks \cup {None}, new : BOOLEAN,
                  store : {None, Primary} \cup DOMAIN built']
      /\ new.at = at /\ new.store = s
  BY DEF RequestsOK
<1>3. \A q \in Requests :
        /\ req[q] \in [at : Steps, task : Tasks \cup {None}, new : BOOLEAN,
                       store : {None, Primary} \cup DOMAIN built']
        /\ req'[q] = IF q = r THEN new ELSE req[q]
  BY <1>1 DEF RequestsOK
<1>4. req' \in [Requests -> [at : Steps, task : Tasks \cup {None}, new : BOOLEAN,
                             store : {None, Primary} \cup DOMAIN built']]
  <2> HIDE DEF new
  <2> QED BY <1>1, <1>2, <1>3 DEF RequestsOK
<1> HIDE DEF new
<1> QED BY <1>2, <1>3, <1>4 DEF RequestsOK

\* The same of a request that is answered.
LEMMA AnswerOK ==
    ASSUME RequestsOK, UNCHANGED built, NEW r \in Requests,
           NEW how \in {"found", "missing", "failed"}, Answers(r, how)
    PROVE  RequestsOK'
<1>1. Goes(r, how, None)
  BY DEF Answers, Goes, RequestsOK
<1> QED BY <1>1, MoveOK DEF Steps

\* At the start no request is in progress and no store is built.
LEMMA RequestsInit == Init => RequestsOK /\ StoresOK
  BY BoundsAssumption DEF Init, RequestsOK, StoresOK, NoRequest, Steps

\* Requests and restarts keep the requests and the stores typed.
LEMMA RequestsStep ==
    AccountsOK /\ RequestsOK /\ StoresOK /\ [Next]_vars => RequestsOK' /\ StoresOK'
<1> SUFFICES ASSUME AccountsOK, RequestsOK, StoresOK, [Next]_vars
             PROVE  RequestsOK' /\ StoresOK'
  OBVIOUS
<1> USE NamesAssumption, StoreNames
<1>1. CASE Link \/ \E k \in DOMAIN linked : Unlink(k) \/ ReplaceToken(k)
  BY <1>1 DEF Link, Unlink, ReplaceToken, RequestsOK, StoresOK, routing
<1>2. ASSUME NEW t \in Tasks, OpenIssue(t) PROVE RequestsOK' /\ StoresOK'
  BY <1>2 DEF OpenIssue, RequestsOK, StoresOK, routing
<1>3. ASSUME NEW r \in Requests, NEW t \in Tasks, Create(r, t) \/ Begin(r, t)
      PROVE  RequestsOK' /\ StoresOK'
  <2>1. UNCHANGED routing /\ StoresOK'
    <3>1. relied' \subseteq Requests
      BY <1>3 DEF Create, Begin, StoresOK
    <3> QED BY <1>3, <3>1 DEF Create, Begin, StoresOK, routing
  <2>2. \E at \in {"look", "find"}, new \in BOOLEAN :
          req' = [req EXCEPT ![r] = [at |-> at, task |-> t, new |-> new, store |-> None]]
    BY <1>3 DEF Create, Begin
  <2> QED BY <2>1, <2>2 DEF RequestsOK, routing, Steps
<1>4. ASSUME NEW r \in Requests, Find(r) PROVE RequestsOK' /\ StoresOK'
  <2>1. StoresOK' /\ UNCHANGED built
    BY <1>4 DEF Find, StoresOK, routing
  <2>2. CASE Goes(r, "look", None)
    BY <2>1, <2>2, MoveOK DEF Steps
  <2>3. CASE cached # None /\ Goes(r, "scan", cached)
    BY <2>1, <2>3, MoveOK DEF Steps, StoresOK
  <2>4. CASE Answers(r, "missing")
    BY <2>1, <2>4, AnswerOK
  <2> QED BY <1>4, <2>1, <2>2, <2>3, <2>4 DEF Find
<1>5. ASSUME NEW r \in Requests, Scan(r) PROVE RequestsOK' /\ StoresOK'
  <2>1. StoresOK' /\ UNCHANGED built
    BY <1>5 DEF Scan, StoresOK, routing
  <2>2. CASE Goes(r, "look", None)
    BY <2>1, <2>2, MoveOK DEF Steps
  <2>3. CASE Answers(r, "missing")
    BY <2>1, <2>3, AnswerOK
  <2> QED BY <1>5, <2>1, <2>2, <2>3 DEF Scan
<1>6. ASSUME NEW r \in Requests, Look(r) PROVE RequestsOK' /\ StoresOK'
  <2>1. StoresOK' /\ UNCHANGED built
    BY <1>6 DEF Look, StoresOK, routing
  <2>2. CASE cached # None /\ Goes(r, "use", cached)
    BY <2>1, <2>2, MoveOK DEF Steps, StoresOK
  <2>3. CASE Goes(r, "resolve", None)
    BY <2>1, <2>3, MoveOK DEF Steps
  <2> QED BY <1>6, <2>1, <2>2, <2>3 DEF Look
<1>7. ASSUME NEW r \in Requests, Resolve(r) PROVE RequestsOK' /\ StoresOK'
  <2>1. CASE Goes(r, "use", Primary) /\ UNCHANGED <<built, open>>
    <3>1. RequestsOK'
      BY <2>1, MoveOK DEF Steps
    <3> QED BY <1>7, <2>1, <3>1 DEF Resolve, StoresOK
  <2>2. CASE /\ linked # <<>> /\ Len(built) + 1 \in Stores
             /\ built' = Append(built, Head(linked))
             /\ open' = open \cup {Len(built) + 1}
             /\ Goes(r, "settle", Len(built) + 1)
    <3>1. Head(linked) \in Tokens
      <4>1. linked \in Seq(live) /\ live \subseteq 1..granted /\ granted \in 0..MaxTokens
        BY DEF AccountsOK
      <4>2. Head(linked) \in live
        BY <2>2, <4>1
      <4>3. 1..granted \subseteq Tokens
        BY <4>1, BoundsAssumption DEF Tokens
      <4> QED BY <4>1, <4>2, <4>3
    <3>2. /\ built' \in Seq(Tokens) /\ Len(built') = Len(built) + 1
          /\ Len(built') <= MaxStores /\ DOMAIN built' = 1..(Len(built) + 1)
      BY <2>2, <3>1, BoundsAssumption DEF StoresOK, Stores
    <3>3. RequestsOK'
      BY <2>2, <3>2, MoveOK DEF Steps
    <3> QED BY <1>7, <2>2, <3>2, <3>3 DEF Resolve, StoresOK
  <2> QED BY <1>7, <2>1, <2>2 DEF Resolve
<1>8. ASSUME NEW r \in Requests, Settle(r) PROVE RequestsOK' /\ StoresOK'
  <2>1. UNCHANGED <<place, built, restarts, relied>> /\ req[r].store \in DOMAIN built
    BY <1>8 DEF Settle, RequestsOK
  <2>2. CASE /\ cached # None /\ UNCHANGED cached /\ Goes(r, "use", cached)
             /\ open' = open \ {req[r].store}
    <3>1. RequestsOK'
      BY <2>1, <2>2, MoveOK DEF Steps, StoresOK
    <3> QED BY <2>1, <2>2, <3>1 DEF StoresOK
  <2>3. CASE cached' = req[r].store /\ Goes(r, "use", cached') /\ UNCHANGED open
    <3>1. Goes(r, "use", req[r].store)
      BY <2>3 DEF Goes
    <3>2. RequestsOK'
      BY <2>1, <3>1, MoveOK DEF Steps
    <3> QED BY <2>1, <2>3, <3>2 DEF StoresOK
  <2> QED BY <1>8, <2>2, <2>3 DEF Settle
<1>9. ASSUME NEW r \in Requests, Use(r) PROVE RequestsOK' /\ StoresOK'
  <2>1. UNCHANGED built /\ StoresOK'
    BY <1>9 DEF Use, StoresOK, routing
  <2>2. \E how \in {"found", "missing", "failed"} : Answers(r, how)
    BY <1>9 DEF Use
  <2> QED BY <2>1, <2>2, AnswerOK
<1>10. CASE Restart
  BY <1>10, BoundsAssumption DEF Restart, RequestsOK, StoresOK, NoRequest, Steps
<1>11. CASE UNCHANGED vars
  BY <1>11 DEF vars, RequestsOK, StoresOK
<1> QED
  BY <1>1, <1>2, <1>3, <1>4, <1>5, <1>6, <1>7, <1>8, <1>9, <1>10, <1>11 DEF Next, Step

\* The rows hold different, working tokens and the requests are where their
\* store says, whatever is linked, replaced, resolved or restarted.
THEOREM TypeCorrect == Spec => []TypeOK
<1>1. Init => AccountsOK /\ RequestsOK /\ StoresOK
  BY AccountsInit, RequestsInit
<1>2. AccountsOK /\ RequestsOK /\ StoresOK /\ [Next]_vars
      => AccountsOK' /\ RequestsOK' /\ StoresOK'
  BY AccountsStep, RequestsStep
<1>3. AccountsOK /\ RequestsOK /\ StoresOK => TypeOK
  BY TypeParts
<1> QED BY <1>1, <1>2, <1>3, PTL DEF Spec

-----------------------------------------------------------------------------
(* One store *)

Types == AccountsOK /\ RequestsOK /\ StoresOK

\* The three parts are inductive.
LEMMA TypesHold == Spec => []Types
<1>1. Init => Types
  BY AccountsInit, RequestsInit DEF Types
<1>2. Types /\ [Next]_vars => Types'
  BY AccountsStep, RequestsStep DEF Types
<1> QED BY <1>1, <1>2, PTL DEF Spec

\* What makes OneStore inductive: a store that is built and not yet registered
\* belongs to one request and is not the registered one.
Exclusive ==
  /\ \A r, q \in Requests :
       req[r].at = "settle" /\ req[q].at = "settle" /\ r # q => req[r].store # req[q].store
  /\ \A r \in Requests : req[r].at = "settle" => req[r].store # cached

\* A step of one request that neither builds nor registers a store.
LEMMA MoveKeepsOneStore ==
    ASSUME Types, OneStore, Exclusive, UNCHANGED routing, NEW r \in Requests,
           req[r].at # "settle", NEW new,
           new.at # "settle", new.at \in {"scan", "use"} => new.store \in {cached, Primary},
           req' = [req EXCEPT ![r] = new]
    PROVE  OneStore' /\ Exclusive'
<1>1. \A q \in Requests : req'[q] = IF q = r THEN new ELSE req[q]
  BY DEF Types, RequestsOK
<1>2. {q \in Requests : req'[q].at = "settle"} = {q \in Requests : req[q].at = "settle"}
  BY <1>1
<1>3. {req'[q].store : q \in {x \in Requests : req'[x].at = "settle"}}
      = {req[q].store : q \in {x \in Requests : req[x].at = "settle"}}
  BY <1>1, <1>2
<1>4. UNCHANGED <<cached, built, open>>
  BY DEF routing
<1> QED BY <1>1, <1>3, <1>4 DEF OneStore, Exclusive

\* At the start there is no store.
LEMMA OneStoreInit == Init => OneStore /\ Exclusive
<1> SUFFICES ASSUME Init PROVE OneStore /\ Exclusive
  OBVIOUS
<1>1. \A r \in Requests : req[r].at = "idle"
  BY DEF Init, NoRequest
<1>2. {q \in Requests : req[q].at = "settle"} = {}
  BY <1>1
<1>3. {req[r].store : r \in {q \in Requests : req[q].at = "settle"}} = {}
  BY <1>2
<1>4. open = {} /\ cached = None
  BY DEF Init
<1>5. open = {req[r].store : r \in {q \in Requests : req[q].at = "settle"}}
             \cup ({cached} \ {None})
  BY <1>3, <1>4
<1>6. \A r \in Requests : req[r].at \notin {"scan", "use", "settle"}
  BY <1>1
<1>7. OneStore
  BY <1>5, <1>6 DEF OneStore
<1>8. Exclusive
  BY <1>6 DEF Exclusive
<1> QED BY <1>7, <1>8

\* A step after which request r has built store n, and no other changed.
LEMMA BuildKeepsOneStore ==
    ASSUME Types, OneStore, Exclusive, NEW r \in Requests, NEW n,
           n = Len(built) + 1, n \in Stores, req[r].at = "resolve",
           UNCHANGED cached, open' = open \cup {n},
           req'[r].at = "settle", req'[r].store = n,
           \A q \in Requests : q # r => req'[q] = req[q]
    PROVE  OneStore' /\ Exclusive'
<1>1. n # None /\ n # Primary /\ n \notin DOMAIN built
  BY NamesAssumption DEF Types, StoresOK
<1>2. n # cached /\ \A q \in Requests : req[q].at = "settle" => req[q].store # n
  BY <1>1 DEF Types, StoresOK, RequestsOK
<1>3. \A s : s \in {req'[x].store : x \in {q \in Requests : req'[q].at = "settle"}}
             <=> (s = n \/ s \in {req[x].store : x \in {q \in Requests : req[q].at = "settle"}})
  <2>1. ASSUME NEW x \in Requests, req[x].at = "settle"
        PROVE  x # r /\ req'[x].at = "settle" /\ req'[x].store = req[x].store
    BY <2>1
  <2>2. ASSUME NEW x \in Requests, req'[x].at = "settle"
        PROVE  x = r \/ (req[x].at = "settle" /\ req'[x].store = req[x].store)
    BY <2>2
  <2> QED BY <2>1, <2>2
<1>4. open' = {req'[x].store : x \in {q \in Requests : req'[q].at = "settle"}}
              \cup ({cached'} \ {None})
  <2>1. open = {req[x].store : x \in {q \in Requests : req[q].at = "settle"}}
               \cup ({cached} \ {None})
    BY DEF OneStore
  <2> QED BY <1>3, <2>1
<1>5. \A q \in Requests :
        req'[q].at \in {"scan", "use"} => req'[q].store \in {cached', Primary}
  BY DEF OneStore
<1>6. Exclusive'
  BY <1>2 DEF Exclusive
<1> QED BY <1>4, <1>5, <1>6 DEF OneStore

\* A step after which the store request r built is registered or closed.
LEMMA SettleKeepsOneStore ==
    ASSUME Types, OneStore, Exclusive, NEW r \in Requests, req[r].at = "settle",
           cached' = (IF cached # None THEN cached ELSE req[r].store),
           open' = (IF cached # None THEN open \ {req[r].store} ELSE open),
           req'[r].at = "use", req'[r].store = cached',
           \A q \in Requests : q # r => req'[q] = req[q]
    PROVE  OneStore' /\ Exclusive'
<1> DEFINE mine == req[r].store
           owned == {req[x].store : x \in {q \in Requests : req[q].at = "settle"}}
           owned2 == {req'[x].store : x \in {q \in Requests : req'[q].at = "settle"}}
<1>1. mine # cached /\ \A q \in Requests : q # r /\ req[q].at = "settle" => req[q].store # mine
  BY DEF Exclusive
<1>2. mine \in DOMAIN built /\ mine # None
  BY NamesAssumption, StoreNames DEF Types, RequestsOK, StoresOK
<1>3. \A s : s \in owned2 <=> s \in owned /\ s # mine
  <2>1. ASSUME NEW x \in Requests, req'[x].at = "settle"
        PROVE  x # r /\ req[x].at = "settle" /\ req'[x].store = req[x].store /\ req[x].store # mine
    BY <1>1, <2>1
  <2>2. ASSUME NEW x \in Requests, req[x].at = "settle", req[x].store # mine
        PROVE  req'[x].at = "settle" /\ req'[x].store = req[x].store
    BY <2>2
  <2> QED BY <2>1, <2>2
<1>4. mine \in owned
  OBVIOUS
<1>5. open = owned \cup ({cached} \ {None})
  BY DEF OneStore
<1> HIDE DEF mine, owned, owned2
<1>6. open' = owned2 \cup ({cached'} \ {None})
  <2>1. CASE cached # None
    BY <1>1, <1>3, <1>5, <2>1 DEF mine
  <2>2. CASE cached = None
    BY <1>2, <1>3, <1>4, <1>5, <2>2 DEF mine
  <2> QED BY <2>1, <2>2
<1>7. \A q \in Requests :
        req'[q].at \in {"scan", "use"} => req'[q].store \in {cached', Primary}
  <2>1. ASSUME NEW q \in Requests, q # r, req[q].at \in {"scan", "use"}
        PROVE  req[q].store \in {cached', Primary}
    <3>1. req[q].store \in {cached, Primary} /\ req[q].store # None
      BY <2>1 DEF OneStore, Types, RequestsOK
    <3> QED BY <3>1
  <2> QED BY <2>1
<1>8. Exclusive'
  <2>1. ASSUME NEW q \in Requests, req'[q].at = "settle"
        PROVE  q # r /\ req[q].at = "settle" /\ req'[q] = req[q] /\ req[q].store # cached'
    BY <1>1, <2>1 DEF Exclusive, mine
  <2>2. \A q \in Requests : req'[q].at = "settle" => req'[q].store # cached'
    BY <2>1
  <2>3. ASSUME NEW p \in Requests, NEW q \in Requests, req'[p].at = "settle",
               req'[q].at = "settle", req'[p].store = req'[q].store
        PROVE  p = q
    BY <2>1, <2>3 DEF Exclusive
  <2> QED BY <2>2, <2>3 DEF Exclusive
<1> QED BY <1>6, <1>7, <1>8 DEF OneStore, owned2

\* Every step of every request keeps one store and keeps settling exclusive.
LEMMA OneStoreStep == Types /\ OneStore /\ Exclusive /\ [Next]_vars => OneStore' /\ Exclusive'
<1> SUFFICES ASSUME Types, OneStore, Exclusive, [Next]_vars
             PROVE  OneStore' /\ Exclusive'
  OBVIOUS
<1> USE NamesAssumption, StoreNames
<1>1. CASE UNCHANGED <<routing, req>>
  BY <1>1 DEF OneStore, Exclusive, routing
<1>2. ASSUME NEW r \in Requests, NEW t \in Tasks, Create(r, t) \/ Begin(r, t)
      PROVE  OneStore' /\ Exclusive'
  <2>1. \E at \in {"look", "find"}, new \in BOOLEAN :
          req' = [req EXCEPT ![r] = [at |-> at, task |-> t, new |-> new, store |-> None]]
    BY <1>2 DEF Create, Begin
  <2>2. UNCHANGED routing /\ req[r].at # "settle"
    BY <1>2 DEF Create, Begin, Answered
  <2> QED BY <2>1, <2>2, MoveKeepsOneStore
<1>3. ASSUME NEW r \in Requests, Find(r) \/ Scan(r) \/ Look(r) \/ Use(r)
      PROVE  OneStore' /\ Exclusive'
  <2>1. UNCHANGED routing /\ req[r].at # "settle"
    BY <1>3 DEF Find, Scan, Look, Use
  <2>2. \E at \in {"look", "resolve", "scan", "use", "found", "missing", "failed"},
           s \in {None, cached} :
          /\ at \in {"scan", "use"} => s = cached
          /\ req' = [req EXCEPT ![r] = [req[r] EXCEPT !.at = at, !.store = s]]
    <3>1. ASSUME NEW at, NEW s, Goes(r, at, s)
          PROVE  req' = [req EXCEPT ![r] = [req[r] EXCEPT !.at = at, !.store = s]]
      BY <3>1 DEF Goes
    <3>2. CASE Find(r)
      BY <3>1, <3>2 DEF Find, Answers
    <3>3. CASE Scan(r)
      BY <3>1, <3>3 DEF Scan, Answers
    <3>4. CASE Look(r)
      BY <3>1, <3>4 DEF Look, Answers
    <3>5. CASE Use(r)
      BY <3>5 DEF Use, Answers
    <3> QED BY <1>3, <3>2, <3>3, <3>4, <3>5
  <2>3. PICK at \in {"look", "resolve", "scan", "use", "found", "missing", "failed"},
             s \in {None, cached} :
          /\ at \in {"scan", "use"} => s = cached
          /\ req' = [req EXCEPT ![r] = [req[r] EXCEPT !.at = at, !.store = s]]
    BY <2>2
  <2> DEFINE new == [req[r] EXCEPT !.at = at, !.store = s]
  <2>4. new.at = at /\ new.store = s
    BY DEF Types, RequestsOK
  <2> HIDE DEF new
  <2> QED BY <2>1, <2>3, <2>4, MoveKeepsOneStore DEF new
<1>4. ASSUME NEW r \in Requests, Resolve(r) PROVE OneStore' /\ Exclusive'
  <2>1. CASE Goes(r, "use", Primary) /\ UNCHANGED <<built, open>>
    <3> DEFINE new == [req[r] EXCEPT !.at = "use", !.store = Primary]
    <3>1. /\ req' = [req EXCEPT ![r] = new] /\ new.at = "use" /\ new.store = Primary
      BY <2>1 DEF Goes, Types, RequestsOK
    <3>2. UNCHANGED routing /\ req[r].at # "settle"
      BY <1>4, <2>1 DEF Resolve, routing
    <3> HIDE DEF new
    <3> QED BY <3>1, <3>2, MoveKeepsOneStore
  <2>2. CASE /\ Len(built) + 1 \in Stores /\ open' = open \cup {Len(built) + 1}
             /\ Goes(r, "settle", Len(built) + 1)
    <3>1. req[r].at = "resolve" /\ UNCHANGED cached
      BY <1>4 DEF Resolve
    <3>2. req'[r].at = "settle" /\ req'[r].store = Len(built) + 1
      BY <2>2 DEF Goes, Types, RequestsOK
    <3>3. \A q \in Requests : q # r => req'[q] = req[q]
      BY <2>2 DEF Goes, Types, RequestsOK
    <3> QED BY <2>2, <3>1, <3>2, <3>3, BuildKeepsOneStore
  <2> QED BY <1>4, <2>1, <2>2 DEF Resolve
<1>5. ASSUME NEW r \in Requests, Settle(r) PROVE OneStore' /\ Exclusive'
  <2>1. /\ req[r].at = "settle"
        /\ cached' = IF cached # None THEN cached ELSE req[r].store
    BY <1>5 DEF Settle
  <2>2. open' = IF cached # None THEN open \ {req[r].store} ELSE open
    BY <1>5 DEF Settle
  <2>3. Goes(r, "use", cached')
    BY <1>5 DEF Settle
  <2>4. req'[r].at = "use" /\ req'[r].store = cached'
    BY <2>3 DEF Goes, Types, RequestsOK
  <2>5. \A q \in Requests : q # r => req'[q] = req[q]
    BY <2>3 DEF Goes, Types, RequestsOK
  <2> QED BY <2>1, <2>2, <2>4, <2>5, SettleKeepsOneStore
<1>6. CASE Restart
  <2>1. \A r \in Requests : req'[r].at = "idle"
    BY <1>6 DEF Restart, NoRequest
  <2>2. {q \in Requests : req'[q].at = "settle"} = {}
    BY <2>1
  <2>3. {req'[r].store : r \in {q \in Requests : req'[q].at = "settle"}} = {}
    BY <2>2
  <2>4. open' = {} /\ cached' = None
    BY <1>6 DEF Restart
  <2>5. open' = {req'[r].store : r \in {q \in Requests : req'[q].at = "settle"}}
                \cup ({cached'} \ {None})
    BY <2>3, <2>4
  <2>6. \A r \in Requests : req'[r].at \notin {"scan", "use", "settle"}
    BY <2>1
  <2>7. OneStore'
    BY <2>5, <2>6 DEF OneStore
  <2>8. Exclusive'
    BY <2>6 DEF Exclusive
  <2> QED BY <2>7, <2>8
<1> QED
  BY <1>1, <1>2, <1>3, <1>4, <1>5, <1>6
  DEF Next, Step, vars, routing, Link, Unlink, ReplaceToken, OpenIssue

\* Whichever requests resolve the collection at once, and however many, one
\* store is registered, every other one is closed and nobody uses a closed one.
THEOREM OneStoreHolds == Spec => []OneStore
<1>1. Init => OneStore /\ Exclusive
  BY OneStoreInit
<1>2. Types /\ OneStore /\ Exclusive /\ [Next]_vars => OneStore' /\ Exclusive'
  BY OneStoreStep
<1> QED BY <1>1, <1>2, TypesHold, PTL DEF Spec

----------------------------------------------------------------------------
(* What the registered store can read is found *)

\* A request that relies on the registered store goes to that store: its task
\* is the platform's, and the store's token is accepted, until it is answered.
Relies(r) ==
  /\ cached # None /\ Works(cached)
  /\ req[r].task \in Tasks /\ place[req[r].task] = "platform"
  /\ ~req[r].new /\ req[r].at \in {"find", "scan", "look", "use", "found"}
  /\ req[r].at \in {"scan", "use"} => req[r].store = cached

\* The id a creation is about to give is nobody's until it is answered.
Fresh(r) == req[r].new /\ ~Answered(r) => req[r].task \in Tasks /\ place[req[r].task] = None

Apart(r, q) ==
  req[r].new /\ ~Answered(r) /\ req[q].new /\ ~Answered(q) => req[r].task # req[q].task

RelyInv ==
  /\ \A r \in relied : Relies(r)
  /\ \A r \in Requests : Fresh(r)
  /\ \A r, q \in Requests : r # q => Apart(r, q)

\* At the start nobody relies on the registered store.
LEMMA RelyInit == Init => RelyInv
  BY DEF Init, RelyInv, Fresh, Apart, NoRequest

\* The registered store is one of those that were built.
LEMMA CachedIsStore ==
    ASSUME Types, cached # None
    PROVE  cached \in DOMAIN built /\ cached \in Stores /\ cached # Primary
<1>1. StoresOK
  BY DEF Types
<1>2. cached \in DOMAIN built /\ DOMAIN built = 1..Len(built) /\ Len(built) \in Nat
  BY <1>1, StoreNames DEF StoresOK
<1>3. Len(built) <= MaxStores
  BY <1>1 DEF StoresOK
<1> QED BY <1>1, <1>2, <1>3, StoreNames, BoundsAssumption DEF Stores

\* A request in progress goes to its next step; nothing else changes but the
\* stores nobody has registered.
LEMMA MoveKeepsRely ==
    ASSUME Types, RelyInv, NEW r \in Requests, NEW at \in Steps, NEW s, ~Answered(r),
           req' = [req EXCEPT ![r] = [req[r] EXCEPT !.at = at, !.store = s]],
           r \in relied => /\ at \in {"find", "scan", "look", "use", "found"}
                           /\ at \in {"scan", "use"} => s = cached,
           cached # None => cached' = cached /\ built'[cached] = built[cached],
           UNCHANGED <<live, place, relied>>
    PROVE  RelyInv'
<1>1. \A q \in Requests : q # r => req'[q] = req[q]
  BY DEF Types, RequestsOK
<1>2. req'[r].at = at /\ req'[r].store = s /\ req'[r].task = req[r].task /\ req'[r].new = req[r].new
  BY DEF Types, RequestsOK
<1>3. relied \subseteq Requests
  BY DEF Types, StoresOK
<1>4. ASSUME NEW q \in relied PROVE Relies(q)'
  <2>1. Relies(q)
    BY DEF RelyInv
  <2>2. cached' # None /\ Works(cached)' /\ cached' = cached
    BY <2>1 DEF Relies, Works
  <2>3. CASE q # r
    <3>1. req'[q] = req[q]
      BY <1>1, <1>3, <2>3
    <3> QED BY <2>1, <2>2, <3>1 DEF Relies
  <2>4. CASE q = r
    <3>1. /\ at \in {"find", "scan", "look", "use", "found"} /\ (at \in {"scan", "use"} => s = cached)
          /\ req[r].task \in Tasks /\ place[req[r].task] = "platform" /\ ~req[r].new
      BY <2>1, <2>4 DEF Relies
    <3>2. place' = place
      OBVIOUS
    <3> QED BY <1>2, <2>2, <2>4, <3>1, <3>2 DEF Relies
  <2> QED BY <2>3, <2>4
<1>5. ASSUME NEW q \in Requests PROVE Fresh(q)'
  BY <1>1, <1>2 DEF RelyInv, Fresh, Answered
<1>6. ASSUME NEW q \in Requests, NEW x \in Requests, q # x PROVE Apart(q, x)'
  <2>1. Apart(q, x)
    BY <1>6 DEF RelyInv
  <2> QED BY <1>1, <1>2, <2>1 DEF Apart, Answered
<1> QED BY <1>4, <1>5, <1>6 DEF RelyInv

\* The account rows change: the token of the registered store stays accepted, or
\* nobody relies on it any more.
LEMMA AccountsKeepRely ==
    ASSUME Types, RelyInv, UNCHANGED <<place, routing, req>>,
           \/ relied' = {}
           \/ relied' = relied /\ (cached # None /\ built[cached] \in live => built[cached] \in live')
    PROVE  RelyInv'
<1>1. ASSUME NEW q \in relied' PROVE Relies(q)'
  <2>1. q \in relied /\ Relies(q)
    BY DEF RelyInv
  <2> QED BY <2>1 DEF Relies, Works, routing
<1>2. ASSUME NEW q \in Requests PROVE Fresh(q)'
  BY DEF RelyInv, Fresh, Answered
<1>3. ASSUME NEW q \in Requests, NEW x \in Requests, q # x PROVE Apart(q, x)'
  BY <1>3 DEF RelyInv, Apart, Answered
<1> QED BY <1>1, <1>2, <1>3 DEF RelyInv

\* A request begins with a task of its own.
LEMMA BeginKeepsRely ==
    ASSUME Types, RelyInv, NEW r \in Requests, NEW t \in Tasks, Create(r, t) \/ Begin(r, t)
    PROVE  RelyInv'
<1> USE DEF Types, RequestsOK
<1>1. \A q \in Requests : q # r => req'[q] = req[q]
  BY DEF Create, Begin
<1>2. UNCHANGED <<live, place, cached, built>> /\ relied \subseteq Requests
  BY DEF Create, Begin, accounts, routing, StoresOK
<1>3. CASE Create(r, t)
  <2>1. /\ req'[r] = [at |-> "look", task |-> t, new |-> TRUE, store |-> None]
        /\ relied' = relied \ {r} /\ place[t] = None
        /\ \A q \in Requests : Answered(q) \/ req[q].task # t
    BY <1>3 DEF Create, Unused
  <2>2. ASSUME NEW q \in relied' PROVE Relies(q)'
    <3>1. q \in relied /\ q # r /\ q \in Requests
      BY <1>2, <2>1
    <3>2. Relies(q) /\ req'[q] = req[q]
      BY <1>1, <3>1 DEF RelyInv
    <3> QED BY <1>2, <3>2 DEF Relies, Works
  <2>3. ASSUME NEW q \in Requests PROVE Fresh(q)'
    BY <1>1, <1>2, <2>1 DEF RelyInv, Fresh, Answered
  <2>4. ASSUME NEW q \in Requests, NEW x \in Requests, q # x PROVE Apart(q, x)'
    <3>1. Apart(q, x)
      BY <2>4 DEF RelyInv
    <3> QED BY <1>1, <2>1, <2>4, <3>1 DEF Apart, Answered
  <2> QED BY <2>2, <2>3, <2>4 DEF RelyInv
<1>4. CASE Begin(r, t)
  <2>1. /\ req'[r] = [at |-> "find", task |-> t, new |-> FALSE, store |-> None]
        /\ relied' = IF cached # None /\ Has(cached, t) THEN relied \cup {r} ELSE relied \ {r}
    BY <1>4 DEF Begin
  <2>2. ASSUME NEW q \in relied' PROVE Relies(q)'
    <3>1. CASE q # r
      <4>1. q \in relied /\ q \in Requests
        BY <1>2, <2>1, <3>1
      <4>2. Relies(q) /\ req'[q] = req[q]
        BY <1>1, <3>1, <4>1 DEF RelyInv
      <4> QED BY <1>2, <4>2 DEF Relies, Works
    <3>2. CASE q = r
      <4>1. cached # None /\ Has(cached, t)
        BY <2>1, <3>2
      <4>2. Works(cached) /\ place[t] = "platform"
        BY <4>1, CachedIsStore DEF Has
      <4> QED BY <1>2, <2>1, <3>2, <4>1, <4>2 DEF Relies, Works
    <3> QED BY <3>1, <3>2
  <2>3. ASSUME NEW q \in Requests PROVE Fresh(q)'
    BY <1>1, <1>2, <2>1 DEF RelyInv, Fresh, Answered
  <2>4. ASSUME NEW q \in Requests, NEW x \in Requests, q # x PROVE Apart(q, x)'
    <3>1. Apart(q, x)
      BY <2>4 DEF RelyInv
    <3> QED BY <1>1, <2>1, <3>1 DEF Apart, Answered
  <2> QED BY <2>2, <2>3, <2>4 DEF RelyInv
<1> QED BY <1>3, <1>4

\* A creation places its own task only, which nobody relies on.
LEMMA UseKeepsRely ==
    ASSUME Types, RelyInv, NEW r \in Requests, Use(r)
    PROVE  RelyInv'
<1> DEFINE t == req[r].task
<1>1. /\ req[r].at = "use" /\ UNCHANGED <<live, cached, built, relied>>
      /\ relied \subseteq Requests
  BY DEF Use, accounts, routing, Types, StoresOK
<1>2. PICK at \in {"found", "missing", "failed"} : Answers(r, at)
  BY DEF Use
<1>3. /\ req' = [req EXCEPT ![r] = [req[r] EXCEPT !.at = at, !.store = None]]
      /\ req'[r].at = at /\ req'[r].task = t /\ req'[r].new = req[r].new
      /\ \A q \in Requests : q # r => req'[q] = req[q]
  BY <1>2 DEF Answers, Types, RequestsOK
<1>4. CASE ~req[r].new
  <2>1. place' = place /\ Answers(r, IF Has(req[r].store, t) THEN "found" ELSE "missing")
    BY <1>4 DEF Use
  <2>2. r \in relied => at = "found"
    <3> SUFFICES ASSUME r \in relied PROVE at = "found"
      OBVIOUS
    <3>1. Relies(r) /\ req[r].store = cached
      BY <1>1 DEF RelyInv, Relies
    <3>2. Has(cached, t)
      BY <3>1, CachedIsStore DEF Relies, Has
    <3>3. Answers(r, "found")
      BY <2>1, <3>1, <3>2
    <3> QED BY <1>3, <3>3 DEF Answers, Types, RequestsOK
  <2>3. ~Answered(r) /\ at \in Steps
    BY <1>1 DEF Answered, Steps
  <2> QED BY <1>1, <1>3, <2>1, <2>2, <2>3, MoveKeepsRely
<1>5. CASE req[r].new
  <2>1. \A u \in Tasks : u # t => place'[u] = place[u]
    BY <1>5 DEF Use, Types, StoresOK
  <2>2. r \notin relied /\ place[t] = None /\ ~Answered(r)
    BY <1>1, <1>5 DEF RelyInv, Relies, Fresh, Answered
  <2>3. ASSUME NEW q \in relied PROVE Relies(q)'
    <3>1. Relies(q) /\ q \in Requests /\ req'[q] = req[q]
      BY <1>1, <1>3, <2>2 DEF RelyInv
    <3>2. req[q].task # t
      BY <2>2, <3>1, NamesAssumption DEF Relies
    <3>3. place'[req[q].task] = "platform"
      BY <2>1, <3>1, <3>2 DEF Relies
    <3> QED BY <1>1, <3>1, <3>3 DEF Relies, Works
  <2>4. ASSUME NEW q \in Requests PROVE Fresh(q)'
    <3> SUFFICES ASSUME req'[q].new, ~Answered(q)'
                 PROVE  req'[q].task \in Tasks /\ place'[req'[q].task] = None
      BY DEF Fresh
    <3>1. q # r
      BY <1>2, <1>3 DEF Answered
    <3>2. req'[q] = req[q]
      BY <1>3, <3>1
    <3>3. req[q].new /\ ~Answered(q)
      BY <3>2 DEF Answered
    <3>4. req[q].task # t /\ place[req[q].task] = None
      BY <1>5, <2>2, <3>1, <3>3 DEF RelyInv, Fresh, Apart
    <3>5. req[q].task \in Tasks
      BY <3>3 DEF RelyInv, Fresh
    <3> QED BY <2>1, <3>2, <3>4, <3>5
  <2>5. ASSUME NEW q \in Requests, NEW x \in Requests, q # x PROVE Apart(q, x)'
    <3>1. Apart(q, x)
      BY <2>5 DEF RelyInv
    <3> QED BY <1>2, <1>3, <3>1 DEF Apart, Answered
  <2> QED BY <1>1, <2>3, <2>4, <2>5 DEF RelyInv
<1> QED BY <1>4, <1>5

\* A request that relies on the registered store goes on having one.
LEMMA RelyStep == Types /\ RelyInv /\ [Next]_vars => RelyInv'
<1> SUFFICES ASSUME Types, RelyInv, [Next]_vars PROVE RelyInv'
  OBVIOUS
<1>1. CASE UNCHANGED vars
  <2>1. UNCHANGED <<place, routing, req, relied, live>>
    BY <1>1 DEF vars, routing, accounts
  <2> QED BY <2>1, AccountsKeepRely
<1>2. CASE Link
  <2>1. UNCHANGED <<place, routing, req, relied>> /\ live \subseteq live'
    BY <1>2 DEF Link
  <2> QED BY <2>1, AccountsKeepRely
<1>3. ASSUME NEW k \in DOMAIN linked, Unlink(k) PROVE RelyInv'
  <2>1. UNCHANGED <<place, routing, req, relied, live>>
    BY <1>3 DEF Unlink
  <2> QED BY <2>1, AccountsKeepRely
<1>4. ASSUME NEW k \in DOMAIN linked, ReplaceToken(k) PROVE RelyInv'
  <2>1. /\ UNCHANGED <<place, routing, req>> /\ live' = (live \cup {granted + 1}) \ {linked[k]}
        /\ relied' = IF cached # None /\ built[cached] = linked[k] THEN {} ELSE relied
    BY <1>4 DEF ReplaceToken
  <2> QED BY <2>1, AccountsKeepRely
<1>5. ASSUME NEW t \in Tasks, OpenIssue(t) PROVE RelyInv'
  <2>1. /\ UNCHANGED <<live, cached, built, req, relied>> /\ Unused(t)
        /\ place' = [place EXCEPT ![t] = "platform"]
    BY <1>5 DEF OpenIssue, accounts, routing
  <2>2. place \in [Tasks -> {None, Primary, "platform"}]
    BY DEF Types, StoresOK
  <2>3. ASSUME NEW q \in relied PROVE Relies(q)'
    BY <2>1, <2>2 DEF RelyInv, Relies, Works
  <2>4. ASSUME NEW q \in Requests PROVE Fresh(q)'
    BY <2>1, <2>2 DEF RelyInv, Fresh, Answered, Unused
  <2>5. ASSUME NEW q \in Requests, NEW x \in Requests, q # x PROVE Apart(q, x)'
    BY <2>1, <2>5 DEF RelyInv, Apart, Answered
  <2> QED BY <2>1, <2>3, <2>4, <2>5 DEF RelyInv
<1>6. ASSUME NEW r \in Requests, Find(r) \/ Scan(r) \/ Look(r) PROVE RelyInv'
  <2>1. UNCHANGED <<live, place, cached, built, relied>> /\ ~Answered(r)
    BY <1>6 DEF Find, Scan, Look, accounts, routing, Answered
  <2>2. r \in relied => Relies(r)
    BY DEF RelyInv
  <2>3. \E at \in {"look", "scan", "use", "resolve", "missing"}, s \in {None, cached} :
          /\ req' = [req EXCEPT ![r] = [req[r] EXCEPT !.at = at, !.store = s]]
          /\ r \in relied => /\ at \in {"look", "scan", "use"}
                             /\ at \in {"scan", "use"} => s = cached
    <3>1. CASE Find(r)
      BY <2>2, <3>1 DEF Find, Goes, Answers, Relies
    <3>2. CASE Scan(r)
      <4>1. r \in relied => Has(req[r].store, req[r].task)
        BY <2>2, <3>2, CachedIsStore DEF Scan, Relies, Has
      <4> QED BY <3>2, <4>1 DEF Scan, Goes, Answers
    <3>3. CASE Look(r)
      BY <2>2, <3>3 DEF Look, Goes, Relies
    <3> QED BY <1>6, <3>1, <3>2, <3>3
  <2> QED BY <2>1, <2>3, MoveKeepsRely DEF Steps
<1>7. ASSUME NEW r \in Requests, Resolve(r) PROVE RelyInv'
  <2>1. UNCHANGED <<live, place, cached, relied>> /\ ~Answered(r) /\ req[r].at = "resolve"
    BY <1>7 DEF Resolve, accounts, Answered
  <2>2. r \notin relied
    BY <2>1 DEF RelyInv, Relies
  <2>3. cached # None => built'[cached] = built[cached]
    <3> SUFFICES ASSUME cached # None PROVE built'[cached] = built[cached]
      OBVIOUS
    <3>1. built' = built \/ built' = Append(built, Head(linked))
      BY <1>7 DEF Resolve
    <3>2. built \in Seq(Tokens) /\ cached \in DOMAIN built
      BY CachedIsStore DEF Types, StoresOK
    <3> QED BY <3>1, <3>2
  <2>4. \E at \in {"use", "settle"}, s \in {Primary, Len(built) + 1} :
          req' = [req EXCEPT ![r] = [req[r] EXCEPT !.at = at, !.store = s]]
    BY <1>7 DEF Resolve, Goes
  <2> QED BY <2>1, <2>2, <2>3, <2>4, MoveKeepsRely DEF Steps
<1>8. ASSUME NEW r \in Requests, Settle(r) PROVE RelyInv'
  <2>1. /\ UNCHANGED <<live, place, built, relied>> /\ ~Answered(r) /\ req[r].at = "settle"
        /\ cached # None => cached' = cached
    BY <1>8 DEF Settle, accounts, Answered
  <2>2. r \notin relied
    BY <2>1 DEF RelyInv, Relies
  <2>3. \E s \in {cached, cached'} :
          req' = [req EXCEPT ![r] = [req[r] EXCEPT !.at = "use", !.store = s]]
    BY <1>8 DEF Settle, Goes
  <2> QED BY <2>1, <2>2, <2>3, MoveKeepsRely DEF Steps
<1>9. CASE Restart
  <2>1. relied' = {} /\ \A q \in Requests : req'[q].at = "idle"
    BY <1>9 DEF Restart, NoRequest
  <2> QED BY <2>1 DEF RelyInv, Fresh, Apart, Answered
<1> QED
  BY <1>1, <1>2, <1>3, <1>4, <1>5, <1>6, <1>7, <1>8, <1>9, BeginKeepsRely, UseKeepsRely
  DEF Next, Step

\* A request for a task that the registered store can read finds it, whatever
\* any number of other requests, links, refreshes and creations do meanwhile:
\* the store is never replaced and a creation cannot take a task's place.
THEOREM RegisteredIsFound == Spec => []FoundOnceRegistered
<1>1. Spec => [](Types /\ RelyInv)
  BY TypesHold, RelyInit, RelyStep, PTL DEF Spec
<1>2. RelyInv => FoundOnceRegistered
  BY DEF RelyInv, Relies, FoundOnceRegistered
<1> QED BY <1>1, <1>2, PTL
=============================================================================
