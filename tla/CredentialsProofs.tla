-------------------------- MODULE CredentialsProofs --------------------------
(***************************************************************************)
(* The proof that the row of a linked account and the platform agree on    *)
(* the refresh token, whatever the two background jobs, the users, the     *)
(* network and restarts of the server do in between.                       *)
(***************************************************************************)
EXTENDS Credentials, FiniteSetTheorems, SequenceTheorems, TLAPS

\* What a job has to do of one account.
Work == [id : Accounts, token : Tokens \cup {None}]

\* The types of the variables the proof is about.
TypeInv ==
  /\ accounts \in [Accounts -> [status : {"absent", "active", "expired"},
                                token : Tokens \cup {None}]]
  /\ grant \in [Accounts -> Tokens \cup {None}]
  /\ issued \in Nat
  /\ refresher \in [at : {"wait", "next", "save"}, due : BOOLEAN, left : Int,
                    todo : Seq(Work), got : Tokens \cup {None}]
  /\ refresher.at # "wait" => refresher.todo # <<>>

\* The refresher has the platform's answer for account a in hand.
InHand(a) == refresher.at = "save" /\ Head(refresher.todo).id = a

\* What the refresher has in hand is the token the platform takes, also when
\* the row is gone meanwhile: a new row for the account needs a grant of its own.
AnswerInv ==
  \A a \in Accounts \ lost : InHand(a) => refresher.got = grant[a] /\ grant[a] \in Tokens

\* The row and the platform agree, or the answer that makes them agree is in hand.
RowInv ==
  \A a \in Accounts \ lost : There(a) => (accounts[a].token = grant[a] \/ InHand(a))

-----------------------------------------------------------------------------
(* Types *)

\* The platform's new token has the type of a token.
LEMMA IssueType ==
  ASSUME TypeInv, NEW a \in Accounts, Issue(a)
  PROVE  /\ issued' \in Nat /\ issued + 1 \in Tokens
         /\ grant' \in [Accounts -> Tokens \cup {None}]
<1>1. issued + 1 \in Tokens
  BY BoundsAssumption DEF TypeInv, Issue, Tokens
<1>. QED BY <1>1 DEF TypeInv, Issue

\* A listing is a sequence of rows.
LEMMA ListingType ==
  ASSUME TypeInv, NEW S \in SUBSET Accounts, NEW work \in Listings(S)
  PROVE  work \in Seq(Work)
<1>1. Cardinality(S) \in Nat
  BY AccountsAssumption, FS_Subset, FS_CardinalityType
<1>2. PICK f \in SetToSeqs(S) :
        work = [k \in DOMAIN f |-> [id |-> f[k], token |-> accounts[f[k]].token]]
  BY DEF Listings
<1>3. f \in [1..Cardinality(S) -> S]
  BY DEF SetToSeqs
<1>4. ASSUME NEW k \in 1..Cardinality(S)
      PROVE  [id |-> f[k], token |-> accounts[f[k]].token] \in Work
  BY <1>3, <1>4 DEF TypeInv, Work
<1>5. work \in [1..Cardinality(S) -> Work]
  BY <1>2, <1>3, <1>4
<1>. QED BY <1>1, <1>5

\* The account a refresher that is busy works on is one of the accounts.
LEMMA HeadType ==
  ASSUME TypeInv, refresher.at # "wait"
  PROVE  Head(refresher.todo).id \in Accounts
<1>1. Head(refresher.todo) \in Work
  BY DEF TypeInv
<1>. QED BY <1>1 DEF Work

\* Going on to the next account keeps the job's type and leaves no answer in hand.
LEMMA NextAccountType ==
  ASSUME TypeInv, refresher' = NextAccount(refresher)
  PROVE  /\ refresher' \in [at : {"wait", "next", "save"}, due : BOOLEAN, left : Int,
                             todo : Seq(Work), got : Tokens \cup {None}]
         /\ refresher'.at # "wait" => refresher'.todo # <<>>
         /\ refresher'.at # "save"
<1>1. refresher.todo \in Seq(Work)
  BY DEF TypeInv
<1>2. CASE Len(refresher.todo) <= 1
  <2>1. refresher' = [refresher EXCEPT !.at = "wait", !.todo = <<>>, !.got = None]
    BY <1>2 DEF NextAccount
  <2>2. <<>> \in Seq(Work)
    OBVIOUS
  <2>. QED BY <2>1, <2>2 DEF TypeInv
<1>3. CASE ~(Len(refresher.todo) <= 1)
  <2>1. refresher' = [refresher EXCEPT !.at = "next", !.todo = Tail(@), !.got = None]
    BY <1>3 DEF NextAccount
  <2>2. Len(refresher.todo) \in Nat /\ refresher.todo # <<>>
    BY <1>1, <1>3, EmptySeq, LenProperties
  <2>3. Tail(refresher.todo) \in Seq(Work) /\ Len(Tail(refresher.todo)) = Len(refresher.todo) - 1
    BY <1>1, <2>2, HeadTailProperties
  <2>4. Tail(refresher.todo) # <<>>
    BY <1>3, <2>2, <2>3, EmptySeq
  <2>. QED BY <2>1, <2>3, <2>4 DEF TypeInv
<1>. QED BY <1>2, <1>3

\* No job has begun, and no account is there.
LEMMA TypeInvInit == Init => TypeInv
<1>. SUFFICES ASSUME Init PROVE TypeInv
  OBVIOUS
<1>1. refresher \in [at : {"wait", "next", "save"}, due : BOOLEAN, left : Int,
                     todo : Seq(Work), got : Tokens \cup {None}]
  BY BoundsAssumption DEF Init, Resting
<1>2. refresher.at = "wait"
  BY DEF Init, Resting
<1>3. accounts \in [Accounts -> [status : {"absent", "active", "expired"},
                                 token : Tokens \cup {None}]]
  BY DEF Init
<1>. QED BY <1>1, <1>2, <1>3 DEF Init, TypeInv

\* Marking an account, or giving it a token, keeps the rows' type.
LEMMA RowType ==
  ASSUME TypeInv, NEW a, NEW s \in {"absent", "active", "expired"}, NEW t \in Tokens \cup {None}
  PROVE  /\ [accounts EXCEPT ![a] = [status |-> s, token |-> t]]
              \in [Accounts -> [status : {"absent", "active", "expired"}, token : Tokens \cup {None}]]
         /\ [accounts EXCEPT ![a].status = s]
              \in [Accounts -> [status : {"absent", "active", "expired"}, token : Tokens \cup {None}]]
         /\ [accounts EXCEPT ![a].token = t]
              \in [Accounts -> [status : {"absent", "active", "expired"}, token : Tokens \cup {None}]]
  BY DEF TypeInv

\* Every step keeps the types.
LEMMA TypeInvStep == TypeInv /\ [Next]_vars => TypeInv'
<1>. DEFINE Job == [at : {"wait", "next", "save"}, due : BOOLEAN, left : Int,
                    todo : Seq(Work), got : Tokens \cup {None}]
            Rows == [Accounts -> [status : {"absent", "active", "expired"},
                                  token : Tokens \cup {None}]]
<1>. SUFFICES ASSUME TypeInv, [Next]_vars PROVE TypeInv'
  OBVIOUS
<1>1. CASE Tick
  <2>1. refresher' \in Job /\ refresher'.at = refresher.at /\ refresher'.todo = refresher.todo
    <3>1. \/ refresher' = [refresher EXCEPT !.due = TRUE, !.left = Interval]
          \/ refresher' = [refresher EXCEPT !.left = @ - 1]
      BY <1>1 DEF Tick, Ticked
    <3>2. refresher \in Job /\ Interval \in Int
      BY BoundsAssumption DEF TypeInv
    <3>3. refresher.left - 1 \in Int
      BY <3>2
    <3>4. CASE refresher' = [refresher EXCEPT !.due = TRUE, !.left = Interval]
      BY <3>2, <3>4
    <3>5. CASE refresher' = [refresher EXCEPT !.left = @ - 1]
      BY <3>2, <3>3, <3>5
    <3>. QED BY <3>1, <3>4, <3>5
  <2>. QED BY <1>1, <2>1 DEF Tick, TypeInv
<1>2. CASE Restart
  <2>1. refresher' \in Job /\ refresher'.at = "wait"
    BY <1>2, BoundsAssumption DEF Restart, Resting
  <2>. QED BY <1>2, <2>1 DEF Restart, platform, TypeInv
<1>3. CASE RefreshAll
  <2>1. PICK work \in Listings({a \in Active : DueForRefresh(a)}) \cup {<<>>} :
             refresher' = Starts(refresher, work)
    BY <1>3 DEF RefreshAll
  <2>2. work \in Seq(Work)
    <3>1. <<>> \in Seq(Work) /\ {a \in Active : DueForRefresh(a)} \in SUBSET Accounts
      BY DEF Active
    <3>. QED BY <2>1, <3>1, ListingType
  <2>3. refresher' \in Job /\ (refresher'.at # "wait" => refresher'.todo # <<>>)
    BY <2>1, <2>2 DEF Starts, TypeInv
  <2>. QED BY <1>3, <2>3 DEF RefreshAll, platform, TypeInv
<1>4. CASE RefreshAnswered
  <2>1. Head(refresher.todo).id \in Accounts
    BY <1>4, HeadType DEF RefreshAnswered
  <2>2. Issue(Head(refresher.todo).id) /\ issued + 1 \in Tokens
    BY <1>4, <2>1, IssueType DEF RefreshAnswered
  <2>3. refresher' \in Job /\ refresher'.todo = refresher.todo /\ refresher.todo # <<>>
    BY <1>4, <2>2 DEF RefreshAnswered, TypeInv
  <2>. QED BY <1>4, <2>1, <2>2, <2>3, IssueType DEF RefreshAnswered, TypeInv
<1>5. CASE RefreshAnswerLost
  <2>1. Head(refresher.todo).id \in Accounts
    BY <1>5, HeadType DEF RefreshAnswerLost
  <2>. QED BY <1>5, <2>1, IssueType, NextAccountType DEF RefreshAnswerLost, TypeInv
<1>6. CASE RefreshTransient
  BY <1>6, NextAccountType DEF RefreshTransient, platform, TypeInv
<1>7. CASE RefreshRefused
  <2>1. accounts' \in Rows
    BY <1>7, RowType DEF RefreshRefused, TypeInv
  <2>. QED BY <1>7, <2>1, NextAccountType DEF RefreshRefused, platform, TypeInv
<1>8. CASE SaveRefreshed
  <2>1. accounts' \in Rows
    <3>1. refresher.got \in Tokens \cup {None} /\ accounts \in Rows
      BY DEF TypeInv
    <3>2. \/ accounts' = [accounts EXCEPT ![Head(refresher.todo).id].token = refresher.got]
          \/ accounts' = accounts
      BY <1>8 DEF SaveRefreshed, RefreshedRow
    <3>. QED BY <3>1, <3>2
  <2>. QED BY <1>8, <2>1, NextAccountType DEF SaveRefreshed, platform, TypeInv
<1>9. CASE CheckAll \/ Validate
  BY <1>9 DEF CheckAll, Validate, platform, TypeInv
<1>10. CASE SaveVerdict
  <2>1. accounts' \in Rows
    <3>1. \/ accounts' = [accounts EXCEPT ![Head(monitor.todo).id].status = "expired"]
          \/ accounts' = accounts
      BY <1>10 DEF SaveVerdict
    <3>2. [accounts EXCEPT ![Head(monitor.todo).id].status = "expired"] \in Rows
      BY RowType
    <3>. QED BY <3>1, <3>2 DEF TypeInv
  <2>. QED BY <1>10, <2>1 DEF SaveVerdict, platform, TypeInv
<1>11. ASSUME NEW a \in Accounts, Link(a) PROVE TypeInv'
  <2>1. accounts' \in Rows
    BY <1>11, IssueType, RowType DEF Link
  <2>. QED BY <1>11, <2>1, IssueType DEF Link, TypeInv
<1>12. ASSUME NEW a \in Accounts, Unlink(a) PROVE TypeInv'
  <2>1. accounts' \in Rows
    BY <1>12, RowType DEF Unlink
  <2>. QED BY <1>12, <2>1 DEF Unlink, platform, TypeInv
<1>13. ASSUME NEW a \in Accounts, Revoke(a) PROVE TypeInv'
  BY <1>13 DEF Revoke, TypeInv
<1>14. CASE UNCHANGED vars
  BY <1>14 DEF vars, platform, TypeInv
<1>. QED BY <1>1, <1>2, <1>3, <1>4, <1>5, <1>6, <1>7, <1>8, <1>9, <1>10, <1>11, <1>12, <1>13,
            <1>14 DEF Next, RefresherStep, MonitorStep

-----------------------------------------------------------------------------
(* The grant *)

\* A step that hands nothing to the refresher and takes no grant away keeps
\* what the refresher has in hand right.
LEMMA AnswerStays ==
  ASSUME AnswerInv, lost \subseteq lost', UNCHANGED grant,
         \/ refresher'.at # "save"
         \/ /\ refresher'.at = refresher.at /\ refresher'.todo = refresher.todo
            /\ refresher'.got = refresher.got
  PROVE  AnswerInv'
  BY DEF AnswerInv, InHand

\* A step that keeps the tokens of the rows, brings no row back and leaves the
\* refresher's answer in its hand keeps the rows in step with the platform.
LEMMA RowStays ==
  ASSUME RowInv, lost \subseteq lost', UNCHANGED grant,
         \A a \in Accounts : accounts'[a].token = accounts[a].token /\ (There(a)' => There(a)),
         \A a \in Accounts \ lost' : InHand(a) => InHand(a)'
  PROVE  RowInv'
  BY DEF RowInv

\* Nothing is there and nothing is in hand.
LEMMA GrantInit == Init => AnswerInv /\ RowInv
  BY DEF Init, Resting, AnswerInv, RowInv, InHand, There

\* The refresher's steps keep the rows in step with the platform.
LEMMA RefresherKeepsGrant ==
  TypeInv /\ AnswerInv /\ RowInv /\ RefresherStep => AnswerInv' /\ RowInv'
<1>. SUFFICES ASSUME TypeInv, AnswerInv, RowInv, RefresherStep PROVE AnswerInv' /\ RowInv'
  OBVIOUS
<1>. DEFINE h == Head(refresher.todo).id
<1>1. CASE RefreshAll
  <2>1. refresher.at = "wait" /\ refresher'.at # "save"
    BY <1>1 DEF RefreshAll, Starts, TypeInv
  <2>2. UNCHANGED <<accounts, grant, lost>>
    BY <1>1 DEF RefreshAll, platform
  <2>3. \A a \in Accounts : ~InHand(a) /\ There(a)' = There(a)
    BY <2>1, <2>2 DEF InHand, There
  <2>. QED BY <2>1, <2>2, <2>3, AnswerStays, RowStays
<1>2. CASE RefreshAnswered
  <2>1. h \in Accounts
    BY <1>2, HeadType DEF RefreshAnswered
  <2>2. issued + 1 \in Tokens /\ refresher.at = "next" /\ UNCHANGED <<accounts, lost>>
    BY <1>2, <2>1, IssueType DEF RefreshAnswered
  <2>3. grant' = [grant EXCEPT ![h] = issued + 1]
    BY <1>2 DEF RefreshAnswered, Issue
  <2>4. refresher'.at = "save" /\ refresher'.todo = refresher.todo /\ refresher'.got = issued + 1
    BY <1>2 DEF RefreshAnswered, TypeInv
  <2>5. \A a : InHand(a)' <=> a = h
    BY <2>4 DEF InHand
  <2>6. ASSUME NEW a \in Accounts, a # h PROVE grant'[a] = grant[a]
    BY <2>3, <2>6 DEF TypeInv
  <2>7. grant'[h] = issued + 1
    BY <2>1, <2>3 DEF TypeInv
  <2>8. AnswerInv'
    BY <2>2, <2>4, <2>5, <2>7 DEF AnswerInv
  <2>9. RowInv'
    BY <2>2, <2>5, <2>6 DEF RowInv, InHand, There
  <2>. QED BY <2>8, <2>9
<1>3. CASE RefreshAnswerLost
  <2>1. h \in Accounts
    BY <1>3, HeadType DEF RefreshAnswerLost
  <2>2. refresher.at = "next" /\ accounts' = accounts /\ lost' = lost \cup {h} /\ refresher'.at # "save"
    BY <1>3, NextAccountType DEF RefreshAnswerLost
  <2>3. grant' = [grant EXCEPT ![h] = issued + 1]
    BY <1>3 DEF RefreshAnswerLost, Issue
  <2>4. \A a \in Accounts \ lost' : grant'[a] = grant[a]
    BY <2>2, <2>3 DEF TypeInv
  <2>. QED BY <2>2, <2>4 DEF AnswerInv, RowInv, InHand, There
<1>4. CASE RefreshTransient
  <2>1. refresher.at = "next" /\ refresher'.at # "save" /\ UNCHANGED <<accounts, grant, lost>>
    BY <1>4, NextAccountType DEF RefreshTransient, platform
  <2>2. \A a \in Accounts : ~InHand(a) /\ There(a)' = There(a)
    BY <2>1 DEF InHand, There
  <2>. QED BY <2>1, <2>2, AnswerStays, RowStays
<1>5. CASE RefreshRefused
  <2>1. refresher.at = "next" /\ refresher'.at # "save" /\ UNCHANGED <<grant, lost>>
    BY <1>5, NextAccountType DEF RefreshRefused, platform
  <2>2. accounts' = IF There(h) THEN [accounts EXCEPT ![h].status = "expired"] ELSE accounts
    BY <1>5 DEF RefreshRefused
  <2>3. \A a \in Accounts : accounts'[a].token = accounts[a].token /\ (There(a)' => There(a))
    BY <2>2 DEF There, TypeInv
  <2>4. \A a \in Accounts : ~InHand(a)
    BY <2>1 DEF InHand
  <2>. QED BY <2>1, <2>3, <2>4, AnswerStays, RowStays
<1>6. CASE SaveRefreshed
  <2>1. h \in Accounts /\ refresher.at = "save" /\ refresher'.at # "save" /\ grant' = grant
    BY <1>6, HeadType, NextAccountType DEF SaveRefreshed, platform
  <2>2. lost \subseteq lost'
    BY <1>6 DEF SaveRefreshed
  <2>3. AnswerInv'
    BY <2>1, <2>2, AnswerStays
  <2>4. ASSUME NEW a \in Accounts \ lost', There(a)' PROVE accounts'[a].token = grant[a]
    <3>1. \/ accounts' = [accounts EXCEPT ![h].token = refresher.got]
          \/ accounts' = accounts /\ h \in lost'
      BY <1>6 DEF SaveRefreshed, RefreshedRow
    <3>2. There(a) /\ a \in Accounts \ lost
      BY <2>2, <2>4, <3>1 DEF There, TypeInv
    <3>3. CASE a = h
      <4>1. accounts' = [accounts EXCEPT ![h].token = refresher.got]
        BY <2>4, <3>1, <3>3
      <4>2. refresher.got = grant[h]
        BY <2>1, <3>2, <3>3 DEF AnswerInv, InHand
      <4>. QED BY <2>1, <3>3, <4>1, <4>2 DEF TypeInv
    <3>4. CASE a # h
      <4>1. accounts[a].token = grant[a]
        BY <3>2, <3>4 DEF RowInv, InHand
      <4>2. accounts'[a] = accounts[a]
        BY <3>1, <3>4 DEF TypeInv
      <4>. QED BY <4>1, <4>2
    <3>. QED BY <3>3, <3>4
  <2>5. RowInv'
    BY <2>1, <2>4 DEF RowInv
  <2>. QED BY <2>3, <2>5
<1>. QED BY <1>1, <1>2, <1>3, <1>4, <1>5, <1>6 DEF RefresherStep

\* Every step keeps the rows in step with the platform.
LEMMA GrantStep ==
  TypeInv /\ AnswerInv /\ RowInv /\ [Next]_vars => AnswerInv' /\ RowInv'
<1>. SUFFICES ASSUME TypeInv, AnswerInv, RowInv, [Next]_vars PROVE AnswerInv' /\ RowInv'
  OBVIOUS
<1>1. CASE Tick
  <2>1. /\ refresher'.at = refresher.at /\ refresher'.todo = refresher.todo
        /\ refresher'.got = refresher.got
    <3>1. \/ refresher' = [refresher EXCEPT !.due = TRUE, !.left = Interval]
          \/ refresher' = [refresher EXCEPT !.left = @ - 1]
      BY <1>1 DEF Tick, Ticked
    <3>. QED BY <3>1 DEF TypeInv
  <2>2. UNCHANGED <<accounts, grant, lost>>
    BY <1>1 DEF Tick
  <2>. QED BY <2>1, <2>2, AnswerStays, RowStays DEF InHand, There
<1>2. CASE Restart
  <2>1. refresher'.at # "save" /\ UNCHANGED <<accounts, grant>> /\ lost \subseteq lost'
    BY <1>2 DEF Restart, Resting, platform
  <2>2. \A a \in Accounts \ lost' : ~InHand(a)
    BY <1>2 DEF Restart, InHand
  <2>3. \A a \in Accounts : There(a)' = There(a)
    BY <2>1 DEF There
  <2>. QED BY <2>1, <2>2, <2>3, AnswerStays, RowStays
<1>3. CASE RefresherStep
  BY <1>3, RefresherKeepsGrant
<1>4. CASE CheckAll \/ Validate
  <2>1. UNCHANGED <<accounts, grant, refresher, lost>>
    BY <1>4 DEF CheckAll, Validate, platform
  <2>. QED BY <2>1, AnswerStays, RowStays DEF InHand, There
<1>5. CASE SaveVerdict
  <2>1. UNCHANGED <<grant, refresher, lost>>
    BY <1>5 DEF SaveVerdict, platform
  <2>2. \/ /\ There(Head(monitor.todo).id)
           /\ accounts' = [accounts EXCEPT ![Head(monitor.todo).id].status = "expired"]
        \/ accounts' = accounts
    BY <1>5 DEF SaveVerdict
  <2>3. \A a \in Accounts : accounts'[a].token = accounts[a].token /\ (There(a)' => There(a))
    BY <2>2 DEF There, TypeInv
  <2>. QED BY <2>1, <2>3, AnswerStays, RowStays DEF InHand
<1>6. ASSUME NEW b \in Accounts, Link(b) PROVE AnswerInv' /\ RowInv'
  <2>1. UNCHANGED <<refresher, lost>> /\ b \notin lost /\ grant[b] = None
    BY <1>6 DEF Link
  <2>2. /\ grant' = [grant EXCEPT ![b] = issued + 1]
        /\ accounts' = [accounts EXCEPT ![b] = [status |-> "active", token |-> issued + 1]]
    BY <1>6 DEF Link, Issue
  <2>3. ~InHand(b)
    BY <2>1, NoneAssumption DEF AnswerInv
  <2>4. /\ grant'[b] = issued + 1 /\ accounts'[b].token = issued + 1
        /\ \A a \in Accounts \ {b} : grant'[a] = grant[a] /\ accounts'[a] = accounts[a]
    BY <2>2 DEF TypeInv
  <2>5. \A a \in Accounts : InHand(a)' = InHand(a)
    BY <2>1 DEF InHand
  <2>6. AnswerInv'
    BY <2>1, <2>3, <2>4, <2>5 DEF AnswerInv
  <2>7. RowInv'
    BY <2>1, <2>4, <2>5 DEF RowInv, There
  <2>. QED BY <2>6, <2>7
<1>7. ASSUME NEW b \in Accounts, Unlink(b) PROVE AnswerInv' /\ RowInv'
  <2>1. UNCHANGED <<grant, refresher>> /\ lost \subseteq lost'
    BY <1>7 DEF Unlink, platform
  <2>2. accounts' = [accounts EXCEPT ![b].status = "absent"]
    BY <1>7 DEF Unlink
  <2>3. \A a \in Accounts : accounts'[a].token = accounts[a].token /\ (There(a)' => There(a))
    BY <2>2 DEF There, TypeInv
  <2>. QED BY <2>1, <2>3, AnswerStays, RowStays DEF InHand
<1>8. ASSUME NEW b \in Accounts, Revoke(b) PROVE AnswerInv' /\ RowInv'
  <2>1. /\ UNCHANGED <<accounts, refresher>> /\ lost' = lost \cup {b}
        /\ grant' = [grant EXCEPT ![b] = None]
    BY <1>8 DEF Revoke
  <2>2. \A a \in Accounts \ lost' : grant'[a] = grant[a]
    BY <2>1 DEF TypeInv
  <2>. QED BY <2>1, <2>2 DEF AnswerInv, RowInv, InHand, There
<1>9. CASE UNCHANGED vars
  BY <1>9, AnswerStays, RowStays DEF vars, platform, InHand, There
<1>. QED BY <1>1, <1>2, <1>3, <1>4, <1>5, <1>6, <1>7, <1>8, <1>9 DEF Next, MonitorStep

\* The row of an account that was neither withdrawn nor lost on the way holds
\* the refresh token the platform takes, unless the refresher has the answer in
\* hand that will be saved: no interleaving of the refresher's calls with the
\* monitor's writes, with linking and unlinking or with a restart loses it.
THEOREM GrantIsKept == Spec => []GrantKept
<1>1. Init => TypeInv /\ AnswerInv /\ RowInv
  BY TypeInvInit, GrantInit
<1>2. TypeInv /\ AnswerInv /\ RowInv /\ [Next]_vars => (TypeInv /\ AnswerInv /\ RowInv)'
  BY TypeInvStep, GrantStep
<1>3. AnswerInv /\ RowInv => GrantKept
  BY DEF AnswerInv, RowInv, GrantKept, InHand
<1>. QED BY <1>1, <1>2, <1>3, PTL DEF Spec
=============================================================================
