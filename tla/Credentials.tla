----------------------------- MODULE Credentials -----------------------------
(***************************************************************************)
(* The credentials of linked accounts (internal/serverapp): the rows of the *)
(* database, and the two background jobs that keep them, TokenRefresher    *)
(* and CredentialMonitor.                                                  *)
(*                                                                         *)
(* The jobs list accounts, talk to the platform and write afterwards.  The *)
(* platform rotates refresh tokens: one that was used is worth nothing,    *)
(* whether or not its answer arrived.  Time is counted in units of the     *)
(* refresh window (15 minutes).  A token and the refresh token granted     *)
(* with it have the same number.                                           *)
(***************************************************************************)
EXTENDS Integers, FiniteSets, Sequences, FiniteSetsExt, SequencesExt

CONSTANTS
  Accounts,         \* 1..n, in the order in which they are linked
  None,             \* no token
  Configured,       \* whether the refresher has the platform's OAuth config
  Interval,         \* the refresher's interval
  MonitorInterval,  \* the monitor's interval
  Window,           \* refreshWindow
  Lifetime,         \* how long an access token is accepted
  MaxTokens,        \* bound: tokens the platform issues
  MaxRestarts       \* bound: restarts of the server

ASSUME AccountsAssumption ==
  Accounts \subseteq Nat /\ IsFiniteSet(Accounts)

ASSUME BoundsAssumption ==
  /\ Configured \in BOOLEAN /\ Interval \in Nat \ {0} /\ MonitorInterval \in Nat \ {0}
  /\ Window \in Nat /\ Lifetime \in Nat \ {0}
  /\ MaxTokens \in Nat /\ MaxRestarts \in Nat

Tokens == 1..MaxTokens

ASSUME NoneAssumption == None \notin Tokens

VARIABLES
  accounts,   \* the rows: [Accounts -> [status, token]]
  life,       \* the platform: time each token is still accepted for
  grant,      \* the platform: the refresh token of an account that still works
  issued,     \* the platform: how many tokens it has issued
  refresher,  \* the TokenRefresher
  monitor,    \* the CredentialMonitor
  restarts,   \* restarts so far
  lost        \* history: accounts whose refresh went wrong between the two sides

platform == <<life, grant, issued>>
vars == <<accounts, life, grant, issued, refresher, monitor, restarts, lost>>

There(a) == accounts[a].status # "absent"
Active == {a \in Accounts : accounts[a].status = "active"}

\* A job between its ticks, and what it has still to do of the accounts it listed.
Resting(interval) == [at |-> "wait", due |-> TRUE, left |-> interval,
                      todo |-> <<>>, got |-> None]
\* The ticker's channel holds one tick; a job that is busy finds it there later.
Ticked(job, interval) ==
  IF job.left = 1 THEN [job EXCEPT !.due = TRUE, !.left = interval]
  ELSE [job EXCEPT !.left = @ - 1]
\* What a listing of the accounts S returns: their rows, in the order in which
\* they were linked.
Listings(S) ==
  LET sorted == {f \in SetToSeqs(S) : \A i, j \in DOMAIN f : i < j => f[i] < f[j]}
  IN {[k \in DOMAIN f |-> [id |-> f[k], token |-> accounts[f[k]].token]] : f \in sorted}
\* The job is done with the first account of its list.
NextAccount(job) ==
  IF Len(job.todo) <= 1 THEN [job EXCEPT !.at = "wait", !.todo = <<>>, !.got = None]
  ELSE [job EXCEPT !.at = "next", !.todo = Tail(@), !.got = None]

Init ==
  /\ accounts = [a \in Accounts |-> [status |-> "absent", token |-> None]]
  /\ life = [t \in Tokens |-> 0]
  /\ grant = [a \in Accounts |-> None]
  /\ issued = 0
  /\ refresher = Resting(Interval)
  /\ monitor = Resting(MonitorInterval)
  /\ restarts = 0 /\ lost = {}

----------------------------------------------------------------------------
(* The platform *)

Accepted(t) == life[t] > 0

\* The platform issues a token and a refresh token for account a.
Issue(a) ==
  /\ issued < MaxTokens
  /\ issued' = issued + 1
  /\ life' = [life EXCEPT ![issued + 1] = Lifetime]
  /\ grant' = [grant EXCEPT ![a] = issued + 1]

\* Time passes for the tokens and for the two tickers.
Tick ==
  /\ life' = [t \in Tokens |-> IF life[t] = 0 THEN 0 ELSE life[t] - 1]
  /\ refresher' = Ticked(refresher, Interval)
  /\ monitor' = Ticked(monitor, MonitorInterval)
  /\ UNCHANGED <<accounts, grant, issued, restarts, lost>>

\* The account's owner withdraws the authorization at the platform.
Revoke(a) ==
  /\ There(a) /\ grant[a] # None
  /\ grant' = [grant EXCEPT ![a] = None]
  /\ life' = [life EXCEPT ![accounts[a].token] = 0]
  /\ lost' = lost \cup {a}
  /\ UNCHANGED <<accounts, issued, refresher, monitor, restarts>>

----------------------------------------------------------------------------
(* Linking and unlinking *)

\* handleGitHubCallback ... CreateLinkedAccount: a row of its own for every
\* time a link flow is finished, also when the collection has one.
Link(a) ==
  /\ accounts[a].status = "absent" /\ grant[a] = None
  /\ \A b \in Accounts : b < a => There(b) \/ grant[b] # None \/ b \in lost
  /\ a \notin lost
  /\ Issue(a)
  /\ accounts' = [accounts EXCEPT ![a] = [status |-> "active", token |-> issued + 1]]
  /\ UNCHANGED <<refresher, monitor, restarts, lost>>

\* DeleteLinkedAccount.
Unlink(a) ==
  /\ There(a)
  /\ accounts' = [accounts EXCEPT ![a].status = "absent"]
  /\ lost' = lost \cup {a}
  /\ UNCHANGED <<platform, refresher, monitor, restarts>>

----------------------------------------------------------------------------
(* TokenRefresher *)

\* refreshAll's filter, on the accounts as they were listed.
DueForRefresh_Unexpired(a) == life[accounts[a].token] \in 1..Window
DueForRefresh(a) == life[accounts[a].token] <= Window

\* Listing the accounts can fail, which leaves nothing to do until the next tick.
Starts(job, work) ==
  [job EXCEPT !.due = FALSE, !.at = IF work = <<>> THEN "wait" ELSE "next", !.todo = work]

RefreshAll ==
  /\ refresher.at = "wait" /\ refresher.due
  /\ \E work \in Listings({a \in Active : DueForRefresh(a)}) \cup {<<>>} :
       refresher' = Starts(refresher, work)
  /\ UNCHANGED <<accounts, platform, monitor, restarts, lost>>

\* refreshAccount up to tokenSource.Token: the platform's answer.
RefreshAnswered ==
  LET a == Head(refresher.todo).id
  IN /\ refresher.at = "next" /\ Configured
     /\ grant[a] = Head(refresher.todo).token
     /\ Issue(a)
     /\ refresher' = [refresher EXCEPT !.at = "save", !.got = issued + 1]
     /\ UNCHANGED <<accounts, monitor, restarts, lost>>

\* The platform rotated the token but the answer did not arrive.
RefreshAnswerLost ==
  LET a == Head(refresher.todo).id
  IN /\ refresher.at = "next" /\ Configured
     /\ grant[a] = Head(refresher.todo).token
     /\ Issue(a)
     /\ refresher' = NextAccount(refresher)
     /\ lost' = lost \cup {a}
     /\ UNCHANGED <<accounts, monitor, restarts>>

\* An error that leaves the status alone: no OAuth config for the platform, the
\* network, a 5xx, or a refusal that does not read as 401 or 403.
RefreshTransient ==
  /\ refresher.at = "next"
  /\ refresher' = NextAccount(refresher)
  /\ UNCHANGED <<accounts, platform, monitor, restarts, lost>>

\* isDefinitiveAuthError: a 401 or 403, which answers a refresh token that was
\* used or withdrawn.
RefreshRefused ==
  LET a == Head(refresher.todo).id
  IN /\ refresher.at = "next" /\ Configured
     /\ grant[a] # Head(refresher.todo).token
     /\ accounts' = IF There(a) THEN [accounts EXCEPT ![a].status = "expired"] ELSE accounts
     /\ refresher' = NextAccount(refresher)
     /\ UNCHANGED <<platform, monitor, restarts, lost>>

\* UpdateLinkedAccount with what the platform answered.  A write that fails is
\* logged; the row then holds a refresh token that was used.
RefreshedRow_SameToken(row, t) == row
RefreshedRow(row, t) == [row EXCEPT !.token = t]

SaveRefreshed ==
  LET a == Head(refresher.todo).id
  IN /\ refresher.at = "save"
     /\ \/ /\ There(a)
           /\ accounts' = [accounts EXCEPT ![a] = RefreshedRow(@, refresher.got)]
           /\ UNCHANGED lost
        \/ UNCHANGED accounts /\ lost' = lost \cup {a}
     /\ refresher' = NextAccount(refresher)
     /\ UNCHANGED <<platform, monitor, restarts>>

RefresherStep ==
  RefreshAll \/ RefreshAnswered \/ RefreshAnswerLost \/ RefreshTransient
  \/ RefreshRefused \/ SaveRefreshed

----------------------------------------------------------------------------
(* CredentialMonitor *)

CheckAll ==
  /\ monitor.at = "wait" /\ monitor.due
  /\ \E work \in Listings(Active) \cup {<<>>} : monitor' = Starts(monitor, work)
  /\ UNCHANGED <<accounts, platform, refresher, restarts, lost>>

\* The validator, with the token that was listed.  Its error is a refusal or
\* any other failure of the call: got becomes what it found.
Validate ==
  /\ monitor.at = "next"
  /\ \E valid \in BOOLEAN :
       /\ valid => Accepted(Head(monitor.todo).token)
       /\ monitor' = [monitor EXCEPT !.at = "save", !.got = valid]
  /\ UNCHANGED <<accounts, platform, refresher, restarts, lost>>

\* checkAccount's write.
SaveVerdict ==
  LET a == Head(monitor.todo).id
  IN /\ monitor.at = "save"
     /\ \/ accounts' = IF There(a) /\ ~monitor.got
                       THEN [accounts EXCEPT ![a].status = "expired"] ELSE accounts
        \/ UNCHANGED accounts
     /\ monitor' = NextAccount(monitor)
     /\ UNCHANGED <<platform, refresher, restarts, lost>>

MonitorStep == CheckAll \/ Validate \/ SaveVerdict

----------------------------------------------------------------------------
\* The server stops and starts: the jobs begin again, the rows and what the
\* platform knows stay.
Restart ==
  /\ restarts < MaxRestarts
  /\ restarts' = restarts + 1
  /\ lost' = IF refresher.at = "save" THEN lost \cup {Head(refresher.todo).id} ELSE lost
  /\ refresher' = Resting(Interval) /\ monitor' = Resting(MonitorInterval)
  /\ UNCHANGED <<accounts, platform>>

Next ==
  \/ Tick \/ Restart \/ RefresherStep \/ MonitorStep
  \/ \E a \in Accounts : Link(a) \/ Unlink(a) \/ Revoke(a)

Spec == Init /\ [][Next]_vars

\* The tickers run, the refresher's goroutine goes on, and a listing, a question
\* to the platform and a write that are tried again and again succeed at last.
FairSpec ==
  /\ Spec /\ WF_vars(Tick) /\ WF_vars(RefresherStep)
  /\ SF_vars(RefreshAll /\ refresher'.todo # <<>>) /\ SF_vars(RefreshAnswered)
  /\ SF_vars(SaveRefreshed /\ accounts' # accounts)

----------------------------------------------------------------------------
(* Properties *)

\* The row of an account holds the refresh token the platform still takes, but
\* while the refresher has an answer in hand and once one was lost on the way.
GrantKept ==
  \A a \in Accounts \ lost :
    There(a) => \/ accounts[a].token = grant[a]
                \/ refresher.at = "save" /\ Head(refresher.todo).id = a
                                         /\ refresher.got = grant[a]

\* An account that stays linked, active and in step with the platform gets a
\* token beyond the window: the refresher also takes tokens up that expired
\* between two of its runs.
Waiting(a) ==
  /\ a \in Active /\ a \notin lost /\ life[accounts[a].token] <= Window
  /\ issued < MaxTokens /\ Configured
ExpiringIsRefreshed == \A a \in Accounts : Waiting(a) ~> ~Waiting(a)
=============================================================================
