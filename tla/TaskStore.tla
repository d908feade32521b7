------------------------------ MODULE TaskStore ------------------------------
(***************************************************************************)
(* EntStore, the built-in task store (internal/store/entstore.go), under   *)
(* concurrent requests.                                                    *)
(*                                                                         *)
(* A request is a sequence of database statements with other requests in   *)
(* between: the read of the old row, the guarded UPDATE and its commit,    *)
(* the re-read of the result, the rows of the audit trail.  The UPDATE and *)
(* its commit are one step, taken where the UPDATE looks at the tables:    *)
(* the row stays locked until the commit, so nobody can write it in        *)
(* between, and what a Postgres transaction commits to other rows and      *)
(* edges in between counts as written after it.                            *)
(*                                                                         *)
(* SingleConn distinguishes the two dialects.  SQLite is opened with one   *)
(* connection, which a transaction holds from its first statement to its   *)
(* end and which every other statement waits for; Postgres runs            *)
(* transactions side by side at READ COMMITTED.                            *)
(***************************************************************************)
EXTENDS TaskState, Sequences, FiniteSets

CONSTANTS
    TaskIds,      \* ids a task can get
    Users,
    NoUser,       \* NULL assignee
    Clients,      \* callers; each sends one request
    NoClient,
    Labels,
    NewTasks,     \* parameters of CreateTask that clients send
    Updates,      \* parameters of UpdateTask that clients send
    CloseStages,  \* stages that clients close tasks with
    SingleConn,   \* TRUE: SQLite, FALSE: Postgres
    MaxSteps,     \* tasks that one InsertTasksAfter may insert
    MaxNow        \* bound on the clock

VARIABLES
    rows,      \* the tasks table
    rels,      \* the relationships table: <<source, target, type>>
    changes,   \* the changes table: per task and field, <<author, old, new>>
    now,       \* time.Now()
    conn,      \* who holds the only SQLite connection
    pc,        \* the next statement of each request
    req,       \* the parameters of each request
    attempt,   \* which pass of its retry loop a request is in
    old,       \* the row each request has read
    downstream,\* the downstream edges InsertTasksAfter has read
    res,       \* the last answer each client got
    author,    \* history: who last changed each audited field of each task
    unlogged   \* history: tasks with a commit that was aborted before its
               \* audit rows were written

dbVars == <<rows, rels, changes>>
opVars == <<pc, req, attempt, old, downstream, res>>
histVars == <<author, unlogged>>
vars == <<rows, rels, changes, now, conn, pc, req, attempt, old, downstream,
          res, author, unlogged>>

-----------------------------------------------------------------------------
(* The tables *)

Versions == Nat

\* diffTask compares these columns; hold_reason is not among them.  The
\* audit rows of one commit are written in this order.
AuditOrder == <<"phase", "stage", "assignee", "start", "closedAt", "labels">>
AuditedFields == {AuditOrder[i] : i \in DOMAIN AuditOrder}

Row == [phase : Phases, stage : Stages, hold : HoldReasons \cup {NoHold},
        assignee : Users \cup {NoUser}, start : Dates, closedAt : Dates,
        labels : SUBSET Labels, version : Versions]

\* version 0: no such row
NoRow == [phase |-> "open", stage |-> "triage", hold |-> NoHold,
          assignee |-> NoUser, start |-> NoDate, closedAt |-> NoDate,
          labels |-> {}, version |-> 0]

Exists(t) == rows[t].version > 0

Relationship == TaskIds \X TaskIds \X {"blocks", "blocked_by"}

NewTask == [stage : Stages \ {"working"}, hold : HoldReasons \cup {NoHold},
            assignee : Users \cup {NoUser}, start : Dates,
            blocks : SUBSET TaskIds, blockedBy : SUBSET TaskIds]

Update == [stage : (Stages \ {"working"}) \cup {NoStage},
           hold : HoldReasons \cup {NoHold}, clearHold : BOOLEAN,
           assignee : Users \cup {NoUser}, clearAssignee : BOOLEAN,
           start : Dates, clearStart : BOOLEAN,
           addLabels : SUBSET Labels, removeLabels : SUBSET Labels,
           addBlocks : SUBSET TaskIds, addBlockedBy : SUBSET TaskIds,
           removeRels : SUBSET TaskIds]

NoUpdate == [stage |-> NoStage, hold |-> NoHold, clearHold |-> FALSE,
             assignee |-> NoUser, clearAssignee |-> FALSE,
             start |-> NoDate, clearStart |-> FALSE,
             addLabels |-> {}, removeLabels |-> {},
             addBlocks |-> {}, addBlockedBy |-> {}, removeRels |-> {}]

Kinds == {"update", "claim", "close", "insert"}

\* ver = 0 stands for a request without a version.
Request == [kind : Kinds, task : TaskIds, user : Users, ver : Versions,
            upd : Updates \cup {NoUpdate}, stage : CloseStages \cup {NoStage}]
NoRequest == [kind |-> "none"]

PCs == {"idle", "read", "write", "current", "record", "done"}
InProgress(c) == pc[c] \notin {"idle", "done"}
Answers == {"none", "ok", "invalid_argument", "conflict", "already_closed",
            "already_claimed", "unavailable", "error", "aborted"}

ASSUME ConstantsAssumption ==
    /\ NoUser \notin Users
    /\ NoClient \notin Clients
    /\ SingleConn \in BOOLEAN
    /\ MaxSteps \in Nat
    /\ MaxNow \in Nat
    /\ NewTasks \subseteq NewTask
    /\ Updates \subseteq Update
    /\ CloseStages \subseteq TerminalStages

TypeOK ==
    /\ rows \in [TaskIds -> Row]
    /\ rels \subseteq Relationship
    /\ now \in Nat
    /\ conn \in Clients \cup {NoClient}
    /\ pc \in [Clients -> PCs]
    /\ req \in [Clients -> Request \cup {NoRequest}]
    /\ attempt \in [Clients -> {0, 1}]
    /\ old \in [Clients -> Row]
    /\ downstream \in [Clients -> SUBSET TaskIds]
    /\ res \in [Clients -> Answers]
    /\ unlogged \subseteq TaskIds
    /\ \A c \in Clients : InProgress(c) => req[c] \in Request

Init ==
    /\ rows = [t \in TaskIds |-> NoRow]
    /\ rels = {}
    /\ changes = [t \in TaskIds |-> [f \in AuditedFields |-> {}]]
    /\ now = 0
    /\ conn = NoClient
    /\ pc = [c \in Clients |-> "idle"]
    /\ req = [c \in Clients |-> NoRequest]
    /\ attempt = [c \in Clients |-> 0]
    /\ old = [c \in Clients |-> NoRow]
    /\ downstream = [c \in Clients |-> {}]
    /\ res = [c \in Clients |-> "none"]
    /\ author = [t \in TaskIds |-> [f \in AuditedFields |-> NoUser]]
    /\ unlogged = {}

-----------------------------------------------------------------------------
(* Availability *)

\* The tasks that t waits for: its own blocked_by edges and the blocks edges
\* of others that point at it.
Blockers(t) == {b \in TaskIds : <<t, b, "blocked_by">> \in rels
                             \/ <<b, t, "blocks">> \in rels}

hasUnsatisfiedBlocker(t) ==
    \E b \in Blockers(t) :
        Exists(b) /\ ~terminalStageSatisfiesDependency(rows[b].stage)

computeAvailability(t) ==
    /\ rows[t].stage # "triage"
    /\ ~IsTerminalStage(rows[t].stage)
    /\ rows[t].hold = NoHold
    /\ ~InFuture(rows[t].start, now)
    /\ ~hasUnsatisfiedBlocker(t)

-----------------------------------------------------------------------------
(* The audit trail *)

\* One Change per column that differs, as diffTask finds them; fields is the
\* part of them that gets written.
RecordDiff_TooEarly(t, user, before, after, fields) ==
    changes' = [changes EXCEPT ![t] = [f \in AuditedFields |->
        IF f \in fields /\ before[f] # rows[t][f]
        THEN @[f] \cup {<<user, before[f], rows[t][f]>>}
        ELSE @[f]]]

RecordDiff(t, user, before, after, fields) ==
    changes' = [changes EXCEPT ![t] = [f \in AuditedFields |->
        IF f \in fields /\ before[f] # after[f]
        THEN @[f] \cup {<<user, before[f], after[f]>>}
        ELSE @[f]]]

\* History: user changed these columns of t.
Authored(t, user, before, after) ==
    author' = [author EXCEPT ![t] = [f \in AuditedFields |->
        IF before[f] # after[f] THEN user ELSE @[f]]]

-----------------------------------------------------------------------------
(* Connections and requests *)

ConnFree == SingleConn => conn = NoClient

BeginTx(c) == /\ ConnFree
              /\ conn' = IF SingleConn THEN c ELSE conn
EndTx_NoRollback == conn' = conn

EndTx == conn' = NoClient

\* A client sends a request.  A version it sends along is one it has read.
Accept(c, kind, t, user, ver, upd, stage) ==
    /\ pc[c] = "idle"
    /\ Exists(t)
    /\ pc' = [pc EXCEPT ![c] = "read"]
    /\ req' = [req EXCEPT ![c] = [kind |-> kind, task |-> t, user |-> user,
                                  ver |-> ver, upd |-> upd, stage |-> stage]]
    /\ UNCHANGED <<dbVars, histVars, now, conn, attempt, old, downstream, res>>

RequestUpdate(c) == \E t \in TaskIds, u \in Users, p \in Updates :
    \E v \in 0..rows[t].version : Accept(c, "update", t, u, v, p, NoStage)
RequestClaim(c) == \E t \in TaskIds, u \in Users :
    \E v \in 0..rows[t].version : Accept(c, "claim", t, u, v, NoUpdate, NoStage)
RequestClose(c) == \E t \in TaskIds, u \in Users, s \in CloseStages :
    \E v \in 0..rows[t].version : Accept(c, "close", t, u, v, NoUpdate, s)
RequestInsert(c) ==
    /\ MaxSteps > 0
    /\ \E t \in TaskIds, u \in Users : Accept(c, "insert", t, u, 0, NoUpdate, NoStage)

\* The request returns to its client.
Return(c, answer) ==
    /\ pc' = [pc EXCEPT ![c] = "done"]
    /\ req' = [req EXCEPT ![c] = NoRequest]
    /\ attempt' = [attempt EXCEPT ![c] = 0]
    /\ old' = [old EXCEPT ![c] = NoRow]
    /\ downstream' = [downstream EXCEPT ![c] = {}]
    /\ res' = [res EXCEPT ![c] = answer]

Continue(c, next) ==
    /\ pc' = [pc EXCEPT ![c] = next]
    /\ UNCHANGED <<req, res>>

\* The version the UPDATE's WHERE clause asks for.
ExpectedVersion(c) == IF req[c].ver # 0 THEN req[c].ver ELSE old[c].version

\* A request without a version gets a second pass of its loop, once.
MayRetry_Always(c) == req[c].ver = 0

MayRetry(c) == req[c].ver = 0 /\ attempt[c] = 0

Retry(c) ==
    /\ Continue(c, "read")
    /\ attempt' = [attempt EXCEPT ![c] = @ + 1]
    /\ UNCHANGED <<old, downstream>>

RetryOrConflict(c) ==
    \/ MayRetry(c) /\ Retry(c)
    \/ ~MayRetry(c) /\ Return(c, "conflict")

-----------------------------------------------------------------------------
(* CreateTask: one transaction for the row and its edges *)

EdgesOf(t, blocks, blockedBy) ==
    {<<t, x, "blocks">> : x \in blocks} \cup {<<t, x, "blocked_by">> : x \in blockedBy}

\* A target that does not exist fails its foreign key and rolls the
\* transaction back, so the request has no effect.
CreateTask(t, p) ==
    /\ ConnFree
    /\ ~Exists(t)
    /\ validateTaskStateForWrite(p.stage, p.hold, p.start, FALSE, now)
    /\ \A x \in p.blocks \cup p.blockedBy : x = t \/ Exists(x)
    /\ rows' = [rows EXCEPT ![t] =
            [phase |-> phaseForStage(p.stage), stage |-> p.stage,
             hold |-> p.hold, assignee |-> p.assignee, start |-> p.start,
             closedAt |-> NoDate, labels |-> {}, version |-> 1]]
    /\ rels' = rels \cup EdgesOf(t, p.blocks, p.blockedBy)
    /\ UNCHANGED <<changes, now, conn, opVars, histVars>>

-----------------------------------------------------------------------------
(* UpdateTask: read, validate, compare-and-swap, edges, audit rows: one     *)
(* transaction                                                              *)

\* The hold reason an update leaves, from the row r it has read.
HoldAfter(r, p) ==
    LET asked == IF p.clearHold THEN NoHold
                 ELSE IF p.hold # NoHold THEN p.hold ELSE r.hold
        \* a start date replaces a deferral that the same update did not ask for
        undeferred == /\ ~p.clearStart /\ p.start # NoDate
                      /\ asked = "deferred" /\ p.hold = NoHold
    IN IF undeferred THEN NoHold ELSE asked

StartAfter(r, p) == IF p.clearStart THEN NoDate
                    ELSE IF p.start # NoDate THEN p.start ELSE r.start

StageAfter(r, p) == IF p.stage = NoStage THEN r.stage ELSE p.stage

\* mergeLabels
LabelsAfter(r, p) == (r.labels \cup p.addLabels) \ p.removeLabels

UpdateRead(c) ==
    LET t == req[c].task
        p == req[c].upd
        valid == validateTaskStateForWrite(StageAfter(rows[t], p),
                     HoldAfter(rows[t], p), StartAfter(rows[t], p), p.clearStart, now)
    IN /\ pc[c] = "read" /\ req[c].kind = "update"
       /\ \/ /\ valid
             /\ BeginTx(c)
             /\ old' = [old EXCEPT ![c] = rows[t]]
             /\ Continue(c, "write")
             /\ UNCHANGED <<attempt, downstream>>
          \/ /\ ~valid
             /\ ConnFree /\ UNCHANGED conn
             /\ Return(c, "invalid_argument")
       /\ UNCHANGED <<dbVars, now, histVars>>

\* The columns the UPDATE statement sets on the row it finds; labels are
\* computed from the row read earlier.
UpdatedRow_SameVersion(cur, r, p, base) ==
    [cur EXCEPT !.stage = StageAfter(cur, p),
        !.phase = IF p.stage = NoStage THEN cur.phase ELSE phaseForStage(p.stage),
        !.labels = LabelsAfter(r, p), !.version = base]

UpdatedRow_PhaseKept(cur, r, p, base) ==
    [cur EXCEPT !.stage = StageAfter(cur, p), !.start = StartAfter(cur, p),
        !.hold = HoldAfter(cur, p), !.version = base + 1]

UpdatedRow(cur, r, p, base) ==
    [cur EXCEPT
        !.stage = StageAfter(cur, p),
        !.phase = IF p.stage = NoStage THEN cur.phase ELSE phaseForStage(p.stage),
        !.hold = IF HoldAfter(r, p) # r.hold \/ p.clearHold \/ p.hold # NoHold
                 THEN HoldAfter(r, p) ELSE cur.hold,
        !.assignee = IF p.clearAssignee THEN NoUser
                     ELSE IF p.assignee # NoUser THEN p.assignee ELSE cur.assignee,
        !.start = StartAfter(cur, p),
        !.labels = IF p.addLabels \cup p.removeLabels # {}
                   THEN LabelsAfter(r, p) ELSE cur.labels,
        !.version = base + 1]

\* RemoveRelationships drops the edges of any type that start at t.
RelsAfter(t, p) ==
    {r \in rels \cup EdgesOf(t, p.addBlocks, p.addBlockedBy) :
        ~(r[1] = t /\ r[2] \in p.removeRels)}

VersionMatches_Dropped(c, t) == TRUE

VersionMatches(c, t) == rows[t].version = ExpectedVersion(c)

UpdateWrite(c) ==
    LET t == req[c].task
        p == req[c].upd
        new == UpdatedRow(rows[t], old[c], p, ExpectedVersion(c))
        targetsExist == \A x \in p.addBlocks \cup p.addBlockedBy : Exists(x)
    IN /\ pc[c] = "write" /\ req[c].kind = "update"
       /\ EndTx
       /\ \/ /\ VersionMatches(c, t) /\ targetsExist
             /\ rows' = [rows EXCEPT ![t] = new]
             /\ rels' = RelsAfter(t, p)
             /\ RecordDiff(t, req[c].user, old[c], new, AuditedFields)
             /\ Authored(t, req[c].user, rows[t], new)
             /\ Return(c, "ok")
          \/ /\ VersionMatches(c, t) /\ ~targetsExist
             /\ Return(c, "error")
             /\ UNCHANGED <<dbVars, author>>
          \/ /\ ~VersionMatches(c, t)
             /\ RetryOrConflict(c)
             /\ UNCHANGED <<dbVars, author>>
       /\ UNCHANGED <<now, unlogged>>

-----------------------------------------------------------------------------
(* ClaimTask: read and check, guarded UPDATE: one transaction; audit rows   *)
(* after it                                                                 *)

ClaimRead(c) ==
    LET t == req[c].task
        claimable == /\ rows[t].phase # "closed"
                     /\ computeAvailability(t)
                     /\ rows[t].assignee = NoUser
    IN /\ pc[c] = "read" /\ req[c].kind = "claim"
       /\ \/ /\ claimable
             /\ BeginTx(c)
             /\ old' = [old EXCEPT ![c] = rows[t]]
             /\ Continue(c, "write")
             /\ UNCHANGED <<attempt, downstream>>
          \/ /\ ~claimable
             /\ ConnFree /\ UNCHANGED conn
             /\ Return(c, IF rows[t].phase = "closed" THEN "already_closed"
                          ELSE IF ~computeAvailability(t) THEN "unavailable"
                          ELSE "already_claimed")
       /\ UNCHANGED <<dbVars, now, histVars>>

\* The WHERE clause of the claiming UPDATE.
ClaimWhere_NotClosed(c, t) == rows[t].phase # "closed"

ClaimWhere_NoBlockerCheck(c, t) ==
    /\ rows[t].assignee = NoUser /\ rows[t].phase = "open"
    /\ rows[t].stage = "accepted" /\ rows[t].hold = NoHold
    /\ ~InFuture(rows[t].start, now) /\ VersionMatches(c, t)

ClaimWhere(c, t) ==
    /\ rows[t].assignee = NoUser
    /\ rows[t].phase = "open"
    /\ rows[t].stage = "accepted"
    /\ rows[t].hold = NoHold
    /\ ~InFuture(rows[t].start, now)
    /\ ~hasUnsatisfiedBlocker(t)
    /\ VersionMatches(c, t)

ClaimWrite(c) ==
    LET t == req[c].task
        new == [rows[t] EXCEPT !.assignee = req[c].user, !.phase = "in_progress",
                    !.stage = "working", !.hold = NoHold,
                    !.version = old[c].version + 1]
    IN /\ pc[c] = "write" /\ req[c].kind = "claim"
       /\ EndTx
       /\ \/ /\ ClaimWhere(c, t)
             /\ rows' = [rows EXCEPT ![t] = new]
             /\ Authored(t, req[c].user, rows[t], new)
             /\ Continue(c, "record")
          \/ /\ ~ClaimWhere(c, t)
             /\ Continue(c, "current")
             /\ UNCHANGED <<rows, author>>
       /\ UNCHANGED <<rels, changes, now, attempt, old, downstream, unlogged>>

\* No row matched: the transaction is over and the current row says why.
ClaimCurrent(c) ==
    LET t == req[c].task
        r == rows[t]
    IN /\ pc[c] = "current"
       /\ ConnFree
       /\ \/ r.assignee # NoUser /\ Return(c, "already_claimed")
          \/ r.assignee = NoUser /\ r.phase = "closed" /\ Return(c, "already_closed")
          \/ /\ r.assignee = NoUser /\ r.phase # "closed"
             /\ \/ r.phase # "open" \/ r.stage # "accepted" \/ r.hold # NoHold
                \/ ~computeAvailability(t)
             /\ Return(c, "unavailable")
          \/ /\ r.assignee = NoUser /\ r.phase = "open"
             /\ r.stage = "accepted" /\ r.hold = NoHold
             /\ computeAvailability(t)
             /\ RetryOrConflict(c)
       /\ UNCHANGED <<dbVars, now, conn, histVars>>

-----------------------------------------------------------------------------
(* CloseTask: no transaction *)

CloseRead(c) ==
    LET t == req[c].task
    IN /\ pc[c] = "read" /\ req[c].kind = "close"
       /\ ConnFree
       /\ \/ /\ rows[t].phase = "closed"
             /\ Return(c, "already_closed")
          \/ /\ rows[t].phase # "closed"
             /\ old' = [old EXCEPT ![c] = rows[t]]
             /\ Continue(c, "write")
             /\ UNCHANGED <<attempt, downstream>>
       /\ UNCHANGED <<dbVars, now, conn, histVars>>

CloseWrite(c) ==
    LET t == req[c].task
        new == [rows[t] EXCEPT !.phase = "closed", !.stage = req[c].stage,
                    !.closedAt = now, !.version = old[c].version + 1]
    IN /\ pc[c] = "write" /\ req[c].kind = "close"
       /\ ConnFree
       /\ \/ /\ VersionMatches(c, t)
             /\ rows' = [rows EXCEPT ![t] = new]
             /\ Authored(t, req[c].user, rows[t], new)
             /\ Continue(c, "record")
             /\ UNCHANGED <<attempt, old, downstream>>
          \/ /\ ~VersionMatches(c, t)
             /\ RetryOrConflict(c)
             /\ UNCHANGED <<rows, author>>
       /\ UNCHANGED <<rels, changes, now, conn, unlogged>>

\* The end of ClaimTask and CloseTask: the row is read again and
\* recordChanges writes how it differs from the row read first.
Record(c) ==
    LET t == req[c].task
    IN /\ pc[c] = "record"
       /\ ConnFree
       /\ RecordDiff(t, req[c].user, old[c], rows[t], AuditedFields)
       /\ Return(c, "ok")
       /\ UNCHANGED <<rows, rels, now, conn, histVars>>

\* recordChanges stops at the first row it cannot write; the error is logged
\* and the client still gets its task.
RecordFails(c) ==
    LET t == req[c].task
    IN /\ pc[c] = "record"
       /\ ConnFree
       /\ \E n \in 0..(Len(AuditOrder) - 1) :
             RecordDiff(t, req[c].user, old[c], rows[t], {AuditOrder[i] : i \in 1..n})
       /\ Return(c, "ok")
       /\ unlogged' = unlogged \cup {t}
       /\ UNCHANGED <<rows, rels, now, conn, author>>

-----------------------------------------------------------------------------
(* InsertTasksAfter: one transaction; the row of the anchor is read at its  *)
(* start and its version written at its end                                 *)

InsertRead(c) ==
    LET t == req[c].task
    IN /\ pc[c] = "read" /\ req[c].kind = "insert"
       /\ BeginTx(c)
       /\ old' = [old EXCEPT ![c] = rows[t]]
       /\ downstream' = [downstream EXCEPT ![c] = {d \in TaskIds : <<t, d, "blocks">> \in rels}]
       /\ Continue(c, "write")
       /\ UNCHANGED <<dbVars, now, attempt, histVars>>

\* The ids of the inserted tasks, in order.
FreshIds(n) == {s \in [1..n -> TaskIds] :
                   /\ \A i \in 1..n : ~Exists(s[i])
                   /\ \A i, j \in 1..n : s[i] = s[j] => i = j}

InsertedRow == [NoRow EXCEPT !.version = 1]

\* anchor -> steps[1] -> ... -> steps[n] -> every downstream task, and no edge
\* left from the anchor to a downstream task.
Spliced_OffByOne(t, steps, n, targets) ==
    (rels \ {<<t, d, "blocks">> : d \in targets})
        \cup {<<t, steps[1], "blocks">>}
        \cup {<<steps[i], steps[i + 1], "blocks">> : i \in 1..(n - 2)}
        \cup {<<steps[n], d, "blocks">> : d \in targets}

Spliced(t, steps, n, targets) ==
    (rels \ {<<t, d, "blocks">> : d \in targets})
        \cup {<<t, steps[1], "blocks">>}
        \cup {<<steps[i], steps[i + 1], "blocks">> : i \in 1..(n - 1)}
        \cup {<<steps[n], d, "blocks">> : d \in targets}

\* The anchor's version is the one read plus one; no WHERE clause asks whether
\* the row still has the version read.
AnchorRow(c) == [rows[req[c].task] EXCEPT !.version = old[c].version + 1]

\* A step that cannot be written rolls everything back.
InsertWrite(c) ==
    LET t == req[c].task
    IN /\ pc[c] = "write" /\ req[c].kind = "insert"
       /\ EndTx
       /\ \/ /\ \E n \in 1..MaxSteps : \E steps \in FreshIds(n) :
                   /\ rows' = [x \in TaskIds |->
                         IF \E i \in 1..n : steps[i] = x THEN InsertedRow
                         ELSE IF x = t THEN AnchorRow(c) ELSE rows[x]]
                   /\ rels' = Spliced(t, steps, n, downstream[c])
             /\ Return(c, "ok")
          \/ /\ Return(c, "error")
             /\ UNCHANGED <<rows, rels>>
       /\ UNCHANGED <<changes, now, histVars>>

-----------------------------------------------------------------------------

\* The request dies: its context is cancelled, its deadline passes or its
\* server stops.  An open transaction rolls back; a commit stays.
Abort(c) ==
    /\ InProgress(c)
    /\ conn' = IF conn = c THEN NoClient ELSE conn
    /\ Return(c, "aborted")
    /\ unlogged' = IF pc[c] = "record" THEN unlogged \cup {req[c].task} ELSE unlogged
    /\ UNCHANGED <<dbVars, now, author>>

Tick == /\ now < MaxNow
        /\ now' = now + 1
        /\ UNCHANGED <<dbVars, opVars, histVars, conn>>

\* The next statement of a request that is in progress.
Step(c) == \/ UpdateRead(c) \/ UpdateWrite(c)
           \/ ClaimRead(c) \/ ClaimWrite(c) \/ ClaimCurrent(c)
           \/ CloseRead(c) \/ CloseWrite(c)
           \/ Record(c) \/ RecordFails(c)
           \/ InsertRead(c) \/ InsertWrite(c)

Next == \/ \E t \in TaskIds, p \in NewTasks : CreateTask(t, p)
        \/ \E c \in Clients : \/ RequestUpdate(c) \/ RequestClaim(c)
                              \/ RequestClose(c) \/ RequestInsert(c)
                              \/ Step(c) \/ Abort(c)
        \/ Tick

Spec == Init /\ [][Next]_vars

\* Every handler goroutine keeps running, and a connection waiter is served.
FairSpec == Spec /\ \A c \in Clients : SF_vars(Step(c))

-----------------------------------------------------------------------------
(* Properties *)

\* The phase of a stored task is the one its stage determines: no
\* interleaving of updates, claims, closes and inserts separates the two
\* columns that the handlers always write together.
PhaseMatchesStage == \A t \in TaskIds : rows[t].phase = phaseForStage(rows[t].stage)

\* A task that is not closed is never held in a stage that cannot be held,
\* nor deferred to a start date that is still to come, although an update
\* validates the row it has read and writes later.
HoldStateValid ==
    \A t \in TaskIds : rows[t].phase # "closed" =>
        validateTaskStateForWrite(rows[t].stage, rows[t].hold, rows[t].start, FALSE, now)

\* Every write to a row raises its version: a version names one state of the
\* row, which is what the compare-and-swap of all writers relies on.
VersionMonotonic ==
    [][\A t \in TaskIds : rows'[t] # rows[t] => rows'[t].version > rows[t].version]_vars

\* The update that commits in this step.
UpdateCommits(c, t) == /\ pc[c] = "write" /\ res'[c] = "ok"
                       /\ req[c].kind = "update" /\ req[c].task = t

\* Labels are merged in memory from the row read; a label still disappears
\* only by an update that asked to remove it (no lost update).
NoLostLabel ==
    [][\A t \in TaskIds : \A l \in rows[t].labels \ rows'[t].labels :
          \E c \in Clients : UpdateCommits(c, t) /\ l \in req[c].upd.removeLabels]_vars

\* Work starts only on a task that is accepted, unassigned, not held, due and
\* free of open blockers when the claiming UPDATE runs, whatever happened to
\* it, to its edges or to its blockers since the claim first looked.
WorkStartsOnlyWhenReady ==
    [][\A t \in TaskIds : rows[t].stage # "working" /\ rows'[t].stage = "working" =>
          /\ rows[t].stage = "accepted" /\ rows[t].assignee = NoUser
          /\ computeAvailability(t)]_vars

\* Once a task has an assignee, only an update that names another one or
\* clears it takes it away: of any number of racing claims one wins.
AssigneeKept ==
    [][\A t \in TaskIds :
          rows[t].assignee # NoUser /\ rows'[t].assignee # rows[t].assignee =>
              \E c \in Clients : /\ UpdateCommits(c, t)
                                 /\ \/ req[c].upd.clearAssignee
                                    \/ req[c].upd.assignee = rows'[t].assignee]_vars

\* When no request is about to write audit rows for t and none was cut off
\* before it did, the trail explains every audited column: whoever changed it
\* last has a Change row with the value it now has.
Pending(t) == \E c \in Clients : pc[c] = "record" /\ req[c].task = t

AuditComplete ==
    \A t \in TaskIds \ unlogged : ~Pending(t) =>
        \A f \in AuditedFields : author[t][f] # NoUser =>
            \E ch \in changes[t][f] : ch[1] = author[t][f] /\ ch[3] = rows[t][f]

\* b comes after a in the order the blocks edges of R give.
Precedes(R, a, b) ==
    \A S \in SUBSET TaskIds :
        /\ a \in S
        /\ \A x \in S, y \in TaskIds : <<x, y, "blocks">> \in R => y \in S
        => b \in S

\* Splicing steps in behind an anchor loses no order: whatever came after a
\* task before InsertTasksAfter comes after it still, also when the edges have
\* changed since the request read them.
InsertKeepsOrder ==
    [][\A c \in Clients :
          pc[c] = "write" /\ req[c].kind = "insert" /\ res'[c] = "ok" =>
              \A a, b \in TaskIds : Precedes(rels, a, b) => Precedes(rels', a, b)]_vars

\* Every request is answered: the retry loops end and no request waits for a
\* connection that it holds itself.
RequestsReturn == \A c \in Clients : InProgress(c) ~> ~InProgress(c)
=============================================================================
