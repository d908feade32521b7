--------------------------- MODULE TaskStoreProofs ---------------------------
(***************************************************************************)
(* Theorems about TaskStore for every set of tasks, users, callers and     *)
(* request parameters, and that every step of it is a step of TaskBoard on *)
(* the same tables or leaves them alone.                                   *)
(***************************************************************************)
EXTENDS TaskStoreRefinement, WellFoundedInduction, TLAPS

-----------------------------------------------------------------------------
(* Types *)

\* The part of TypeOK that is about one request's bookkeeping.
OpTypeOK ==
    /\ pc \in [Clients -> PCs]
    /\ req \in [Clients -> Request \cup {NoRequest}]
    /\ attempt \in [Clients -> {0, 1}]
    /\ old \in [Clients -> Row]
    /\ downstream \in [Clients -> SUBSET TaskIds]
    /\ res \in [Clients -> Answers]
    /\ \A c \in Clients : InProgress(c) => req[c] \in Request

\* NoRow, the value of old between requests, is a row.
LEMMA NoRowType == NoRow \in Row
  BY ConstantsAssumption DEF NoRow, Row, Phases, Stages, IntakeStages, Dates, Versions

\* Whatever answer a request returns with, its bookkeeping keeps its types.
LEMMA ReturnType ==
    ASSUME OpTypeOK, NEW c \in Clients, NEW answer \in Answers, Return(c, answer)
    PROVE  OpTypeOK'
  BY NoRowType DEF OpTypeOK, Return, PCs, InProgress

\* The same of a request that goes on to its next statement.
LEMMA ContinueType ==
    ASSUME OpTypeOK, NEW c \in Clients, NEW next \in PCs, Continue(c, next),
           InProgress(c), attempt' \in [Clients -> {0, 1}],
           old' \in [Clients -> Row], downstream' \in [Clients -> SUBSET TaskIds]
    PROVE  OpTypeOK'
  BY DEF OpTypeOK, Continue, PCs, InProgress

\* The same of a request that found its row changed.
LEMMA RetryOrConflictType ==
    ASSUME OpTypeOK, NEW c \in Clients, InProgress(c), RetryOrConflict(c)
    PROVE  OpTypeOK'
  <1>1. CASE MayRetry(c) /\ Retry(c)
    <2>1. attempt' \in [Clients -> {0, 1}]
      BY <1>1 DEF MayRetry, Retry, OpTypeOK
    <2>2. /\ Continue(c, "read") /\ UNCHANGED <<old, downstream>> /\ "read" \in PCs
      BY <1>1 DEF Retry, PCs
    <2> QED BY <2>1, <2>2, ContinueType DEF OpTypeOK
  <1>2. CASE ~MayRetry(c) /\ Return(c, "conflict")
    BY <1>2, ReturnType DEF Answers
  <1> QED BY <1>1, <1>2 DEF RetryOrConflict

\* A request that is accepted fills in its client's record with typed parameters.
LEMMA AcceptType ==
    ASSUME OpTypeOK, NEW c \in Clients, NEW kind \in Kinds, NEW t \in TaskIds,
           NEW user \in Users, NEW ver \in Versions, NEW upd \in Updates \cup {NoUpdate},
           NEW stage \in CloseStages \cup {NoStage},
           Accept(c, kind, t, user, ver, upd, stage)
    PROVE  OpTypeOK'
  <1>1. [kind |-> kind, task |-> t, user |-> user, ver |-> ver, upd |-> upd,
         stage |-> stage] \in Request
    BY DEF Request
  <1> QED BY <1>1 DEF Accept, OpTypeOK, PCs, InProgress

\* The parameters of a request that is no update.
LEMMA NoUpdateType == NoUpdate \in Update
  BY DEF NoUpdate, Update, Dates

\* A row with every column but closedAt assigned anew is a row.
RowWith(cur, st, ph, h, a, d, l, v) ==
    [cur EXCEPT !.stage = st, !.phase = ph, !.hold = h, !.assignee = a,
                !.start = d, !.labels = l, !.version = v]

\* Its fields being of their types, the row so changed is a row.
LEMMA RowExcept ==
    ASSUME NEW cur \in Row, NEW st \in Stages, NEW ph \in Phases,
           NEW h \in HoldReasons \cup {NoHold}, NEW a \in Users \cup {NoUser},
           NEW d \in Dates, NEW l \in SUBSET Labels, NEW v \in Versions
    PROVE  RowWith(cur, st, ph, h, a, d, l, v) \in Row
  BY DEF Row, RowWith

\* The row an UPDATE by UpdateTask leaves is a row.
LEMMA UpdatedRowType ==
    ASSUME NEW cur \in Row, NEW r \in Row, NEW p \in Updates \cup {NoUpdate},
           NEW base \in Versions
    PROVE  UpdatedRow(cur, r, p, base) \in Row
  <1>1. p \in Update
    BY ConstantsAssumption, NoUpdateType
  <1>2. StageAfter(cur, p) \in Stages /\ StartAfter(cur, p) \in Dates
    BY <1>1 DEF StageAfter, StartAfter, Update, Row, NoStage, Dates, NoDate
  <1>3. HoldAfter(r, p) \in HoldReasons \cup {NoHold}
    BY <1>1 DEF HoldAfter, Update, Row
  <1>4. LabelsAfter(r, p) \in SUBSET Labels
    BY <1>1 DEF LabelsAfter, Update, Row
  <1>5. \A s \in Stages : phaseForStage(s) \in Phases
    BY DEF phaseForStage, Phases, Stages, IntakeStages, ActiveStages, TerminalStages
  <1>6. p.stage # NoStage => phaseForStage(p.stage) \in Phases
    BY <1>1, <1>5 DEF Update
  <1>7. p.assignee \in Users \cup {NoUser}
    BY <1>1 DEF Update
  <1> DEFINE ph == IF p.stage = NoStage THEN cur.phase ELSE phaseForStage(p.stage)
             h == IF HoldAfter(r, p) # r.hold \/ p.clearHold \/ p.hold # NoHold
                  THEN HoldAfter(r, p) ELSE cur.hold
             a == IF p.clearAssignee THEN NoUser
                  ELSE IF p.assignee # NoUser THEN p.assignee ELSE cur.assignee
             l == IF p.addLabels \cup p.removeLabels # {}
                  THEN LabelsAfter(r, p) ELSE cur.labels
  <1>8. /\ ph \in Phases /\ h \in HoldReasons \cup {NoHold}
        /\ a \in Users \cup {NoUser} /\ l \in SUBSET Labels /\ base + 1 \in Versions
    BY <1>3, <1>4, <1>6, <1>7 DEF Row, Versions
  <1> DEFINE u == [cur EXCEPT !.stage = StageAfter(cur, p), !.phase = ph, !.hold = h,
                      !.assignee = a, !.start = StartAfter(cur, p), !.labels = l,
                      !.version = base + 1]
  <1>9. UpdatedRow(cur, r, p, base) = u
    BY DEF UpdatedRow
  <1>10. u \in Row
    <2> DEFINE st == StageAfter(cur, p)
               sd == StartAfter(cur, p)
               v == base + 1
    <2>1. st \in Stages /\ sd \in Dates /\ v \in Versions
      BY <1>2, <1>8
    <2> HIDE DEF ph, h, a, l, st, sd, v
    <2>2. RowWith(cur, st, ph, h, a, sd, l, v) \in Row
      BY <1>8, <2>1, RowExcept
    <2> QED BY <2>2 DEF RowWith, st, sd, v
  <1> HIDE DEF u
  <1> QED BY <1>9, <1>10

\* The tables and the clock; TypeOK is StoreTypeOK and OpTypeOK.
StoreTypeOK ==
    /\ rows \in [TaskIds -> Row]
    /\ rels \subseteq Relationship
    /\ now \in Nat
    /\ conn \in Clients \cup {NoClient}
    /\ unlogged \subseteq TaskIds

\* The types of the tables, and those of the requests in progress.
LEMMA TypeSplit == /\ TypeOK <=> StoreTypeOK /\ OpTypeOK
                   /\ TypeOK' <=> StoreTypeOK' /\ OpTypeOK'
  BY DEF TypeOK, StoreTypeOK, OpTypeOK

\* The row a claim or a close leaves, and the anchor of an insert, are rows.
LEMMA WrittenRowType ==
    ASSUME TypeOK, NEW c \in Clients, req[c] \in Request,
           NEW cur \in Row
    PROVE  /\ [cur EXCEPT !.assignee = req[c].user, !.phase = "in_progress",
                  !.stage = "working", !.hold = NoHold,
                  !.version = old[c].version + 1] \in Row
           /\ req[c].stage \in CloseStages =>
              [cur EXCEPT !.phase = "closed", !.stage = req[c].stage,
                  !.closedAt = now, !.version = old[c].version + 1] \in Row
           /\ [cur EXCEPT !.version = old[c].version + 1] \in Row
           /\ InsertedRow \in Row
  <1>1. old[c].version + 1 \in Versions /\ req[c].user \in Users /\ now \in Dates
    BY DEF TypeOK, Row, Versions, Request, Dates
  <1>2. req[c].stage \in CloseStages => req[c].stage \in Stages
    BY ConstantsAssumption DEF Stages
  <1>3. "working" \in Stages /\ "in_progress" \in Phases /\ "closed" \in Phases
    BY DEF Stages, ActiveStages, Phases
  <1>4. [cur EXCEPT !.assignee = req[c].user, !.phase = "in_progress",
           !.stage = "working", !.hold = NoHold, !.version = old[c].version + 1] \in Row
    BY <1>1, <1>3 DEF Row
  <1>5. req[c].stage \in CloseStages =>
           [cur EXCEPT !.phase = "closed", !.stage = req[c].stage,
                  !.closedAt = now, !.version = old[c].version + 1] \in Row
    BY <1>1, <1>2, <1>3 DEF Row
  <1>6. [cur EXCEPT !.version = old[c].version + 1] \in Row
    BY <1>1 DEF Row
  <1>7. InsertedRow \in Row
    BY NoRowType DEF InsertedRow, Row, Versions
  <1> QED BY <1>4, <1>5, <1>6, <1>7

\* What a request in progress may rely on whatever the others do.
RequestOK(c) ==
    InProgress(c) =>
        /\ rows[req[c].task].version > 0
        /\ req[c].kind = "close" => req[c].stage \in CloseStages
        /\ req[c].kind = "insert" => MaxSteps > 0
        /\ req[c].kind = "update" => req[c].upd \in Updates
        /\ pc[c] = "current" => req[c].kind = "claim"
        /\ pc[c] = "record" => req[c].kind \in {"claim", "close"}

\* Every step keeps the types.
LEMMA TypeStep == ASSUME TypeOK, \A c \in Clients : RequestOK(c), [Next]_vars
                  PROVE  TypeOK'
  <1> USE DEF dbVars, opVars, histVars
  <1>s. StoreTypeOK /\ OpTypeOK
    BY TypeSplit
  <1>1. ASSUME NEW t \in TaskIds, NEW p \in NewTasks, CreateTask(t, p)
        PROVE  TypeOK'
    <2>1. p \in NewTask
      BY ConstantsAssumption
    <2>2. \A s \in Stages : phaseForStage(s) \in Phases
      BY DEF phaseForStage, Phases, Stages, IntakeStages, ActiveStages, TerminalStages
    <2>3. [phase |-> phaseForStage(p.stage), stage |-> p.stage, hold |-> p.hold,
           assignee |-> p.assignee, start |-> p.start, closedAt |-> NoDate,
           labels |-> {}, version |-> 1] \in Row
      BY <2>1, <2>2 DEF NewTask, Row, Versions, Dates
    <2>4. EdgesOf(t, p.blocks, p.blockedBy) \subseteq Relationship
      BY <2>1 DEF EdgesOf, Relationship, NewTask
    <2>5. StoreTypeOK'
      BY <1>1, <1>s, <2>3, <2>4 DEF CreateTask, StoreTypeOK
    <2>6. OpTypeOK'
      BY <1>1, <1>s DEF CreateTask, OpTypeOK, InProgress
    <2> QED BY <2>5, <2>6, TypeSplit
  <1>2. ASSUME NEW c \in Clients,
               \/ RequestUpdate(c) \/ RequestClaim(c) \/ RequestClose(c) \/ RequestInsert(c)
        PROVE  TypeOK'
    <2>1. \A t \in TaskIds : \A v \in 0..rows[t].version : v \in Versions
      BY DEF TypeOK, Row, Versions
    <2>2. 0 \in Versions /\ NoStage \in CloseStages \cup {NoStage}
          /\ NoUpdate \in Updates \cup {NoUpdate}
      BY DEF Versions
    <2>3. PICK kind \in Kinds, t \in TaskIds, u \in Users, v \in Versions,
               p \in Updates \cup {NoUpdate}, s \in CloseStages \cup {NoStage} :
            Accept(c, kind, t, u, v, p, s)
      <3>1. CASE RequestUpdate(c)
        BY <3>1, <2>1, <2>2, Zenon DEF RequestUpdate, Kinds
      <3>2. CASE RequestClaim(c)
        BY <3>2, <2>1, <2>2, Zenon DEF RequestClaim, Kinds
      <3>3. CASE RequestClose(c)
        BY <3>3, <2>1, <2>2, Zenon DEF RequestClose, Kinds
      <3>4. CASE RequestInsert(c)
        BY <3>4, <2>1, <2>2, Zenon DEF RequestInsert, Kinds
      <3> QED BY <1>2, <3>1, <3>2, <3>3, <3>4
    <2>4. OpTypeOK'
      BY <2>3, <1>s, AcceptType
    <2>5. StoreTypeOK'
      BY <2>3, <1>s DEF Accept, StoreTypeOK
    <2> QED BY <2>4, <2>5, TypeSplit
  <1>3. ASSUME NEW c \in Clients, pc[c] \in PCs \ {"idle", "done"}
        PROVE  /\ InProgress(c) /\ req[c] \in Request /\ req[c].task \in TaskIds
               /\ rows[req[c].task] \in Row /\ req[c].upd \in Updates \cup {NoUpdate}
    BY <1>3 DEF InProgress, TypeOK, Request
  <1>4. ASSUME NEW c \in Clients, UpdateRead(c) PROVE TypeOK'
    <2>1. pc[c] \in PCs \ {"idle", "done"}
      BY <1>4 DEF UpdateRead, PCs
    <2>2. StoreTypeOK'
      BY <1>4, <1>s DEF UpdateRead, StoreTypeOK, BeginTx
    <2>3. ASSUME old' = [old EXCEPT ![c] = rows[req[c].task]], Continue(c, "write"),
                 UNCHANGED <<attempt, downstream>>
          PROVE  OpTypeOK'
      BY <2>1, <2>3, <1>3, <1>s, ContinueType DEF OpTypeOK, PCs
    <2>4. ASSUME Return(c, "invalid_argument") PROVE OpTypeOK'
      BY <2>4, <1>s, ReturnType DEF Answers
    <2>5. OpTypeOK'
      BY <1>4, <2>3, <2>4 DEF UpdateRead
    <2> QED BY <2>2, <2>5, TypeSplit
  <1>5. ASSUME NEW c \in Clients, UpdateWrite(c) PROVE TypeOK'
    <2> DEFINE t == req[c].task
               p == req[c].upd
               new == UpdatedRow(rows[t], old[c], p, ExpectedVersion(c))
    <2>1. pc[c] \in PCs \ {"idle", "done"}
      BY <1>5 DEF UpdateWrite, PCs
    <2>2. ExpectedVersion(c) \in Versions
      BY <2>1, <1>3 DEF ExpectedVersion, Request, TypeOK, Row
    <2>3. new \in Row
      BY <2>1, <2>2, <1>3, UpdatedRowType DEF TypeOK
    <2>4. RelsAfter(t, p) \subseteq Relationship
      <3>1. p \in Update
        BY <2>1, <1>3, ConstantsAssumption, NoUpdateType
      <3> QED BY <2>1, <3>1, <1>3 DEF RelsAfter, EdgesOf, Relationship, Update, TypeOK
    <2>5. rows' \in [TaskIds -> Row] /\ rels' \subseteq Relationship
      <3> HIDE DEF t, p, new
      <3>1. \/ rows' = [rows EXCEPT ![t] = new] /\ rels' = RelsAfter(t, p)
            \/ UNCHANGED <<rows, rels>>
        BY <1>5 DEF UpdateWrite, t, p, new
      <3> QED BY <3>1, <2>3, <2>4 DEF TypeOK
    <2>6. StoreTypeOK'
      BY <1>5, <2>5, <1>s DEF UpdateWrite, StoreTypeOK, EndTx
    <2>7. \/ RetryOrConflict(c) \/ \E answer \in Answers : Return(c, answer)
      BY <1>5 DEF UpdateWrite, Answers
    <2>8. OpTypeOK'
      BY <2>1, <2>7, <1>3, <1>s, ReturnType, RetryOrConflictType
    <2> QED BY <2>6, <2>8, TypeSplit
  <1>6. ASSUME NEW c \in Clients, ClaimRead(c) PROVE TypeOK'
    <2>1. pc[c] \in PCs \ {"idle", "done"}
      BY <1>6 DEF ClaimRead, PCs
    <2>2. StoreTypeOK'
      BY <1>6, <1>s DEF ClaimRead, StoreTypeOK, BeginTx
    <2>3. ASSUME old' = [old EXCEPT ![c] = rows[req[c].task]], Continue(c, "write"),
                 UNCHANGED <<attempt, downstream>>
          PROVE  OpTypeOK'
      BY <2>1, <2>3, <1>3, <1>s, ContinueType DEF OpTypeOK, PCs
    <2>4. ASSUME NEW answer \in Answers, Return(c, answer) PROVE OpTypeOK'
      BY <2>4, <1>s, ReturnType
    <2>5. OpTypeOK'
      BY <1>6, <2>3, <2>4 DEF ClaimRead, Answers
    <2> QED BY <2>2, <2>5, TypeSplit
  <1>7. ASSUME NEW c \in Clients, ClaimWrite(c) PROVE TypeOK'
    <2>1. pc[c] \in PCs \ {"idle", "done"}
      BY <1>7 DEF ClaimWrite, PCs
    <2>2. rows' \in [TaskIds -> Row]
      <3> DEFINE t == req[c].task
                 new == [rows[t] EXCEPT !.assignee = req[c].user,
                            !.phase = "in_progress", !.stage = "working",
                            !.hold = NoHold, !.version = old[c].version + 1]
      <3>1. new \in Row
        BY <2>1, <1>3, WrittenRowType
      <3>2. rows' = [rows EXCEPT ![t] = new] \/ rows' = rows
        BY <1>7 DEF ClaimWrite
      <3> HIDE DEF new, t
      <3> QED BY <3>1, <3>2, <1>s DEF StoreTypeOK
    <2>3. StoreTypeOK'
      BY <1>7, <2>2, <1>s DEF ClaimWrite, StoreTypeOK, EndTx
    <2>4. \/ Continue(c, "record") \/ Continue(c, "current")
      BY <1>7 DEF ClaimWrite
    <2>5. UNCHANGED <<attempt, old, downstream>>
      BY <1>7 DEF ClaimWrite
    <2>6. OpTypeOK'
      BY <2>1, <2>4, <2>5, <1>3, <1>s, ContinueType DEF OpTypeOK, PCs
    <2> QED BY <2>3, <2>6, TypeSplit
  <1>8. ASSUME NEW c \in Clients, ClaimCurrent(c) PROVE TypeOK'
    <2>1. pc[c] \in PCs \ {"idle", "done"}
      BY <1>8 DEF ClaimCurrent, PCs
    <2>2. StoreTypeOK'
      BY <1>8, <1>s DEF ClaimCurrent, StoreTypeOK
    <2>3. \/ RetryOrConflict(c) \/ \E answer \in Answers : Return(c, answer)
      BY <1>8 DEF ClaimCurrent, Answers
    <2>4. OpTypeOK'
      BY <2>1, <2>3, <1>3, <1>s, ReturnType, RetryOrConflictType
    <2> QED BY <2>2, <2>4, TypeSplit
  <1>9. ASSUME NEW c \in Clients, CloseRead(c) PROVE TypeOK'
    <2>1. pc[c] \in PCs \ {"idle", "done"}
      BY <1>9 DEF CloseRead, PCs
    <2>2. StoreTypeOK'
      BY <1>9, <1>s DEF CloseRead, StoreTypeOK
    <2>3. ASSUME old' = [old EXCEPT ![c] = rows[req[c].task]], Continue(c, "write"),
                 UNCHANGED <<attempt, downstream>>
          PROVE  OpTypeOK'
      BY <2>1, <2>3, <1>3, <1>s, ContinueType DEF OpTypeOK, PCs
    <2>4. ASSUME Return(c, "already_closed") PROVE OpTypeOK'
      BY <2>4, <1>s, ReturnType DEF Answers
    <2>5. OpTypeOK'
      BY <1>9, <2>3, <2>4 DEF CloseRead
    <2> QED BY <2>2, <2>5, TypeSplit
  <1>10. ASSUME NEW c \in Clients, CloseWrite(c) PROVE TypeOK'
    <2>1. pc[c] \in PCs \ {"idle", "done"} /\ req[c].kind = "close"
      BY <1>10 DEF CloseWrite, PCs
    <2>2. req[c].stage \in CloseStages
      BY <2>1, <1>3 DEF RequestOK
    <2>3. rows' \in [TaskIds -> Row]
      <3> DEFINE t == req[c].task
                 new == [rows[t] EXCEPT !.phase = "closed", !.stage = req[c].stage,
                            !.closedAt = now, !.version = old[c].version + 1]
      <3>1. new \in Row
        BY <2>1, <2>2, <1>3, WrittenRowType
      <3>2. rows' = [rows EXCEPT ![t] = new] \/ rows' = rows
        BY <1>10 DEF CloseWrite
      <3> HIDE DEF new, t
      <3> QED BY <3>1, <3>2, <1>s DEF StoreTypeOK
    <2>4. StoreTypeOK'
      BY <1>10, <2>3, <1>s DEF CloseWrite, StoreTypeOK
    <2>5. ASSUME Continue(c, "record"), UNCHANGED <<attempt, old, downstream>>
          PROVE  OpTypeOK'
      BY <2>1, <2>5, <1>3, <1>s, ContinueType DEF OpTypeOK, PCs
    <2>6. ASSUME RetryOrConflict(c) PROVE OpTypeOK'
      BY <2>1, <2>6, <1>3, <1>s, RetryOrConflictType
    <2>7. OpTypeOK'
      BY <1>10, <2>5, <2>6 DEF CloseWrite
    <2> QED BY <2>4, <2>7, TypeSplit
  <1>11. ASSUME NEW c \in Clients, Record(c) \/ RecordFails(c) PROVE TypeOK'
    <2>1. pc[c] \in PCs \ {"idle", "done"}
      BY <1>11 DEF Record, RecordFails, PCs
    <2>2. StoreTypeOK'
      BY <1>11, <2>1, <1>3, <1>s DEF Record, RecordFails, StoreTypeOK
    <2>3. Return(c, "ok") /\ "ok" \in Answers
      BY <1>11 DEF Record, RecordFails, Answers
    <2>4. OpTypeOK'
      BY <2>3, <1>s, ReturnType
    <2> QED BY <2>2, <2>4, TypeSplit
  <1>12. ASSUME NEW c \in Clients, InsertRead(c) PROVE TypeOK'
    <2>1. pc[c] \in PCs \ {"idle", "done"}
      BY <1>12 DEF InsertRead, PCs
    <2>2. StoreTypeOK'
      BY <1>12, <1>s DEF InsertRead, StoreTypeOK, BeginTx
    <2>3. old' \in [Clients -> Row] /\ downstream' \in [Clients -> SUBSET TaskIds]
      BY <1>12, <2>1, <1>3 DEF InsertRead, TypeOK
    <2>4. OpTypeOK'
      BY <1>12, <2>1, <2>3, <1>3, <1>s, ContinueType DEF InsertRead, OpTypeOK, PCs
    <2> QED BY <2>2, <2>4, TypeSplit
  <1>13. ASSUME NEW c \in Clients, InsertWrite(c) PROVE TypeOK'
    <2> DEFINE t == req[c].task
    <2>1. pc[c] \in PCs \ {"idle", "done"}
      BY <1>13 DEF InsertWrite, PCs
    <2>2. ASSUME NEW n \in 1..MaxSteps, NEW steps \in FreshIds(n),
                 rows' = [x \in TaskIds |->
                     IF \E i \in 1..n : steps[i] = x THEN InsertedRow
                     ELSE IF x = t THEN AnchorRow(c) ELSE rows[x]],
                 rels' = Spliced(t, steps, n, downstream[c])
          PROVE  rows' \in [TaskIds -> Row] /\ rels' \subseteq Relationship
      <3>1. steps \in [1..n -> TaskIds] /\ n \in Nat /\ n >= 1
        BY <2>2, ConstantsAssumption DEF FreshIds
      <3>2. Spliced(t, steps, n, downstream[c]) \subseteq Relationship
        <4>1. \A i \in 1..(n - 1) : i \in 1..n /\ i + 1 \in 1..n
          BY <3>1
        <4>2. 1 \in 1..n /\ n \in 1..n
          BY <3>1
        <4>3. \A i \in 1..n : steps[i] \in TaskIds
          BY <3>1
        <4> QED BY <2>1, <1>3, <4>1, <4>2, <4>3 DEF Spliced, Relationship, TypeOK
      <3>3. AnchorRow(c) \in Row /\ InsertedRow \in Row
        BY <2>1, <1>3, WrittenRowType DEF AnchorRow
      <3> QED BY <2>2, <3>2, <3>3 DEF TypeOK
    <2>3. rows' \in [TaskIds -> Row] /\ rels' \subseteq Relationship
      BY <1>13, <2>2, <1>s DEF InsertWrite, StoreTypeOK
    <2>4. StoreTypeOK'
      BY <1>13, <2>3, <1>s DEF InsertWrite, StoreTypeOK, EndTx
    <2>5. \E answer \in Answers : Return(c, answer)
      BY <1>13 DEF InsertWrite, Answers
    <2>6. OpTypeOK'
      BY <2>5, <1>s, ReturnType
    <2> QED BY <2>4, <2>6, TypeSplit
  <1>14. ASSUME NEW c \in Clients, Abort(c) PROVE TypeOK'
    <2>1. pc[c] \in PCs \ {"idle", "done"}
      BY <1>14 DEF Abort, InProgress, TypeOK
    <2>2. StoreTypeOK'
      BY <1>14, <2>1, <1>3, <1>s DEF Abort, StoreTypeOK
    <2>3. OpTypeOK'
      BY <1>14, <1>s, ReturnType DEF Abort, Answers
    <2> QED BY <2>2, <2>3, TypeSplit
  <1>15. CASE Tick
    <2>1. StoreTypeOK'
      BY <1>15, <1>s DEF Tick, StoreTypeOK
    <2>2. OpTypeOK'
      BY <1>15, <1>s DEF Tick, OpTypeOK, InProgress
    <2> QED BY <2>1, <2>2, TypeSplit
  <1>16. CASE UNCHANGED vars
    BY <1>16 DEF vars, TypeOK, InProgress
  <1> QED
    BY <1>1, <1>2, <1>4, <1>5, <1>6, <1>7, <1>8, <1>9, <1>10, <1>11, <1>12,
       <1>13, <1>14, <1>15, <1>16 DEF Next, Step

-----------------------------------------------------------------------------
(* What a step can do to one row *)

\* Somebody created t.
Born(t) ==
    /\ ~Exists(t)
    /\ rows'[t].version = 1
    /\ rows'[t].stage # "working"
    /\ rows'[t].phase = phaseForStage(rows'[t].stage)
    /\ validateTaskStateForWrite(rows'[t].stage, rows'[t].hold, rows'[t].start, FALSE, now)
    /\ now' = now

\* Request c wrote its task t.
UpdatedBy(c, t) ==
    /\ req[c].kind = "update" /\ VersionMatches(c, t) /\ UpdateCommits(c, t)
    /\ rows'[t] = UpdatedRow(rows[t], old[c], req[c].upd, ExpectedVersion(c))
ClaimedBy(c, t) ==
    /\ req[c].kind = "claim" /\ ClaimWhere(c, t)
    /\ rows'[t] = [rows[t] EXCEPT !.assignee = req[c].user, !.phase = "in_progress",
                      !.stage = "working", !.hold = NoHold,
                      !.version = old[c].version + 1]
ClosedBy(c, t) ==
    /\ req[c].kind = "close" /\ VersionMatches(c, t) /\ ConnFree
    /\ rows'[t] = [rows[t] EXCEPT !.phase = "closed", !.stage = req[c].stage,
                      !.closedAt = now, !.version = old[c].version + 1]
AnchoredBy(c, t) ==
    /\ req[c].kind = "insert"
    /\ rows'[t] = AnchorRow(c)

WrittenBy(c, t) ==
    /\ pc[c] = "write" /\ pc'[c] # "write" /\ req[c].task = t /\ now' = now
    /\ \/ UpdatedBy(c, t) \/ ClaimedBy(c, t) \/ ClosedBy(c, t) \/ AnchoredBy(c, t)

\* A step leaves a row alone, creates it, or is the write of one request.
LEMMA RowStep ==
    ASSUME TypeOK, [Next]_vars, NEW t \in TaskIds
    PROVE  \/ rows'[t] = rows[t]
           \/ Born(t)
           \/ \E c \in Clients : WrittenBy(c, t)
  <1> USE DEF dbVars, opVars, histVars
  <1>1. ASSUME NEW x \in TaskIds, NEW p \in NewTasks, CreateTask(x, p)
        PROVE  rows'[t] = rows[t] \/ Born(t)
    <2>1. p \in NewTask
      BY ConstantsAssumption
    <2>2. CASE x = t
      BY <1>1, <2>1, <2>2 DEF CreateTask, TypeOK, Born, NewTask
    <2> QED BY <1>1, <2>2 DEF CreateTask, TypeOK
  <1>2. ASSUME NEW c \in Clients, UpdateWrite(c)
        PROVE  rows'[t] = rows[t] \/ WrittenBy(c, t)
    <2>1. CASE req[c].task = t
      BY <1>2, <2>1 DEF UpdateWrite, TypeOK, WrittenBy, UpdatedBy, UpdateCommits, Return,
                             RetryOrConflict, Retry, Continue
    <2> QED BY <1>2, <2>1 DEF UpdateWrite, TypeOK
  <1>3. ASSUME NEW c \in Clients, ClaimWrite(c)
        PROVE  rows'[t] = rows[t] \/ WrittenBy(c, t)
    <2>1. CASE req[c].task = t
      BY <1>3, <2>1 DEF ClaimWrite, TypeOK, WrittenBy, ClaimedBy, Continue
    <2> QED BY <1>3, <2>1 DEF ClaimWrite, TypeOK
  <1>4. ASSUME NEW c \in Clients, CloseWrite(c)
        PROVE  rows'[t] = rows[t] \/ WrittenBy(c, t)
    <2>1. CASE req[c].task = t
      BY <1>4, <2>1 DEF CloseWrite, TypeOK, WrittenBy, ClosedBy, Continue
    <2> QED BY <1>4, <2>1 DEF CloseWrite, TypeOK
  <1>5. ASSUME NEW c \in Clients, InsertWrite(c)
        PROVE  rows'[t] = rows[t] \/ Born(t) \/ WrittenBy(c, t)
    <2>1. CASE UNCHANGED rows
      BY <2>1
    <2>2. ASSUME NEW n \in 1..MaxSteps, NEW steps \in FreshIds(n),
                 rows' = [x \in TaskIds |->
                     IF \E i \in 1..n : steps[i] = x THEN InsertedRow
                     ELSE IF x = req[c].task THEN AnchorRow(c) ELSE rows[x]]
          PROVE  rows'[t] = rows[t] \/ Born(t) \/ WrittenBy(c, t)
      <3>1. CASE \E i \in 1..n : steps[i] = t
        <4>1. ~Exists(t) /\ rows'[t] = InsertedRow /\ now' = now
          BY <3>1, <2>2, <1>5 DEF FreshIds, InsertWrite
        <4> QED BY <4>1 DEF Born, InsertedRow, NoRow, phaseForStage, IntakeStages,
                            ActiveStages, TerminalStages, validateTaskStateForWrite
      <3>2. CASE ~(\E i \in 1..n : steps[i] = t) /\ t = req[c].task
        BY <3>2, <2>2, <1>5 DEF InsertWrite, WrittenBy, AnchoredBy, Return, TypeOK
      <3> QED BY <3>1, <3>2, <2>2
    <2> QED BY <1>5, <2>1, <2>2 DEF InsertWrite
  <1>6. ASSUME NEW c \in Clients,
               \/ RequestUpdate(c) \/ RequestClaim(c) \/ RequestClose(c) \/ RequestInsert(c)
               \/ UpdateRead(c) \/ ClaimRead(c) \/ ClaimCurrent(c) \/ CloseRead(c)
               \/ Record(c) \/ RecordFails(c) \/ InsertRead(c) \/ Abort(c)
        PROVE  rows' = rows
    BY <1>6, Zenon DEF RequestUpdate, RequestClaim, RequestClose, RequestInsert, Accept, UpdateRead,
       ClaimRead, ClaimCurrent, CloseRead, Record, RecordFails, InsertRead, Abort
  <1>7. Tick \/ UNCHANGED vars => rows' = rows
    BY DEF Tick, vars
  <1> QED
    BY <1>1, <1>2, <1>3, <1>4, <1>5, <1>6, <1>7 DEF Next, Step

-----------------------------------------------------------------------------
(* What a step can do to one request *)

\* The edges that InsertTasksAfter takes apart.
BlockedFrom(t) == {d \in TaskIds : <<t, d, "blocks">> \in rels}

\* c has just read its task inside this step.
JustRead(c) ==
    /\ InProgress(c) /\ pc'[c] = "write" /\ req'[c] = req[c]
    /\ old'[c] = rows[req[c].task] /\ rows' = rows /\ now' = now
    /\ req[c].kind # "close" /\ SingleConn => conn' = c
    /\ req[c].kind = "close" => old'[c].phase # "closed"
    /\ rels' = rels
    /\ req[c].kind = "insert" => downstream'[c] = BlockedFrom(req[c].task)
    /\ req[c].kind = "update" =>
          validateTaskStateForWrite(StageAfter(old'[c], req[c].upd),
              HoldAfter(old'[c], req[c].upd), StartAfter(old'[c], req[c].upd),
              req[c].upd.clearStart, now)

JustAccepted(c) ==
    /\ pc'[c] = "read" /\ rows' = rows
    /\ req'[c].task \in TaskIds /\ Exists(req'[c].task)
    /\ req'[c].ver <= rows[req'[c].task].version
    /\ req'[c].kind = "close" => req'[c].stage \in CloseStages
    /\ req'[c].kind = "insert" => MaxSteps > 0
    /\ req'[c].kind = "update" => req'[c].upd \in Updates

Advanced(c) ==
    /\ InProgress(c) /\ req'[c] = req[c]
    /\ \/ pc'[c] = "read"
       \/ pc'[c] = "current" /\ req[c].kind = "claim"
       \/ pc'[c] = "record" /\ req[c].kind \in {"claim", "close"}

Idled(c) == pc'[c] \in {"idle", "done"}

Untouched(c) == /\ pc'[c] = pc[c] /\ req'[c] = req[c] /\ old'[c] = old[c]
                /\ downstream'[c] = downstream[c]

\* A step leaves a request alone, or starts it, ends it or moves it one
\* statement on.
LEMMA ClientStep ==
    ASSUME TypeOK, [Next]_vars, NEW c \in Clients
    PROVE  Untouched(c) \/ JustAccepted(c) \/ JustRead(c) \/ Advanced(c) \/ Idled(c)
  <1> USE DEF dbVars, opVars, histVars
  <1> DEFINE Goal == Untouched(c) \/ JustAccepted(c) \/ JustRead(c) \/ Advanced(c) \/ Idled(c)
  <1>1. ASSUME NEW d \in Clients, NEW answer, Return(d, answer) PROVE Goal
    BY <1>1 DEF Return, TypeOK, Untouched, Idled
  <1>2. ASSUME NEW d \in Clients, RetryOrConflict(d), InProgress(d) PROVE Goal
    <2>1. CASE Retry(d)
      BY <1>2, <2>1 DEF Retry, Continue, TypeOK, Untouched, Advanced
    <2> QED BY <1>2, <1>1, <2>1 DEF RetryOrConflict
  <1>3. ASSUME NEW d \in Clients, NEW kind, NEW t \in TaskIds, NEW u, NEW v, NEW p, NEW s,
               Accept(d, kind, t, u, v, p, s), v <= rows[t].version,
               kind = "close" => s \in CloseStages, kind = "insert" => MaxSteps > 0,
               kind = "update" => p \in Updates
        PROVE  Goal
    <2>1. CASE d = c
      BY <1>3, <2>1 DEF Accept, TypeOK, JustAccepted
    <2> QED BY <1>3, <2>1 DEF Accept, TypeOK, Untouched
  <1>4. ASSUME NEW d \in Clients, RequestUpdate(d) PROVE Goal
    BY <1>3, <1>4 DEF RequestUpdate, TypeOK, Row, Versions
  <1>5. ASSUME NEW d \in Clients, RequestClaim(d) PROVE Goal
    BY <1>3, <1>5 DEF RequestClaim, TypeOK, Row, Versions
  <1>6. ASSUME NEW d \in Clients, RequestClose(d) PROVE Goal
    BY <1>3, <1>6 DEF RequestClose, TypeOK, Row, Versions
  <1>7. ASSUME NEW d \in Clients, RequestInsert(d) PROVE Goal
    BY <1>3, <1>7 DEF RequestInsert, TypeOK, Row, Versions
  <1>8. ASSUME NEW d \in Clients, old' = [old EXCEPT ![d] = rows[req[d].task]],
               Continue(d, "write"), pc[d] = "read", UNCHANGED <<rows, rels, now>>,
               req[d].kind # "close" => BeginTx(d),
               req[d].kind = "close" => rows[req[d].task].phase # "closed",
               \/ downstream' = [downstream EXCEPT ![d] = BlockedFrom(req[d].task)]
               \/ UNCHANGED downstream /\ req[d].kind # "insert",
               req[d].kind = "update" =>
                  validateTaskStateForWrite(StageAfter(rows[req[d].task], req[d].upd),
                      HoldAfter(rows[req[d].task], req[d].upd),
                      StartAfter(rows[req[d].task], req[d].upd), req[d].upd.clearStart, now)
        PROVE  Goal
    <2>1. CASE d = c
      BY <1>8, <2>1 DEF Continue, TypeOK, JustRead, InProgress, BeginTx
    <2> QED BY <1>8, <2>1 DEF Continue, TypeOK, Untouched
  <1>9. ASSUME NEW d \in Clients, UpdateRead(d) PROVE Goal
    BY <1>9, <1>8, <1>1 DEF UpdateRead
  <1>10. ASSUME NEW d \in Clients, ClaimRead(d) PROVE Goal
    BY <1>10, <1>8, <1>1 DEF ClaimRead
  <1>11. ASSUME NEW d \in Clients, CloseRead(d) PROVE Goal
    BY <1>11, <1>8, <1>1 DEF CloseRead
  <1>12. ASSUME NEW d \in Clients, InsertRead(d) PROVE Goal
    BY <1>12, <1>8 DEF InsertRead, BlockedFrom
  <1>13. ASSUME NEW d \in Clients, UpdateWrite(d) PROVE Goal
    BY <1>13, <1>1, <1>2 DEF UpdateWrite, InProgress
  <1>14. ASSUME NEW d \in Clients, ClaimWrite(d) PROVE Goal
    BY <1>14 DEF ClaimWrite, Continue, TypeOK, Untouched, Advanced, InProgress
  <1>15. ASSUME NEW d \in Clients, CloseWrite(d) PROVE Goal
    <2>1. CASE Continue(d, "record") /\ UNCHANGED <<attempt, old, downstream>>
      BY <1>15, <2>1 DEF CloseWrite, Continue, TypeOK, Untouched, Advanced, InProgress
    <2> QED BY <1>15, <2>1, <1>2 DEF CloseWrite, InProgress
  <1>16. ASSUME NEW d \in Clients, ClaimCurrent(d) PROVE Goal
    BY <1>16, <1>1, <1>2 DEF ClaimCurrent, InProgress
  <1>17. ASSUME NEW d \in Clients,
                Record(d) \/ RecordFails(d) \/ InsertWrite(d) \/ Abort(d)
         PROVE  Goal
    BY <1>17, <1>1 DEF Record, RecordFails, InsertWrite, Abort
  <1>18. ASSUME Tick \/ UNCHANGED vars \/ \E t \in TaskIds, p \in NewTasks : CreateTask(t, p)
         PROVE  Goal
    BY <1>18 DEF Tick, vars, CreateTask, Untouched
  <1> HIDE DEF Goal
  <1>19. Goal
    BY <1>4, <1>5, <1>6, <1>7, <1>9, <1>10, <1>11, <1>12, <1>13, <1>14, <1>15, <1>16,
       <1>17, <1>18 DEF Next, Step
  <1> QED BY <1>19 DEF Goal

-----------------------------------------------------------------------------
(* Types are invariant *)

\* A written row never goes back to not being there.
LEMMA RowsStay ==
    ASSUME TypeOK, [Next]_vars, NEW t \in TaskIds, Exists(t)
    PROVE  rows'[t].version > 0
  <1>1. CASE rows'[t] = rows[t]
    BY <1>1 DEF Exists
  <1>2. CASE Born(t)
    BY <1>2 DEF Born
  <1>3. ASSUME NEW c \in Clients, WrittenBy(c, t) PROVE rows'[t].version > 0
    <2>1. /\ rows[t] \in Row /\ old[c].version \in Nat
          /\ pc[c] = "write" => ExpectedVersion(c) \in Nat
      BY DEF TypeOK, Row, Versions, ExpectedVersion, Request, InProgress
    <2>2. rows'[t].version = ExpectedVersion(c) + 1 \/ rows'[t].version = old[c].version + 1
      BY <1>3, <2>1 DEF WrittenBy, UpdatedBy, ClaimedBy, ClosedBy, AnchoredBy,
                        UpdatedRow, AnchorRow, Row
    <2> QED BY <2>1, <2>2, <1>3 DEF WrittenBy
  <1> QED BY <1>1, <1>2, <1>3, RowStep

\* A request keeps parameters of its kind, whoever takes the step.
LEMMA RequestStep ==
    ASSUME TypeOK, [Next]_vars, NEW c \in Clients, RequestOK(c)
    PROVE  RequestOK(c)'
  <1>1. InProgress(c) => req[c].task \in TaskIds
    BY DEF TypeOK, Request
  <1>2. InProgress(c) => rows'[req[c].task].version > 0
    BY <1>1, RowsStay DEF RequestOK, Exists
  <1>3. CASE Untouched(c)
    BY <1>2, <1>3 DEF Untouched, RequestOK, InProgress
  <1>4. CASE JustAccepted(c)
    BY <1>4 DEF JustAccepted, RequestOK, InProgress, Exists
  <1>5. CASE JustRead(c)
    BY <1>2, <1>5 DEF JustRead, RequestOK, InProgress
  <1>6. CASE Advanced(c)
    BY <1>2, <1>6 DEF Advanced, RequestOK, InProgress
  <1>7. CASE Idled(c)
    BY <1>7 DEF Idled, RequestOK, InProgress
  <1> QED BY <1>3, <1>4, <1>5, <1>6, <1>7, ClientStep

\* Types and the facts a request relies on: inductive together.
TypeInv == TypeOK /\ \A c \in Clients : RequestOK(c)

\* At the start no request is in progress.
LEMMA TypeInvInit == Init => TypeInv
  <1> SUFFICES ASSUME Init PROVE TypeInv
    OBVIOUS
  <1>1. TypeOK
    BY ConstantsAssumption, NoRowType
       DEF Init, TypeOK, Row, PCs, Answers, InProgress, Relationship
  <1>2. \A c \in Clients : RequestOK(c)
    BY DEF Init, RequestOK, InProgress
  <1> QED BY <1>1, <1>2 DEF TypeInv

\* Every step of every request keeps the types.
LEMMA TypeInvStep == TypeInv /\ [Next]_vars => TypeInv'
  BY TypeStep, RequestStep DEF TypeInv

\* The inductive form of TypeOK, for the theorems below.
LEMMA TypeInvAlways == Spec => []TypeInv
  BY TypeInvInit, TypeInvStep, PTL DEF Spec

\* The tables, the clock and every request keep their types, whatever the
\* requests and however their statements interleave.
THEOREM TypeCorrect == Spec => []TypeOK
  <1>1. TypeInv => TypeOK
    BY DEF TypeInv
  <1> QED BY <1>1, TypeInvAlways, PTL

-----------------------------------------------------------------------------
(* Phase and stage *)

\* A request that writes t leaves phase and stage in agreement.
LEMMA WriteKeepsPhase ==
    ASSUME TypeInv, NEW t \in TaskIds, rows[t].phase = phaseForStage(rows[t].stage),
           NEW c \in Clients, WrittenBy(c, t)
    PROVE  rows'[t].phase = phaseForStage(rows'[t].stage)
  <1>1. rows[t] \in Row /\ req[c].upd \in Update
    BY NoUpdateType, ConstantsAssumption DEF TypeInv, TypeOK, WrittenBy, InProgress, Request
  <1>2. CASE UpdatedBy(c, t)
    BY <1>1, <1>2 DEF UpdatedBy, UpdatedRow, Row, StageAfter
  <1>3. CASE ClaimedBy(c, t)
    BY <1>1, <1>3 DEF ClaimedBy, Row, phaseForStage, IntakeStages, ActiveStages, TerminalStages
  <1>4. CASE ClosedBy(c, t)
    <2>1. req[c].stage \in TerminalStages
      BY <1>4, ConstantsAssumption DEF ClosedBy, WrittenBy, TypeInv, RequestOK, InProgress
    <2> QED BY <1>1, <1>4, <2>1
            DEF ClosedBy, Row, phaseForStage, IntakeStages, ActiveStages, TerminalStages
  <1>5. CASE AnchoredBy(c, t)
    BY <1>1, <1>5 DEF AnchoredBy, AnchorRow, WrittenBy, Row
  <1> QED BY <1>2, <1>3, <1>4, <1>5 DEF WrittenBy

\* No interleaving of updates, claims, closes and inserts separates the phase
\* column from the stage column.
THEOREM PhaseCorrect == Spec => []PhaseMatchesStage
  <1>1. Init => PhaseMatchesStage
    BY DEF Init, PhaseMatchesStage, NoRow, phaseForStage, IntakeStages, ActiveStages,
           TerminalStages
  <1>2. TypeInv /\ PhaseMatchesStage /\ [Next]_vars => PhaseMatchesStage'
    <2> SUFFICES ASSUME TypeInv, PhaseMatchesStage, [Next]_vars, NEW t \in TaskIds
                 PROVE  rows'[t].phase = phaseForStage(rows'[t].stage)
      BY DEF PhaseMatchesStage
    <2>1. rows[t].phase = phaseForStage(rows[t].stage)
      BY DEF PhaseMatchesStage
    <2>2. CASE rows'[t] = rows[t]
      BY <2>1, <2>2
    <2>3. CASE Born(t)
      BY <2>3 DEF Born
    <2>4. CASE \E c \in Clients : WrittenBy(c, t)
      BY <2>1, <2>4, WriteKeepsPhase
    <2> QED BY <2>2, <2>3, <2>4, RowStep DEF TypeInv
  <1> QED BY <1>1, <1>2, TypeInvAlways, PTL DEF Spec

-----------------------------------------------------------------------------
(* Claims *)

\* Work starts only on a task that is ready when the claiming UPDATE runs.
THEOREM ClaimsAreReady == Spec => WorkStartsOnlyWhenReady
  <1>1. ASSUME TypeInv, [Next]_vars, NEW t \in TaskIds,
               rows[t].stage # "working", rows'[t].stage = "working"
        PROVE  /\ rows[t].stage = "accepted" /\ rows[t].assignee = NoUser
               /\ computeAvailability(t)
    <2>1. PICK c \in Clients : WrittenBy(c, t)
      BY <1>1, RowStep DEF TypeInv, Born
    <2>2. rows[t] \in Row /\ req[c].upd \in Update
      BY <2>1, <1>1, NoUpdateType, ConstantsAssumption
         DEF TypeInv, TypeOK, WrittenBy, InProgress, Request
    <2>3. ~UpdatedBy(c, t)
      <3>1. req[c].upd.stage # "working"
        BY <2>2 DEF Update, NoStage
      <3> QED BY <1>1, <2>2, <3>1 DEF UpdatedBy, UpdatedRow, Row, StageAfter
    <2>4. ~ClosedBy(c, t)
      <3>1. ClosedBy(c, t) => req[c].stage \in TerminalStages
        BY <1>1, <2>1, ConstantsAssumption DEF ClosedBy, WrittenBy, TypeInv, RequestOK, InProgress
      <3> QED BY <1>1, <2>2, <3>1 DEF ClosedBy, Row, TerminalStages
    <2>5. ~AnchoredBy(c, t)
      BY <1>1, <2>1, <2>2 DEF AnchoredBy, AnchorRow, WrittenBy, Row
    <2>6. ClaimWhere(c, t)
      BY <2>1, <2>3, <2>4, <2>5 DEF WrittenBy, ClaimedBy
    <2> QED BY <2>6 DEF ClaimWhere, computeAvailability, IsTerminalStage, TerminalStages
  <1>2. TypeInv /\ [Next]_vars =>
          [\A t \in TaskIds : rows[t].stage # "working" /\ rows'[t].stage = "working" =>
              /\ rows[t].stage = "accepted" /\ rows[t].assignee = NoUser
              /\ computeAvailability(t)]_vars
    BY <1>1
  <1> QED BY <1>2, TypeInvAlways, PTL DEF Spec, WorkStartsOnlyWhenReady

\* A row that was not written yet is empty.
AbsentInv == \A t \in TaskIds : Exists(t) \/ rows[t] = NoRow

\* Whatever is written to a row makes it one that exists.
LEMMA AbsentAlways == Spec => []AbsentInv
  <1>1. Init => AbsentInv
    BY DEF Init, AbsentInv
  <1>2. TypeInv /\ AbsentInv /\ [Next]_vars => AbsentInv'
    <2> SUFFICES ASSUME TypeInv, AbsentInv, [Next]_vars, NEW t \in TaskIds
                 PROVE  rows'[t].version > 0 \/ rows'[t] = NoRow
      BY DEF AbsentInv, Exists
    <2>1. CASE rows'[t] = rows[t]
      BY <2>1 DEF AbsentInv, Exists
    <2>2. CASE Born(t)
      BY <2>2 DEF Born
    <2>3. CASE \E c \in Clients : WrittenBy(c, t)
      <3>1. Exists(t)
        BY <2>3 DEF WrittenBy, TypeInv, RequestOK, InProgress, Exists
      <3> QED BY <3>1, RowsStay DEF TypeInv
    <2> QED BY <2>1, <2>2, <2>3, RowStep DEF TypeInv
  <1> QED BY <1>1, <1>2, TypeInvAlways, PTL DEF Spec

\* Of any number of racing claims one wins, and it keeps the task until an
\* update takes it away.
THEOREM AssigneesStay == Spec => AssigneeKept
  <1>1. ASSUME TypeInv, [Next]_vars, NEW t \in TaskIds,
               rows[t].assignee # NoUser, rows'[t].assignee # rows[t].assignee,
               Exists(t)
        PROVE  \E c \in Clients : /\ UpdateCommits(c, t)
                                  /\ \/ req[c].upd.clearAssignee
                                     \/ req[c].upd.assignee = rows'[t].assignee
    <2>1. PICK c \in Clients : WrittenBy(c, t)
      BY <1>1, RowStep DEF TypeInv, Born
    <2>2. rows[t] \in Row
      BY <1>1 DEF TypeInv, TypeOK
    <2>3. ~ClaimedBy(c, t)
      BY <1>1 DEF ClaimedBy, ClaimWhere
    <2>4. ~ClosedBy(c, t) /\ ~AnchoredBy(c, t)
      BY <1>1, <2>1, <2>2 DEF ClosedBy, AnchoredBy, AnchorRow, WrittenBy, Row
    <2>5. UpdatedBy(c, t)
      BY <2>1, <2>3, <2>4 DEF WrittenBy
    <2> QED BY <1>1, <2>2, <2>5 DEF UpdatedBy, UpdatedRow, Row
  <1>2. TypeInv /\ AbsentInv /\ [Next]_vars =>
          [\A t \in TaskIds :
              rows[t].assignee # NoUser /\ rows'[t].assignee # rows[t].assignee =>
              \E c \in Clients : /\ UpdateCommits(c, t)
                                 /\ \/ req[c].upd.clearAssignee
                                    \/ req[c].upd.assignee = rows'[t].assignee]_vars
    BY <1>1 DEF AbsentInv, NoRow
  <1> QED BY <1>2, TypeInvAlways, AbsentAlways, PTL DEF Spec, AssigneeKept

-----------------------------------------------------------------------------
(* Versions: on SQLite, and on Postgres as long as nothing is inserted *)

NoRewind == SingleConn \/ MaxSteps = 0

\* What a request that is about to write knows of the row it has read.
SnapshotOK(c) ==
    pc[c] = "write" =>
        LET t == req[c].task IN
        /\ req[c].ver <= old[c].version
        /\ old[c].version <= rows[t].version
        /\ old[c].version = rows[t].version => old[c] = rows[t]
        /\ SingleConn /\ req[c].kind # "close" => conn = c /\ old[c] = rows[t]
        /\ req[c].kind = "close" => old[c].phase # "closed"
        /\ SingleConn /\ req[c].kind = "insert" => downstream[c] = BlockedFrom(t)
        /\ req[c].kind = "update" =>
              validateTaskStateForWrite(StageAfter(old[c], req[c].upd),
                  HoldAfter(old[c], req[c].upd), StartAfter(old[c], req[c].upd),
                  req[c].upd.clearStart, now)

VerOK(c) == InProgress(c) => req[c].ver <= rows[req[c].task].version

\* A version names one state of a row: a snapshot with the row's version is
\* the row.
VersionInv == /\ TypeInv
              /\ \A c \in Clients : SnapshotOK(c) /\ VerOK(c)

\* Who finds the version it expects has read the row as it is.
LEMMA MatchIsFresh ==
    ASSUME VersionInv, NEW c \in Clients, pc[c] = "write", VersionMatches(c, req[c].task)
    PROVE  /\ old[c] = rows[req[c].task]
           /\ ExpectedVersion(c) = rows[req[c].task].version
  <1>1. /\ req[c] \in Request /\ old[c] \in Row /\ rows[req[c].task] \in Row
    BY DEF VersionInv, TypeInv, TypeOK, InProgress, Request
  <1> QED BY <1>1 DEF VersionInv, SnapshotOK, VersionMatches, ExpectedVersion, Row,
                      Request, Versions

\* Every write of a row raises its version.
LEMMA StrictStep ==
    ASSUME NoRewind, VersionInv, [Next]_vars, NEW t \in TaskIds
    PROVE  rows'[t] = rows[t] \/ rows'[t].version > rows[t].version
  <1>1. rows[t] \in Row
    BY DEF VersionInv, TypeInv, TypeOK
  <1>2. CASE Born(t)
    BY <1>1, <1>2 DEF Born, Exists, Row, Versions
  <1>3. ASSUME NEW c \in Clients, WrittenBy(c, t)
        PROVE  rows'[t].version > rows[t].version
    <2>1. rows[t].version \in Nat /\ pc[c] = "write" /\ req[c].task = t
      BY <1>1, <1>3 DEF Row, Versions, WrittenBy
    <2>2. CASE UpdatedBy(c, t)
      BY <1>1, <2>1, <2>2, MatchIsFresh DEF UpdatedBy, UpdatedRow, Row
    <2>3. CASE ClaimedBy(c, t)
      BY <1>1, <2>1, <2>3, MatchIsFresh DEF ClaimedBy, ClaimWhere, Row
    <2>4. CASE ClosedBy(c, t)
      BY <1>1, <2>1, <2>4, MatchIsFresh DEF ClosedBy, Row
    <2>5. CASE AnchoredBy(c, t)
      <3>1. SingleConn
        BY <2>1, <2>5, ConstantsAssumption
           DEF NoRewind, AnchoredBy, VersionInv, TypeInv, RequestOK, InProgress
      <3>2. old[c] = rows[t]
        BY <2>1, <2>5, <3>1 DEF AnchoredBy, VersionInv, SnapshotOK
      <3> QED BY <1>1, <2>1, <2>5, <3>2 DEF AnchoredBy, AnchorRow, Row
    <2> QED BY <1>3, <2>2, <2>3, <2>4, <2>5 DEF WrittenBy
  <1> QED BY <1>2, <1>3, RowStep DEF VersionInv, TypeInv

\* The clock does not go back.
LEMMA ClockStep == ASSUME TypeOK, [Next]_vars PROVE now' \in Nat /\ now' >= now
  <1> USE DEF TypeOK
  <1>1. CASE Tick
    BY <1>1 DEF Tick
  <1>2. ASSUME NEW t \in TaskIds, NEW p \in NewTasks, CreateTask(t, p) PROVE now' = now
    BY <1>2 DEF CreateTask
  <1>3. ASSUME NEW c \in Clients,
               RequestUpdate(c) \/ RequestClaim(c) \/ RequestClose(c) \/ RequestInsert(c)
        PROVE  now' = now
    BY <1>3 DEF RequestUpdate, RequestClaim, RequestClose, RequestInsert, Accept
  <1>4. ASSUME NEW c \in Clients,
               UpdateRead(c) \/ ClaimRead(c) \/ CloseRead(c) \/ InsertRead(c) \/ ClaimCurrent(c)
        PROVE  now' = now
    BY <1>4 DEF UpdateRead, ClaimRead, CloseRead, InsertRead, ClaimCurrent
  <1>5. ASSUME NEW c \in Clients,
               UpdateWrite(c) \/ ClaimWrite(c) \/ CloseWrite(c) \/ InsertWrite(c)
        PROVE  now' = now
    BY <1>5 DEF UpdateWrite, ClaimWrite, CloseWrite, InsertWrite
  <1>6. ASSUME NEW c \in Clients, Record(c) \/ RecordFails(c) \/ Abort(c) PROVE now' = now
    BY <1>6 DEF Record, RecordFails, Abort
  <1>7. CASE UNCHANGED vars
    BY <1>7 DEF vars
  <1>8. CASE \E c \in Clients : Step(c)
    BY <1>4, <1>5, <1>6, <1>8 DEF Step
  <1> QED BY <1>1, <1>2, <1>3, <1>6, <1>7, <1>8 DEF Next

\* What is valid stays valid as time passes.
LEMMA ValidLater ==
    ASSUME NEW stage, NEW hold, NEW start \in Dates, NEW clearing,
           NEW n \in Nat, NEW m \in Nat, m >= n,
           validateTaskStateForWrite(stage, hold, start, clearing, n)
    PROVE  validateTaskStateForWrite(stage, hold, start, clearing, m)
  BY DEF validateTaskStateForWrite, InFuture, Dates, NoDate

\* While a transaction holds the only connection nobody else writes a row or an
\* edge.
LEMMA ConnStep ==
    ASSUME SingleConn, VersionInv, [Next]_vars, NEW c \in Clients,
           pc[c] = "write", req[c].kind # "close", pc'[c] = "write"
    PROVE  conn' = c /\ UNCHANGED <<rows, rels>>
  <1> USE DEF dbVars, opVars, histVars
  <1>1. conn = c /\ c # NoClient /\ ~ConnFree
    BY ConstantsAssumption DEF VersionInv, SnapshotOK, ConnFree
  <1>2. ASSUME NEW d \in Clients, pc[d] = "write", req[d].kind # "close" PROVE d = c
    BY <1>1, <1>2 DEF VersionInv, SnapshotOK
  <1>3. ASSUME NEW d \in Clients, UpdateWrite(d) \/ ClaimWrite(d) \/ InsertWrite(d)
        PROVE  FALSE
    <2>1. d = c
      BY <1>2, <1>3 DEF UpdateWrite, ClaimWrite, InsertWrite
    <2> QED BY <1>3, <2>1 DEF UpdateWrite, ClaimWrite, InsertWrite, RetryOrConflict, Retry,
                              Continue, Return, VersionInv, TypeInv, TypeOK
  <1>4. ASSUME NEW d \in Clients,
               \/ UpdateRead(d) \/ ClaimRead(d) \/ CloseRead(d) \/ InsertRead(d)
               \/ CloseWrite(d) \/ ClaimCurrent(d) \/ Record(d) \/ RecordFails(d)
        PROVE  FALSE
    BY <1>1, <1>4 DEF UpdateRead, ClaimRead, CloseRead, InsertRead, CloseWrite, ClaimCurrent,
                      Record, RecordFails, BeginTx
  <1>5. ASSUME NEW d \in Clients, Abort(d) PROVE conn' = c /\ UNCHANGED <<rows, rels>>
    <2>1. d # c
      BY <1>5 DEF Abort, Return, VersionInv, TypeInv, TypeOK
    <2> QED BY <1>1, <1>5, <2>1 DEF Abort
  <1>6. ASSUME NEW d \in Clients,
               \/ RequestUpdate(d) \/ RequestClaim(d) \/ RequestClose(d) \/ RequestInsert(d)
        PROVE  conn' = c /\ UNCHANGED <<rows, rels>>
    BY <1>1, <1>6, Zenon DEF RequestUpdate, RequestClaim, RequestClose, RequestInsert, Accept
  <1>7. ~(\E t \in TaskIds, p \in NewTasks : CreateTask(t, p))
    BY <1>1 DEF CreateTask
  <1>8. Tick \/ UNCHANGED vars => conn' = c /\ UNCHANGED <<rows, rels>>
    BY <1>1 DEF Tick, vars
  <1> QED BY <1>3, <1>4, <1>5, <1>6, <1>7, <1>8 DEF Next, Step

\* At the start nobody has read a row.
LEMMA VersionInvInit == Init => VersionInv
  BY TypeInvInit DEF VersionInv, Init, SnapshotOK, VerOK, InProgress

\* No step makes a row older than what some request has read of it.
LEMMA VersionInvStep == ASSUME NoRewind PROVE VersionInv /\ [Next]_vars => VersionInv'
  <1> SUFFICES ASSUME VersionInv, [Next]_vars PROVE VersionInv'
    OBVIOUS
  <1>1. TypeInv'
    BY TypeInvStep DEF VersionInv
  <1>2. ASSUME NEW c \in Clients, InProgress(c)
        PROVE  /\ req[c] \in Request /\ req[c].task \in TaskIds /\ old[c] \in Row
               /\ rows[req[c].task] \in Row /\ rows'[req[c].task] \in Row
               /\ req[c].upd \in Update
    BY <1>1, <1>2, ConstantsAssumption, NoUpdateType DEF VersionInv, TypeInv, TypeOK, Request
  <1>3. ASSUME NEW c \in Clients, InProgress(c)
        PROVE  \/ rows'[req[c].task] = rows[req[c].task]
               \/ rows'[req[c].task].version > rows[req[c].task].version
    BY <1>2, <1>3, StrictStep
  <1>4. ASSUME NEW c \in Clients PROVE VerOK(c)'
    <2>1. CASE JustAccepted(c)
      BY <2>1 DEF JustAccepted, VerOK
    <2>2. CASE InProgress(c) /\ req'[c] = req[c]
      BY <1>2, <1>3, <2>2 DEF VersionInv, VerOK, Request, Row, Versions
    <2>3. CASE Idled(c)
      BY <2>3 DEF Idled, VerOK, InProgress
    <2>4. CASE ~InProgress(c) /\ pc'[c] = pc[c]
      BY <2>4 DEF VerOK, InProgress
    <2> QED BY <2>1, <2>2, <2>3, <2>4, ClientStep
            DEF Untouched, JustRead, Advanced, VersionInv, TypeInv
  <1>5. ASSUME NEW c \in Clients, pc'[c] = "write" PROVE SnapshotOK(c)'
    <2>1. Untouched(c) \/ JustRead(c)
      BY <1>5, ClientStep DEF VersionInv, TypeInv, JustAccepted, Advanced, Idled
    <2>2. InProgress(c) /\ req'[c] = req[c]
      BY <1>5, <2>1 DEF Untouched, JustRead, InProgress
    <2>3. CASE JustRead(c)
      <3>1. SingleConn /\ req[c].kind = "insert" =>
               downstream'[c] = {d \in TaskIds : <<req'[c].task, d, "blocks">> \in rels'}
        BY <2>2, <2>3 DEF JustRead, BlockedFrom
      <3> QED BY <2>2, <2>3, <3>1, <1>2
              DEF JustRead, SnapshotOK, VersionInv, VerOK, Row, Versions, BlockedFrom
    <2>4. CASE Untouched(c)
      <3> DEFINE t == req[c].task
                 p == req[c].upd
      <3>1. pc[c] = "write" /\ old'[c] = old[c] /\ SnapshotOK(c)
        BY <1>5, <2>4 DEF Untouched, VersionInv
      <3>2. /\ req[c].ver <= old[c].version /\ old[c].version <= rows'[t].version
            /\ old[c].version = rows'[t].version => old[c] = rows'[t]
        BY <3>1, <2>2, <1>2, <1>3 DEF SnapshotOK, Row, Versions
      <3>3. SingleConn /\ req[c].kind # "close" =>
               conn' = c /\ old[c] = rows'[t] /\ rels' = rels
        BY <3>1, <1>5, ConnStep DEF SnapshotOK
      <3>4. req[c].kind = "update" =>
              validateTaskStateForWrite(StageAfter(old[c], p), HoldAfter(old[c], p),
                  StartAfter(old[c], p), p.clearStart, now')
        <4>1. StartAfter(old[c], p) \in Dates
          BY <2>2, <1>2 DEF StartAfter, Update, Row, Dates, NoDate
        <4>2. now \in Nat /\ now' \in Nat /\ now' >= now
          BY ClockStep DEF VersionInv, TypeInv, TypeOK
        <4> QED BY <4>1, <4>2, <3>1, ValidLater DEF SnapshotOK
      <3>5. SingleConn /\ req[c].kind = "insert" =>
               downstream'[c] = {d \in TaskIds : <<req'[c].task, d, "blocks">> \in rels'}
        BY <2>2, <2>4, <3>1, <3>3 DEF Untouched, SnapshotOK, BlockedFrom
      <3> QED BY <2>2, <3>1, <3>2, <3>3, <3>4, <3>5 DEF SnapshotOK, BlockedFrom
    <2> QED BY <2>1, <2>3, <2>4
  <1> QED BY <1>1, <1>4, <1>5 DEF VersionInv, SnapshotOK

\* The inductive form of the versions, for the theorems below.
LEMMA VersionInvAlways == ASSUME NoRewind PROVE Spec => []VersionInv
  BY VersionInvInit, VersionInvStep, PTL DEF Spec

\* Where no insert runs beside other writers, every write of a row raises its
\* version: the compare-and-swap of the writers is sound.
THEOREM VersionsRise == ASSUME NoRewind PROVE Spec => VersionMonotonic
  <1>1. VersionInv /\ [Next]_vars =>
          [\A t \in TaskIds : rows'[t] # rows[t] => rows'[t].version > rows[t].version]_vars
    BY StrictStep
  <1> QED BY <1>1, VersionInvAlways, PTL DEF Spec, VersionMonotonic

\* A label disappears only by an update that asked to remove it, although
\* labels are merged in memory.
THEOREM LabelsStay == ASSUME NoRewind PROVE Spec => NoLostLabel
  <1>1. ASSUME VersionInv, AbsentInv, [Next]_vars, NEW t \in TaskIds,
               NEW l \in rows[t].labels \ rows'[t].labels
        PROVE  \E c \in Clients : UpdateCommits(c, t) /\ l \in req[c].upd.removeLabels
    <2>0. rows'[t] # rows[t] /\ Exists(t)
      BY <1>1 DEF AbsentInv, NoRow
    <2>1. PICK c \in Clients : WrittenBy(c, t)
      BY <1>1, <2>0, RowStep DEF VersionInv, TypeInv, Born
    <2>2. rows[t] \in Row
      BY <1>1 DEF VersionInv, TypeInv, TypeOK
    <2>3. ~ClaimedBy(c, t) /\ ~ClosedBy(c, t) /\ ~AnchoredBy(c, t)
      BY <2>1, <2>2 DEF WrittenBy, ClaimedBy, ClosedBy, AnchoredBy, AnchorRow, Row
    <2>4. UpdatedBy(c, t)
      BY <2>1, <2>3 DEF WrittenBy
    <2>5. old[c] = rows[t]
      BY <1>1, <2>1, <2>4, MatchIsFresh DEF UpdatedBy, WrittenBy
    <2> QED BY <2>2, <2>4, <2>5 DEF UpdatedBy, UpdatedRow, LabelsAfter, Row
  <1>2. VersionInv /\ AbsentInv /\ [Next]_vars =>
          [\A t \in TaskIds : \A l \in rows[t].labels \ rows'[t].labels :
             \E c \in Clients : UpdateCommits(c, t) /\ l \in req[c].upd.removeLabels]_vars
    BY <1>1
  <1> QED BY <1>2, VersionInvAlways, AbsentAlways, PTL DEF Spec, NoLostLabel

\* A task that is not closed is never held in a stage that cannot be held nor
\* deferred beside a future start date, although a write validates the row it
\* has read and not the row it writes.
THEOREM HoldsValid == ASSUME NoRewind PROVE Spec => []HoldStateValid
  <1>1. Init => HoldStateValid
    BY DEF Init, HoldStateValid, NoRow, validateTaskStateForWrite
  <1>2. VersionInv /\ HoldStateValid /\ [Next]_vars => HoldStateValid'
    <2> SUFFICES ASSUME VersionInv, HoldStateValid, [Next]_vars, NEW t \in TaskIds,
                        rows'[t].phase # "closed"
                 PROVE  validateTaskStateForWrite(rows'[t].stage, rows'[t].hold,
                                                  rows'[t].start, FALSE, now')
      BY DEF HoldStateValid
    <2>1. rows[t] \in Row
      BY DEF VersionInv, TypeInv, TypeOK
    <2>2. now \in Nat /\ now' \in Nat /\ now' >= now
      BY ClockStep DEF VersionInv, TypeInv, TypeOK
    <2>3. ASSUME rows'[t].stage = rows[t].stage, rows'[t].hold = rows[t].hold,
                 rows'[t].start = rows[t].start, rows'[t].phase = rows[t].phase
          PROVE  validateTaskStateForWrite(rows'[t].stage, rows'[t].hold,
                                           rows'[t].start, FALSE, now')
      <3>1. validateTaskStateForWrite(rows[t].stage, rows[t].hold, rows[t].start, FALSE, now)
        BY <2>3 DEF HoldStateValid
      <3>2. rows[t].start \in Dates
        BY <2>1 DEF Row
      <3> QED BY <2>2, <2>3, <3>1, <3>2, ValidLater
    <2>4. CASE Born(t)
      BY <2>4 DEF Born
    <2>5. ASSUME NEW c \in Clients, WrittenBy(c, t)
          PROVE  validateTaskStateForWrite(rows'[t].stage, rows'[t].hold,
                                           rows'[t].start, FALSE, now')
      <3>1. CASE UpdatedBy(c, t)
        <4> DEFINE p == req[c].upd
        <4>1. old[c] = rows[t] /\ p \in Update
          BY <3>1, <2>5, MatchIsFresh, NoUpdateType, ConstantsAssumption
             DEF UpdatedBy, WrittenBy, VersionInv, TypeInv, TypeOK, InProgress, Request
        <4>2. validateTaskStateForWrite(StageAfter(rows[t], p), HoldAfter(rows[t], p),
                 StartAfter(rows[t], p), p.clearStart, now) /\ now' = now
          BY <3>1, <2>5, <4>1 DEF UpdatedBy, WrittenBy, VersionInv, SnapshotOK
        <4>3. /\ rows'[t].stage = StageAfter(rows[t], p)
              /\ rows'[t].start = StartAfter(rows[t], p)
              /\ rows'[t].hold = IF HoldAfter(rows[t], p) # rows[t].hold \/ p.clearHold
                                    \/ p.hold # NoHold
                                 THEN HoldAfter(rows[t], p) ELSE rows[t].hold
          BY <3>1, <4>1, <2>1 DEF UpdatedBy, UpdatedRow, Row
        <4>4. rows'[t].hold = HoldAfter(rows[t], p)
          BY <4>3
        <4>5. p.clearStart => StartAfter(rows[t], p) = NoDate
          BY DEF StartAfter
        <4> QED BY <4>2, <4>3, <4>4, <4>5 DEF validateTaskStateForWrite, InFuture
      <3>2. CASE ClaimedBy(c, t)
        BY <3>2, <2>1 DEF ClaimedBy, Row, validateTaskStateForWrite
      <3>3. ~ClosedBy(c, t)
        BY <2>1 DEF ClosedBy, Row
      <3>4. CASE AnchoredBy(c, t)
        BY <3>4, <2>1, <2>3, <2>5 DEF AnchoredBy, AnchorRow, WrittenBy, Row
      <3> QED BY <2>5, <3>1, <3>2, <3>3, <3>4 DEF WrittenBy
    <2> QED BY <2>3, <2>4, <2>5, RowStep DEF VersionInv, TypeInv
  <1> QED BY <1>1, <1>2, VersionInvAlways, PTL DEF Spec

-----------------------------------------------------------------------------
(* Order *)

\* A set of natural numbers that is not empty has a least element.
LEMMA Least ==
    ASSUME NEW T, T \subseteq Nat, T # {}
    PROVE  \E x \in T : \A y \in T : x <= y
  <1>1. PICK x \in T : \A y \in T : ~(<<y, x>> \in OpToRel(<, Nat))
    BY NatLessThanWellFounded, WFMin
  <1>2. ASSUME NEW y \in T, ~(x <= y) PROVE <<y, x>> \in OpToRel(<, Nat)
    <2>1. y \in Nat /\ x \in Nat /\ y < x
      BY <1>2
    <2> QED BY <2>1, Zenon DEF OpToRel
  <1> QED BY <1>1, <1>2

\* A set that has the first of the steps and follows the edges between them
\* has the last.
LEMMA ChainReaches ==
    ASSUME NEW n \in Nat, n >= 1, NEW steps, NEW S, steps[1] \in S,
           \A i \in 1..(n - 1) : steps[i] \in S => steps[i + 1] \in S
    PROVE  steps[n] \in S
  <1> DEFINE T == {i \in 1..n : steps[i] \notin S}
  <1> SUFFICES ASSUME steps[n] \notin S PROVE FALSE
    OBVIOUS
  <1>1. PICK x \in T : \A y \in T : x <= y
    <2>1. n \in T /\ T \subseteq Nat
      OBVIOUS
    <2> HIDE DEF T
    <2> QED BY <2>1, Least
  <1>2. x \in 2..n
    BY <1>1
  <1>3. x - 1 \in 1..(n - 1) /\ x - 1 \notin T /\ (x - 1) + 1 = x
    BY <1>1, <1>2
  <1> QED BY <1>1, <1>3

\* Whatever the edges are when the insert commits and whatever they were when
\* it read them, what came after a task comes after it still.
LEMMA SplicedKeepsOrder ==
    ASSUME NEW t \in TaskIds, NEW n \in Nat, n >= 1, NEW steps \in [1..n -> TaskIds],
           NEW targets \in SUBSET TaskIds, NEW a, NEW b, Precedes(rels, a, b)
    PROVE  Precedes(Spliced(t, steps, n, targets), a, b)
  <1> DEFINE R == Spliced(t, steps, n, targets)
  <1> SUFFICES ASSUME NEW S \in SUBSET TaskIds, a \in S,
                      \A x \in S, y \in TaskIds : <<x, y, "blocks">> \in R => y \in S
               PROVE  b \in S
    BY DEF Precedes
  <1>1. ASSUME NEW x \in S, NEW y \in TaskIds, <<x, y, "blocks">> \in rels
        PROVE  y \in S
    <2>1. CASE <<x, y, "blocks">> \in R
      BY <2>1
    <2>2. CASE <<x, y, "blocks">> \notin R
      <3>1. x = t /\ y \in targets
        BY <1>1, <2>2 DEF Spliced
      <3>2. /\ <<t, steps[1], "blocks">> \in R
            /\ \A i \in 1..(n - 1) : <<steps[i], steps[i + 1], "blocks">> \in R
            /\ <<steps[n], y, "blocks">> \in R
        BY <3>1 DEF Spliced
      <3>3. \A i \in 1..n : steps[i] \in TaskIds
        OBVIOUS
      <3> HIDE DEF R
      <3>4. steps[1] \in S
        BY <3>1, <3>2, <3>3
      <3>5. ASSUME NEW i \in 1..(n - 1), steps[i] \in S PROVE steps[i + 1] \in S
        <4>1. i + 1 \in 1..n
          OBVIOUS
        <4> QED BY <3>2, <3>3, <3>5, <4>1
      <3>6. steps[n] \in S
        BY <3>4, <3>5, ChainReaches
      <3> QED BY <3>2, <3>6
    <2> QED BY <2>1, <2>2
  <1> QED BY <1>1 DEF Precedes

\* A request that has not returned has no answer.
AnswerInv == \A c \in Clients : pc[c] # "done" => res[c] = "none"

\* A request gets its answer where it returns.
LEMMA AnswerStep == ASSUME TypeOK, AnswerInv, [Next]_vars PROVE AnswerInv'
  <1> USE DEF dbVars, opVars, histVars
  <1>1. ASSUME NEW d \in Clients, NEW answer, Return(d, answer) PROVE AnswerInv'
    BY <1>1 DEF Return, AnswerInv, TypeOK
  <1>2. ASSUME NEW d \in Clients, NEW next, Continue(d, next), pc[d] # "done"
        PROVE  AnswerInv'
    BY <1>2 DEF Continue, AnswerInv, TypeOK
  <1>3. ASSUME NEW d \in Clients, RetryOrConflict(d), pc[d] # "done" PROVE AnswerInv'
    BY <1>1, <1>2, <1>3 DEF RetryOrConflict, Retry
  <1>4. ASSUME NEW d \in Clients,
               \/ RequestUpdate(d) \/ RequestClaim(d) \/ RequestClose(d) \/ RequestInsert(d)
        PROVE  AnswerInv'
    <2>1. pc' = [pc EXCEPT ![d] = "read"] /\ res' = res /\ pc[d] = "idle"
      BY <1>4, Zenon DEF RequestUpdate, RequestClaim, RequestClose, RequestInsert, Accept
    <2> QED BY <2>1 DEF AnswerInv, TypeOK
  <1>5. ASSUME NEW d \in Clients, Step(d) PROVE AnswerInv'
    <2>1. pc[d] # "done"
      BY <1>5 DEF Step, UpdateRead, UpdateWrite, ClaimRead, ClaimWrite, ClaimCurrent,
                  CloseRead, CloseWrite, Record, RecordFails, InsertRead, InsertWrite
    <2>2. \/ \E answer : Return(d, answer)
          \/ \E next : Continue(d, next)
          \/ RetryOrConflict(d)
      BY <1>5, Zenon DEF Step, UpdateRead, UpdateWrite, ClaimRead, ClaimWrite, ClaimCurrent,
                  CloseRead, CloseWrite, Record, RecordFails, InsertRead, InsertWrite
    <2> QED BY <2>1, <2>2, <1>1, <1>2, <1>3
  <1>6. ASSUME NEW d \in Clients, Abort(d) PROVE AnswerInv'
    BY <1>1, <1>6 DEF Abort
  <1>7. ASSUME Tick \/ UNCHANGED vars \/ \E t \in TaskIds, p \in NewTasks : CreateTask(t, p)
        PROVE  AnswerInv'
    BY <1>7 DEF Tick, vars, CreateTask, AnswerInv
  <1> QED BY <1>4, <1>5, <1>6, <1>7 DEF Next

\* Splicing steps in behind an anchor loses no order, also when the edges have
\* changed since the request read them.
THEOREM OrderKept == Spec => InsertKeepsOrder
  <1>1. ASSUME TypeInv, AnswerInv, [Next]_vars, NEW c \in Clients,
               pc[c] = "write", req[c].kind = "insert", res'[c] = "ok",
               NEW a \in TaskIds, NEW b \in TaskIds, Precedes(rels, a, b)
        PROVE  Precedes(rels', a, b)
    <2> USE DEF dbVars, opVars, histVars
    <2>1. CASE rels \subseteq rels'
      BY <1>1, <2>1 DEF Precedes
    <2>2. ASSUME NEW d \in Clients, InsertWrite(d) PROVE Precedes(rels', a, b)
      <3>1. CASE UNCHANGED rels
        BY <2>1, <3>1
      <3>2. ASSUME NEW n \in 1..MaxSteps, NEW steps \in FreshIds(n),
                   rels' = Spliced(req[d].task, steps, n, downstream[d])
            PROVE  Precedes(rels', a, b)
        <4>1. steps \in [1..n -> TaskIds] /\ n \in Nat /\ n >= 1
          BY ConstantsAssumption DEF FreshIds
        <4>2. req[d].task \in TaskIds /\ downstream[d] \in SUBSET TaskIds
          BY <1>1, <2>2 DEF InsertWrite, InProgress, TypeInv, TypeOK, Request
        <4> QED BY <1>1, <3>2, <4>1, <4>2, SplicedKeepsOrder
      <3> QED BY <2>2, <3>1, <3>2 DEF InsertWrite
    \* an update is not the step that answers the insert
    <2>3. ASSUME NEW d \in Clients, UpdateWrite(d) PROVE FALSE
      <3>1. d # c /\ res[c] = "none"
        BY <1>1, <2>3 DEF UpdateWrite, AnswerInv
      <3>2. res'[c] = res[c]
        BY <1>1, <2>3, <3>1 DEF UpdateWrite, RetryOrConflict, Retry, Continue, Return,
                                TypeInv, TypeOK
      <3> QED BY <1>1, <3>1, <3>2
    <2>4. ASSUME NEW t \in TaskIds, NEW p \in NewTasks, CreateTask(t, p)
          PROVE  rels \subseteq rels'
      BY <2>4 DEF CreateTask
    <2>5. ASSUME NEW d \in Clients,
               \/ RequestUpdate(d) \/ RequestClaim(d) \/ RequestClose(d) \/ RequestInsert(d)
               \/ UpdateRead(d) \/ ClaimRead(d) \/ ClaimWrite(d) \/ ClaimCurrent(d)
               \/ CloseRead(d) \/ CloseWrite(d) \/ Record(d) \/ RecordFails(d)
               \/ InsertRead(d) \/ Abort(d)
          PROVE  rels' = rels
      BY <2>5, Zenon DEF RequestUpdate, RequestClaim, RequestClose, RequestInsert, Accept,
         UpdateRead, ClaimRead, ClaimWrite, ClaimCurrent, CloseRead, CloseWrite, Record,
         RecordFails, InsertRead, Abort
    <2>6. Tick \/ UNCHANGED vars => rels' = rels
      BY DEF Tick, vars
    <2> QED BY <1>1, <2>1, <2>2, <2>3, <2>4, <2>5, <2>6 DEF Next, Step
  <1>2. Init => AnswerInv
    BY DEF Init, AnswerInv
  <1>3. TypeInv /\ AnswerInv /\ [Next]_vars => AnswerInv'
    BY AnswerStep DEF TypeInv
  <1>4. TypeInv /\ AnswerInv /\ [Next]_vars =>
          [\A c \in Clients :
            pc[c] = "write" /\ req[c].kind = "insert" /\ res'[c] = "ok" =>
              \A a, b \in TaskIds : Precedes(rels, a, b) => Precedes(rels', a, b)]_vars
    BY <1>1
  <1> QED BY <1>2, <1>3, <1>4, TypeInvAlways, PTL DEF Spec, InsertKeepsOrder

-----------------------------------------------------------------------------
(* The audit trail: on SQLite, and on Postgres as long as nothing is inserted *)

\* A Change row tells who last changed column f of t, and to what.
Logged(t, f) == \E ch \in changes[t][f] : ch[1] = author[t][f] /\ ch[3] = rows[t][f]

\* The request that last changed column f of t is about to write that row: it
\* remembers a value from before its commit.
Owed(t, f) == \E c \in Clients : /\ pc[c] = "record" /\ req[c].task = t
                                 /\ req[c].user = author[t][f]
                                 /\ old[c][f] # rows[t][f]

AuditOK(t, f) == t \notin unlogged /\ author[t][f] # NoUser => Logged(t, f) \/ Owed(t, f)

\* Every change is logged or owed; what does not exist has no author.
AuditInv ==
    /\ changes = [t \in TaskIds |-> [f \in AuditedFields |-> changes[t][f]]]
    /\ author = [t \in TaskIds |-> [f \in AuditedFields |-> author[t][f]]]
    /\ \A t \in TaskIds, f \in AuditedFields :
          /\ AuditOK(t, f)
          /\ ~Exists(t) => author[t][f] = NoUser

\* At the start nothing is written and nothing recorded.
LEMMA AuditInvInit == Init => AuditInv
  BY DEF Init, AuditInv, AuditOK

\* Nothing happened to column f of t: what was owed is still owed.
LEMMA AuditKept ==
    ASSUME NEW t \in TaskIds, NEW f \in AuditedFields, AuditOK(t, f),
           rows'[t][f] = rows[t][f], author'[t][f] = author[t][f],
           changes[t][f] \subseteq changes'[t][f], unlogged \subseteq unlogged',
           \A c \in Clients : pc[c] = "record" /\ req[c].task = t =>
               pc'[c] = "record" /\ req'[c] = req[c] /\ old'[c] = old[c]
    PROVE  AuditOK(t, f)'
  <1>1. ASSUME Logged(t, f) PROVE Logged(t, f)'
    BY <1>1 DEF Logged
  <1>2. ASSUME Owed(t, f) PROVE Owed(t, f)'
    BY <1>2 DEF Owed
  <1> QED BY <1>1, <1>2 DEF AuditOK

\* One request changed its task's row from before to after and is due to
\* write the difference.
LEMMA AuthoredOwes ==
    ASSUME AuditInv, NEW c \in Clients, NEW t \in TaskIds, t = req[c].task, NEW new,
           Authored(t, req[c].user, rows[t], new), rows'[t] = new,
           NEW f \in AuditedFields, rows[t][f] # new[f],
           pc'[c] = "record", req'[c] = req[c], old'[c] = rows[t]
    PROVE  AuditOK(t, f)'
  <1>1. author'[t][f] = req[c].user
    BY DEF Authored, AuditInv
  <1>2. Owed(t, f)'
    BY <1>1 DEF Owed
  <1> QED BY <1>2 DEF AuditOK

\* The author of a column changes only where the column does.
LEMMA AuthoredElsewhere ==
    ASSUME AuditInv, NEW x \in TaskIds, NEW user, NEW before, NEW after,
           Authored(x, user, before, after)
    PROVE  /\ author' = [t \in TaskIds |-> [f \in AuditedFields |-> author'[t][f]]]
           /\ \A t \in TaskIds, f \in AuditedFields :
                 author'[t][f] = IF t = x /\ before[f] # after[f] THEN user ELSE author[t][f]
  BY DEF AuditInv, Authored

\* recordChanges only adds Change rows.
LEMMA RecordAdds ==
    ASSUME AuditInv, NEW x \in TaskIds, NEW user, NEW before, NEW after, NEW fields,
           RecordDiff(x, user, before, after, fields),
           NEW t \in TaskIds, NEW f \in AuditedFields
    PROVE  changes'[t][f] =
              IF t = x /\ f \in fields /\ before[f] # after[f]
              THEN changes[t][f] \cup {<<user, before[f], after[f]>>}
              ELSE changes[t][f]
  BY DEF AuditInv, RecordDiff

\* Recording a difference leaves the audit trail a table by task and column.
LEMMA RecordShape ==
    ASSUME AuditInv, NEW x \in TaskIds, NEW user, NEW before, NEW after, NEW fields,
           RecordDiff(x, user, before, after, fields)
    PROVE  changes' = [t \in TaskIds |-> [f \in AuditedFields |-> changes'[t][f]]]
  BY DEF AuditInv, RecordDiff

\* A new version is no change in the sense of the trail.
LEMMA VersionNotAudited ==
    ASSUME NEW r \in Row, NEW v, NEW f \in AuditedFields
    PROVE  [r EXCEPT !.version = v][f] = r[f]
  <1>1. f \in {"phase", "stage", "assignee", "start", "closedAt", "labels"}
    BY DEF AuditedFields, AuditOrder
  <1> QED BY <1>1 DEF Row

\* A step of one request leaves the others where they are.
LEMMA OthersStay ==
    ASSUME TypeOK, NEW d \in Clients, NEW c \in Clients, c # d,
           \/ RequestUpdate(d) \/ RequestClaim(d) \/ RequestClose(d) \/ RequestInsert(d)
           \/ Step(d) \/ Abort(d)
    PROVE  pc'[c] = pc[c] /\ req'[c] = req[c] /\ old'[c] = old[c]
  <1> USE DEF opVars
  <1> DEFINE Same == pc'[c] = pc[c] /\ req'[c] = req[c] /\ old'[c] = old[c]
  <1>1. ASSUME NEW answer, Return(d, answer) PROVE Same
    BY <1>1 DEF Return, TypeOK
  <1>2. ASSUME NEW next, Continue(d, next),
               old' = old \/ old' = [old EXCEPT ![d] = rows[req[d].task]]
        PROVE  Same
    BY <1>2 DEF Continue, TypeOK
  <1>3. ASSUME RetryOrConflict(d) PROVE Same
    BY <1>1, <1>2, <1>3 DEF RetryOrConflict, Retry
  <1>4. ASSUME \/ RequestUpdate(d) \/ RequestClaim(d) \/ RequestClose(d) \/ RequestInsert(d)
        PROVE  Same
    <2>1. PICK r : /\ pc' = [pc EXCEPT ![d] = "read"] /\ req' = [req EXCEPT ![d] = r]
                   /\ old' = old
      BY <1>4, Zenon DEF RequestUpdate, RequestClaim, RequestClose, RequestInsert, Accept
    <2> QED BY <2>1 DEF TypeOK
  <1>5. ASSUME Step(d) PROVE Same
    <2>1. \/ \E answer : Return(d, answer)
          \/ \E next : /\ Continue(d, next)
                       /\ old' = old \/ old' = [old EXCEPT ![d] = rows[req[d].task]]
          \/ RetryOrConflict(d)
      BY <1>5, Zenon DEF Step, UpdateRead, UpdateWrite, ClaimRead, ClaimWrite, ClaimCurrent,
                  CloseRead, CloseWrite, Record, RecordFails, InsertRead, InsertWrite
    <2> HIDE DEF Same
    <2> QED BY <2>1, <1>1, <1>2, <1>3
  <1>6. ASSUME Abort(d) PROVE Same
    BY <1>1, <1>6 DEF Abort
  <1> QED BY <1>4, <1>5, <1>6

\* A write by d to column f of its task x: its own row is logged or owed, and
\* every other column is as before.
LEMMA AuditWrite ==
    ASSUME VersionInv, AuditInv, NEW d \in Clients, NEW x \in TaskIds, x = req[d].task,
           Step(d), pc[d] = "write", NEW new, rows' = [rows EXCEPT ![x] = new],
           Authored(x, req[d].user, rows[x], new), unlogged' = unlogged,
           \A t \in TaskIds, f \in AuditedFields : changes[t][f] \subseteq changes'[t][f],
           \/ \A f \in AuditedFields : rows[x][f] # new[f] =>
                 <<req[d].user, rows[x][f], new[f]>> \in changes'[x][f]
           \/ pc'[d] = "record" /\ req'[d] = req[d] /\ old'[d] = rows[x]
    PROVE  \A t \in TaskIds, f \in AuditedFields : AuditOK(t, f)'
  <1> SUFFICES ASSUME NEW t \in TaskIds, NEW f \in AuditedFields PROVE AuditOK(t, f)'
    OBVIOUS
  <1>0. TypeOK /\ rows' = [rows EXCEPT ![x] = new] /\ rows'[x] = new
    BY DEF VersionInv, TypeInv, TypeOK
  <1>1. changes[t][f] \subseteq changes'[t][f]
    OBVIOUS
  <1>2. author'[t][f] = IF t = x /\ rows[x][f] # new[f] THEN req[d].user ELSE author[t][f]
    BY AuthoredElsewhere
  <1>3. CASE t = x /\ rows[x][f] # new[f]
    <2>1. CASE <<req[d].user, rows[x][f], new[f]>> \in changes'[x][f]
      <3>1. Logged(t, f)'
        BY <1>0, <1>2, <1>3, <2>1 DEF Logged
      <3> QED BY <3>1 DEF AuditOK
    <2>2. CASE pc'[d] = "record" /\ req'[d] = req[d] /\ old'[d] = rows[x]
      BY <1>0, <1>3, <2>2, AuthoredOwes
    <2> QED BY <1>3, <2>1, <2>2
  <1>4. CASE ~(t = x /\ rows[x][f] # new[f])
    <2>1. rows'[t][f] = rows[t][f] /\ author'[t][f] = author[t][f]
      BY <1>0, <1>2, <1>4 DEF TypeOK
    <2>2. ASSUME NEW c \in Clients, pc[c] = "record"
          PROVE  pc'[c] = "record" /\ req'[c] = req[c] /\ old'[c] = old[c]
      BY <1>0, <2>2, OthersStay
    <2>3. AuditOK(t, f)
      BY DEF AuditInv
    <2> QED BY <1>1, <2>1, <2>2, <2>3, AuditKept
  <1> QED BY <1>3, <1>4

\* A step that writes no row and no Change row, by a request that owes none.
LEMMA AuditIdle ==
    ASSUME TypeOK, AuditInv, UNCHANGED <<rows, changes, author, unlogged>>,
           \A c \in Clients : pc[c] = "record" =>
               pc'[c] = "record" /\ req'[c] = req[c] /\ old'[c] = old[c]
    PROVE  AuditInv'
  <1>1. ASSUME NEW t \in TaskIds, NEW f \in AuditedFields PROVE AuditOK(t, f)'
    <2>1. AuditOK(t, f)
      BY DEF AuditInv
    <2> QED BY <2>1, AuditKept
  <1> QED BY <1>1 DEF AuditInv, Exists

\* What does not exist keeps no author: only the task of a request gets one.
LEMMA AuthorExists ==
    ASSUME TypeInv, AuditInv, [Next]_vars, NEW d \in Clients, InProgress(d), NEW new,
           \/ Authored(req[d].task, req[d].user, rows[req[d].task], new)
           \/ author' = author
    PROVE  \A t \in TaskIds, f \in AuditedFields : ~Exists(t)' => author'[t][f] = NoUser
  <1> SUFFICES ASSUME NEW t \in TaskIds, NEW f \in AuditedFields, ~Exists(t)'
               PROVE  author'[t][f] = NoUser
    OBVIOUS
  <1>1. ~Exists(t)
    BY RowsStay DEF TypeInv, Exists
  <1>2. req[d].task \in TaskIds /\ req[d].task # t
    BY <1>1 DEF TypeInv, TypeOK, RequestOK, Request, Exists
  <1>3. author'[t][f] = author[t][f]
    BY <1>2, AuthoredElsewhere
  <1> QED BY <1>1, <1>3 DEF AuditInv

\* Every step keeps the audit trail explaining the rows.
LEMMA AuditStep == ASSUME NoRewind, VersionInv, AuditInv, [Next]_vars PROVE AuditInv'
  <1> USE DEF dbVars, opVars, histVars
  <1>0. TypeInv /\ TypeOK
    BY DEF VersionInv, TypeInv
  <1>1. ASSUME NEW x \in TaskIds, NEW p \in NewTasks, CreateTask(x, p) PROVE AuditInv'
    <2>1. ASSUME NEW t \in TaskIds, NEW f \in AuditedFields
          PROVE  AuditOK(t, f)' /\ (~Exists(t)' => author'[t][f] = NoUser)
      <3>1. author'[t][f] = author[t][f] /\ changes' = changes /\ unlogged' = unlogged
        BY <1>1 DEF CreateTask
      <3>2. CASE ~Exists(t)
        BY <3>1, <3>2 DEF AuditInv, AuditOK
      <3>3. CASE Exists(t)
        <4>1. rows'[t] = rows[t]
          BY <1>0, <1>1, <3>3 DEF CreateTask, TypeOK
        <4>2. AuditOK(t, f)
          BY DEF AuditInv
        <4>3. pc' = pc /\ req' = req /\ old' = old
          BY <1>1 DEF CreateTask
        <4>4. AuditOK(t, f)'
          BY <3>1, <4>1, <4>2, <4>3, AuditKept
        <4> QED BY <3>3, <4>1, <4>4 DEF Exists
      <3> QED BY <3>2, <3>3
    <2> QED BY <1>1, <2>1 DEF AuditInv, CreateTask
  <1>2. ASSUME NEW d \in Clients,
               \/ RequestUpdate(d) \/ RequestClaim(d) \/ RequestClose(d) \/ RequestInsert(d)
               \/ UpdateRead(d) \/ ClaimRead(d) \/ CloseRead(d) \/ ClaimCurrent(d)
               \/ InsertRead(d)
        PROVE  AuditInv'
    <2>1. UNCHANGED <<rows, changes, author, unlogged>> /\ pc[d] # "record"
      BY <1>2, Zenon DEF RequestUpdate, RequestClaim, RequestClose, RequestInsert, Accept,
                  UpdateRead, ClaimRead, CloseRead, ClaimCurrent, InsertRead
    <2>2. ASSUME NEW c \in Clients, pc[c] = "record"
          PROVE  pc'[c] = "record" /\ req'[c] = req[c] /\ old'[c] = old[c]
      BY <1>0, <1>2, <2>1, <2>2, OthersStay DEF Step
    <2> QED BY <1>0, <2>1, <2>2, AuditIdle
  \* a request whose task it is commits or records
  <1>3. ASSUME NEW d \in Clients, InProgress(d)
        PROVE  /\ req[d].task \in TaskIds /\ rows[req[d].task] \in Row
               /\ req[d] \in Request /\ Exists(req[d].task)
    BY <1>0, <1>3 DEF TypeInv, TypeOK, RequestOK, Request, Exists
  <1>4. ASSUME NEW d \in Clients, UpdateWrite(d) PROVE AuditInv'
    <2> DEFINE x == req[d].task
               new == UpdatedRow(rows[x], old[d], req[d].upd, ExpectedVersion(d))
    <2>1. pc[d] = "write" /\ InProgress(d) /\ unlogged' = unlogged
      BY <1>4 DEF UpdateWrite, InProgress
    <2>2. CASE UNCHANGED <<rows, changes, author>>
      <3>1. ASSUME NEW c \in Clients, pc[c] = "record"
            PROVE  pc'[c] = "record" /\ req'[c] = req[c] /\ old'[c] = old[c]
        BY <1>0, <1>4, <2>1, <3>1, OthersStay DEF Step
      <3> QED BY <1>0, <2>1, <2>2, <3>1, AuditIdle
    <2>3. CASE /\ VersionMatches(d, x) /\ rows' = [rows EXCEPT ![x] = new]
               /\ RecordDiff(x, req[d].user, old[d], new, AuditedFields)
               /\ Authored(x, req[d].user, rows[x], new)
      <3>1. old[d] = rows[x] /\ x \in TaskIds
        BY <1>3, <2>1, <2>3, MatchIsFresh
      <3> HIDE DEF x, new
      <3>2. ASSUME NEW t \in TaskIds, NEW f \in AuditedFields
            PROVE  changes'[t][f] =
                      IF t = x /\ f \in AuditedFields /\ old[d][f] # new[f]
                      THEN changes[t][f] \cup {<<req[d].user, old[d][f], new[f]>>}
                      ELSE changes[t][f]
        BY <2>3, <3>1, RecordAdds
      <3>3. \A t \in TaskIds, f \in AuditedFields : changes[t][f] \subseteq changes'[t][f]
        BY <3>2
      <3>4. \A f \in AuditedFields : rows[x][f] # new[f] =>
                 <<req[d].user, rows[x][f], new[f]>> \in changes'[x][f]
        BY <3>1, <3>2
      <3>5. \A t \in TaskIds, f \in AuditedFields : AuditOK(t, f)'
        BY <1>4, <2>1, <2>3, <3>1, <3>3, <3>4, AuditWrite DEF Step, x
      <3>6. \A t \in TaskIds, f \in AuditedFields : ~Exists(t)' => author'[t][f] = NoUser
        BY <1>0, <2>1, <2>3, AuthorExists DEF x
      <3>7. /\ changes' = [t \in TaskIds |-> [f \in AuditedFields |-> changes'[t][f]]]
            /\ author' = [t \in TaskIds |-> [f \in AuditedFields |-> author'[t][f]]]
        BY <2>3, <3>1, RecordShape, AuthoredElsewhere
      <3> QED BY <3>5, <3>6, <3>7 DEF AuditInv
    <2> QED BY <1>4, <2>2, <2>3 DEF UpdateWrite
  \* the commits of a claim and of a close
  <1>5. ASSUME NEW d \in Clients, Step(d), pc[d] = "write", NEW new,
               old[d] = rows[req[d].task], rows' = [rows EXCEPT ![req[d].task] = new],
               Authored(req[d].task, req[d].user, rows[req[d].task], new),
               UNCHANGED <<changes, unlogged, old>>, Continue(d, "record")
        PROVE  AuditInv'
    <2> DEFINE x == req[d].task
    <2>1. InProgress(d) /\ x \in TaskIds
      BY <1>3, <1>5 DEF InProgress
    <2>2. pc'[d] = "record" /\ req'[d] = req[d] /\ old'[d] = rows[x]
      BY <1>0, <1>5 DEF Continue, TypeOK
    <2>3. \A t \in TaskIds, f \in AuditedFields : AuditOK(t, f)'
      <3> HIDE DEF x
      <3> QED BY <1>5, <2>1, <2>2, AuditWrite DEF x
    <2>4. \A t \in TaskIds, f \in AuditedFields : ~Exists(t)' => author'[t][f] = NoUser
      BY <1>0, <1>5, <2>1, AuthorExists
    <2>5. author' = [t \in TaskIds |-> [f \in AuditedFields |-> author'[t][f]]]
      BY <1>5, <2>1, AuthoredElsewhere
    <2> QED BY <1>5, <2>3, <2>4, <2>5 DEF AuditInv
  <1>6. ASSUME NEW d \in Clients, ClaimWrite(d) PROVE AuditInv'
    <2>1. pc[d] = "write" /\ InProgress(d)
      BY <1>6 DEF ClaimWrite, InProgress
    <2>2. CASE UNCHANGED <<rows, author>>
      <3>1. ASSUME NEW c \in Clients, pc[c] = "record"
            PROVE  pc'[c] = "record" /\ req'[c] = req[c] /\ old'[c] = old[c]
        BY <1>0, <1>6, <2>1, <3>1, OthersStay DEF Step
      <3> QED BY <1>0, <1>6, <2>2, <3>1, AuditIdle DEF ClaimWrite
    <2>3. CASE ClaimWhere(d, req[d].task)
      <3>1. old[d] = rows[req[d].task]
        BY <2>1, <2>3, MatchIsFresh DEF ClaimWhere
      <3> QED BY <1>5, <1>6, <2>1, <2>3, <3>1 DEF ClaimWrite, Step
    <2> QED BY <1>6, <2>2, <2>3 DEF ClaimWrite
  <1>7. ASSUME NEW d \in Clients, CloseWrite(d) PROVE AuditInv'
    <2>1. pc[d] = "write" /\ InProgress(d)
      BY <1>7 DEF CloseWrite, InProgress
    <2>2. CASE UNCHANGED <<rows, author>>
      <3>1. ASSUME NEW c \in Clients, pc[c] = "record"
            PROVE  pc'[c] = "record" /\ req'[c] = req[c] /\ old'[c] = old[c]
        BY <1>0, <1>7, <2>1, <3>1, OthersStay DEF Step
      <3> QED BY <1>0, <1>7, <2>2, <3>1, AuditIdle DEF CloseWrite
    <2>3. CASE VersionMatches(d, req[d].task)
      <3>1. old[d] = rows[req[d].task]
        BY <2>1, <2>3, MatchIsFresh
      <3> QED BY <1>5, <1>7, <2>1, <2>3, <3>1 DEF CloseWrite, Step
    <2> QED BY <1>7, <2>2, <2>3 DEF CloseWrite
  <1>8. ASSUME NEW d \in Clients, Record(d) PROVE AuditInv'
    <2> DEFINE x == req[d].task
    <2>1. /\ pc[d] = "record" /\ x \in TaskIds /\ UNCHANGED <<rows, author, unlogged>>
          /\ RecordDiff(x, req[d].user, old[d], rows[x], AuditedFields)
      BY <1>3, <1>8 DEF Record, InProgress
    <2>2. ASSUME NEW t \in TaskIds, NEW f \in AuditedFields PROVE AuditOK(t, f)'
      <3>1. changes'[t][f] =
                IF t = x /\ f \in AuditedFields /\ old[d][f] # rows[x][f]
                THEN changes[t][f] \cup {<<req[d].user, old[d][f], rows[x][f]>>}
                ELSE changes[t][f]
        <4> HIDE DEF x
        <4> QED BY <2>1, RecordAdds
      <3>2. ASSUME Logged(t, f) PROVE Logged(t, f)'
        BY <2>1, <3>1, <3>2 DEF Logged
      <3>3. ASSUME NEW c \in Clients, c # d, pc[c] = "record", req[c].task = t,
                   req[c].user = author[t][f], old[c][f] # rows[t][f]
            PROVE  Owed(t, f)'
        <4>1. pc'[c] = pc[c] /\ req'[c] = req[c] /\ old'[c] = old[c]
          BY <1>0, <1>8, <3>3, OthersStay DEF Step
        <4> QED BY <2>1, <3>3, <4>1 DEF Owed
      <3>4. ASSUME t = x, req[d].user = author[t][f], old[d][f] # rows[t][f]
            PROVE  Logged(t, f)'
        <4>1. <<req[d].user, old[d][f], rows[x][f]>> \in changes'[t][f]
          BY <2>1, <3>1, <3>4
        <4>2. author'[t][f] = req[d].user /\ rows'[t][f] = rows[x][f]
          BY <2>1, <3>4
        <4> HIDE DEF x
        <4> QED BY <4>1, <4>2 DEF Logged
      <3>5. t \notin unlogged /\ author[t][f] # NoUser => Logged(t, f) \/ Owed(t, f)
        BY DEF AuditInv, AuditOK
      <3> QED BY <2>1, <3>2, <3>3, <3>4, <3>5 DEF AuditOK, Owed
    <2>3. changes' = [t \in TaskIds |-> [f \in AuditedFields |-> changes'[t][f]]]
      <3> HIDE DEF x
      <3> QED BY <2>1, RecordShape
    <2> QED BY <2>1, <2>2, <2>3 DEF AuditInv, Exists
  <1>9. ASSUME NEW d \in Clients, RecordFails(d) PROVE AuditInv'
    <2> DEFINE x == req[d].task
    <2>1. /\ pc[d] = "record" /\ x \in TaskIds /\ UNCHANGED <<rows, author>>
          /\ unlogged' = unlogged \cup {x}
      BY <1>3, <1>9 DEF RecordFails, InProgress
    <2>2. PICK fields : RecordDiff(x, req[d].user, old[d], rows[x], fields)
      BY <1>9, Zenon DEF RecordFails
    <2> HIDE DEF x
    <2>3. ASSUME NEW t \in TaskIds, NEW f \in AuditedFields PROVE AuditOK(t, f)'
      <3>1. CASE t = x
        BY <2>1, <3>1 DEF AuditOK
      <3>2. CASE t # x
        <4>1. changes'[t][f] = changes[t][f]
          BY <2>1, <2>2, <3>2, RecordAdds
        <4>2. ASSUME NEW c \in Clients, pc[c] = "record", req[c].task = t
              PROVE  pc'[c] = "record" /\ req'[c] = req[c] /\ old'[c] = old[c]
          BY <1>0, <1>9, <3>2, <4>2, OthersStay DEF Step, x
        <4>3. AuditOK(t, f)
          BY DEF AuditInv
        <4> QED BY <2>1, <4>1, <4>2, <4>3, AuditKept
      <3> QED BY <3>1, <3>2
    <2>4. changes' = [t \in TaskIds |-> [f \in AuditedFields |-> changes'[t][f]]]
      BY <2>1, <2>2, RecordShape
    <2> QED BY <2>1, <2>3, <2>4 DEF AuditInv, Exists
  <1>10. ASSUME NEW d \in Clients, InsertWrite(d) PROVE AuditInv'
    <2>1. pc[d] = "write" /\ UNCHANGED <<changes, author, unlogged>>
      BY <1>10 DEF InsertWrite
    <2>2. ASSUME NEW t \in TaskIds, NEW f \in AuditedFields
          PROVE  AuditOK(t, f)' /\ (~Exists(t)' => author'[t][f] = NoUser)
      <3>1. CASE ~Exists(t)
        BY <2>1, <3>1 DEF AuditInv, AuditOK
      <3>2. CASE Exists(t)
        <4>1. rows'[t] = rows[t] \/ (rows'[t] = AnchorRow(d) /\ t = req[d].task)
          <5>1. ASSUME NEW n \in 1..MaxSteps, NEW steps \in FreshIds(n),
                       rows' = [x \in TaskIds |->
                           IF \E i \in 1..n : steps[i] = x THEN InsertedRow
                           ELSE IF x = req[d].task THEN AnchorRow(d) ELSE rows[x]]
                PROVE  rows'[t] = rows[t] \/ (rows'[t] = AnchorRow(d) /\ t = req[d].task)
            <6>1. \A i \in 1..n : ~Exists(steps[i])
              BY DEF FreshIds
            <6>2. ~(\E i \in 1..n : steps[i] = t)
              BY <3>2, <6>1, Zenon
            <6>3. rows'[t] = IF \E i \in 1..n : steps[i] = t THEN InsertedRow
                             ELSE IF t = req[d].task THEN AnchorRow(d) ELSE rows[t]
              BY <5>1
            <6> QED BY <6>2, <6>3
          <5> QED BY <1>10, <5>1 DEF InsertWrite
        <4>2. rows[t] \in Row
          BY <1>0 DEF TypeOK
        <4>3. rows'[t][f] = rows[t][f]
          BY <4>1, <4>2, VersionNotAudited DEF AnchorRow
        <4>4. ASSUME NEW c \in Clients, pc[c] = "record"
              PROVE  pc'[c] = "record" /\ req'[c] = req[c] /\ old'[c] = old[c]
          BY <1>0, <1>10, <2>1, <4>4, OthersStay DEF Step
        <4>5. AuditOK(t, f)
          BY DEF AuditInv
        <4>6. AuditOK(t, f)'
          BY <2>1, <4>3, <4>4, <4>5, AuditKept
        <4>7. Exists(t)'
          BY <1>0, <3>2, RowsStay DEF Exists
        <4> QED BY <4>6, <4>7
      <3> QED BY <3>1, <3>2
    <2> QED BY <2>1, <2>2 DEF AuditInv
  <1>11. ASSUME NEW d \in Clients, Abort(d) PROVE AuditInv'
    <2>1. /\ UNCHANGED <<rows, changes, author>>
          /\ unlogged' = IF pc[d] = "record" THEN unlogged \cup {req[d].task} ELSE unlogged
      BY <1>11 DEF Abort
    <2>2. ASSUME NEW t \in TaskIds, NEW f \in AuditedFields PROVE AuditOK(t, f)'
      <3>1. CASE pc[d] = "record" /\ t = req[d].task
        BY <2>1, <3>1 DEF AuditOK
      <3>2. CASE ~(pc[d] = "record" /\ t = req[d].task)
        <4>1. ASSUME NEW c \in Clients, pc[c] = "record", req[c].task = t
              PROVE  pc'[c] = "record" /\ req'[c] = req[c] /\ old'[c] = old[c]
          BY <1>0, <1>11, <3>2, <4>1, OthersStay
        <4>2. AuditOK(t, f)
          BY DEF AuditInv
        <4> QED BY <2>1, <4>1, <4>2, AuditKept
      <3> QED BY <3>1, <3>2
    <2> QED BY <2>1, <2>2 DEF AuditInv, Exists
  <1>12. CASE Tick \/ UNCHANGED vars
    BY <1>0, <1>12, AuditIdle DEF Tick, vars
  <1> QED BY <1>1, <1>2, <1>4, <1>6, <1>7, <1>8, <1>9, <1>10, <1>11, <1>12 DEF Next, Step

\* The trail explains every audited column of a task that nobody is about to
\* write audit rows for, although claims and closes write them after their
\* commit and other requests write the row in between.
THEOREM AuditTrailComplete == ASSUME NoRewind PROVE Spec => []AuditComplete
  <1>1. VersionInv /\ AuditInv /\ [Next]_vars => AuditInv'
    BY AuditStep
  <1>2. AuditInv => AuditComplete
    BY DEF AuditInv, AuditOK, Owed, Logged, AuditComplete, Pending
  <1> QED BY AuditInvInit, <1>1, <1>2, VersionInvAlways, PTL DEF Spec

-----------------------------------------------------------------------------
(* The two vocabularies agree *)

\* The board has the task vocabulary of the store.
LEMMA SameVocabulary ==
    /\ Board!NoHold = NoHold /\ Board!NoDate = NoDate /\ Board!NoStage = NoStage
    /\ \A stage : Board!phaseForStage(stage) = phaseForStage(stage)
    /\ \A stage, hold, start, clearing, n :
          Board!validateTaskStateForWrite(stage, hold, start, clearing, n)
             <=> validateTaskStateForWrite(stage, hold, start, clearing, n)
    /\ \A date, n : Board!InFuture(date, n) <=> InFuture(date, n)
    /\ Board!TerminalStages = TerminalStages
    /\ Board!Nothing = NoRow
  <1>1. /\ Board!NoHold = NoHold /\ Board!NoDate = NoDate /\ Board!NoStage = NoStage
        /\ Board!Nothing = NoRow
    BY DEF Board!NoHold, NoHold, Board!NoDate, NoDate, Board!NoStage, NoStage,
           Board!Nothing, NoRow
  <1>2. /\ Board!IntakeStages = IntakeStages /\ Board!ActiveStages = ActiveStages
        /\ Board!TerminalStages = TerminalStages /\ Board!HoldableStages = HoldableStages
    BY DEF Board!IntakeStages, IntakeStages, Board!ActiveStages, ActiveStages,
           Board!TerminalStages, TerminalStages, Board!HoldableStages, HoldableStages
  <1>3. ASSUME NEW stage PROVE Board!phaseForStage(stage) = phaseForStage(stage)
    BY <1>2 DEF Board!phaseForStage, phaseForStage
  <1>4. ASSUME NEW stage, NEW hold, NEW start, NEW clearing, NEW n
        PROVE  Board!validateTaskStateForWrite(stage, hold, start, clearing, n)
                  <=> validateTaskStateForWrite(stage, hold, start, clearing, n)
    BY <1>1, <1>2 DEF Board!validateTaskStateForWrite, validateTaskStateForWrite,
                      Board!InFuture, InFuture
  <1>5. \A date, n : Board!InFuture(date, n) <=> InFuture(date, n)
    BY <1>1 DEF Board!InFuture, InFuture
  <1> QED BY <1>1, <1>2, <1>3, <1>4, <1>5

\* A stored row may be claimed in the store's terms when it is ready in the
\* board's.
LEMMA AvailableIsReady ==
    ASSUME TypeOK, NEW t \in TaskIds
    PROVE  computeAvailability(t) <=> Board!Ready(t)
  <1>1. rows[t] \in Row
    BY DEF TypeOK
  <1>2. \A b \in TaskIds : b \in Blockers(t) <=> Board!WaitsFor(t, b)
    BY DEF Blockers, Board!WaitsFor
  <1>3. ~hasUnsatisfiedBlocker(t) <=>
           \A b \in TaskIds : Board!WaitsFor(t, b) /\ Board!Exists(b) => rows[b].stage = "completed"
    BY <1>2 DEF hasUnsatisfiedBlocker, Blockers, Exists, Board!Exists,
                terminalStageSatisfiesDependency
  <1>4. rows[t].stage \notin {"triage"} \cup TerminalStages <=>
           rows[t].stage # "triage" /\ ~IsTerminalStage(rows[t].stage)
    BY DEF IsTerminalStage
  <1> QED BY <1>3, <1>4, SameVocabulary DEF computeAvailability, Board!Ready

\* Rows with the same columns are the same row.
LEMMA RowEqual ==
    ASSUME NEW a \in Row, NEW b \in Row,
           a.phase = b.phase, a.stage = b.stage, a.hold = b.hold,
           a.assignee = b.assignee, a.start = b.start, a.closedAt = b.closedAt,
           a.labels = b.labels, a.version = b.version
    PROVE  a = b
  BY DEF Row

\* What moving a row on the board does, column by column.
LEMMA MovedRow ==
    ASSUME NEW r \in Row, NEW stage \in Stages
    PROVE  /\ Board!Moved(r, stage) \in Row
           /\ Board!Moved(r, stage).phase = phaseForStage(stage)
           /\ Board!Moved(r, stage).stage = stage
           /\ Board!Moved(r, stage).hold = r.hold
           /\ Board!Moved(r, stage).assignee = r.assignee
           /\ Board!Moved(r, stage).start = r.start
           /\ Board!Moved(r, stage).closedAt = r.closedAt
           /\ Board!Moved(r, stage).labels = r.labels
           /\ Board!Moved(r, stage).version = r.version + 1
  <1>1. phaseForStage(stage) \in Phases
    BY DEF phaseForStage, Phases, Stages, IntakeStages, ActiveStages, TerminalStages
  <1>2. r.version + 1 \in Versions
    BY DEF Row, Versions
  <1>3. Board!Moved(r, stage) = [r EXCEPT !.stage = stage, !.phase = phaseForStage(stage),
                                          !.version = r.version + 1]
    BY SameVocabulary DEF Board!Moved
  <1> QED BY <1>1, <1>2, <1>3 DEF Row

\* The row an update leaves, when it has read the row it writes.
LEMMA UpdatedAgrees ==
    ASSUME NEW r \in Row, NEW p \in Updates
    PROVE  /\ UpdatedRow(r, r, p, r.version) = Board!Updated(r, p)
           /\ Board!Updated(r, p).stage = StageAfter(r, p)
           /\ Board!Updated(r, p).hold = HoldAfter(r, p)
           /\ Board!Updated(r, p).start = StartAfter(r, p)
  <1> DEFINE u == UpdatedRow(r, r, p, r.version)
             base == IF p.stage = NoStage THEN [r EXCEPT !.version = @ + 1]
                     ELSE Board!Moved(r, p.stage)
             assignee == IF p.clearAssignee THEN NoUser
                         ELSE IF p.assignee # NoUser THEN p.assignee ELSE r.assignee
  <1>1. p \in Update /\ u \in Row
    BY ConstantsAssumption, UpdatedRowType DEF Row, Versions
  <1>2. /\ u.phase = IF p.stage = NoStage THEN r.phase ELSE phaseForStage(p.stage)
        /\ u.stage = StageAfter(r, p) /\ u.hold = HoldAfter(r, p)
        /\ u.assignee = assignee /\ u.start = StartAfter(r, p)
        /\ u.closedAt = r.closedAt /\ u.labels = LabelsAfter(r, p)
        /\ u.version = r.version + 1
    <2>1. u.labels = LabelsAfter(r, p)
      BY <1>1 DEF UpdatedRow, LabelsAfter, Row, Update
    <2> QED BY <2>1 DEF UpdatedRow, Row
  <1>3. /\ base \in Row
        /\ base.phase = IF p.stage = NoStage THEN r.phase ELSE phaseForStage(p.stage)
        /\ base.stage = StageAfter(r, p) /\ base.version = r.version + 1
        /\ base.assignee = r.assignee /\ base.start = r.start
        /\ base.closedAt = r.closedAt /\ base.labels = r.labels
    <2>1. CASE p.stage = NoStage
      BY <2>1 DEF Row, Versions, StageAfter
    <2>2. CASE p.stage # NoStage
      <3>1. base = Board!Moved(r, p.stage) /\ p.stage \in Stages
        BY <1>1, <2>2 DEF Update
      <3> HIDE DEF base, u, assignee
      <3> QED BY <2>2, <3>1, MovedRow DEF StageAfter
    <2> QED BY <2>1, <2>2
  <1> HIDE DEF base
  <1>4. Board!HoldUpdated(r, p) = HoldAfter(r, p)
    BY <1>1, SameVocabulary DEF HoldAfter, Board!HoldUpdated, Update
  <1>5. Board!Updated(r, p) =
           [base EXCEPT !.hold = HoldAfter(r, p), !.assignee = assignee,
                        !.start = StartAfter(r, p), !.labels = LabelsAfter(r, p)]
    BY <1>1, <1>3, <1>4, SameVocabulary
       DEF Board!Updated, base, StartAfter, LabelsAfter, Update
  <1>6. Board!Updated(r, p) = u
    <2> DEFINE b == [base EXCEPT !.hold = HoldAfter(r, p), !.assignee = assignee,
                        !.start = StartAfter(r, p), !.labels = LabelsAfter(r, p)]
    <2>1. b \in Row
      <3>1. /\ HoldAfter(r, p) \in HoldReasons \cup {NoHold}
            /\ assignee \in Users \cup {NoUser} /\ StartAfter(r, p) \in Dates
            /\ LabelsAfter(r, p) \in SUBSET Labels
        <4> HIDE DEF u, assignee
        <4> QED BY <1>1, <1>2 DEF Row
      <3> HIDE DEF assignee
      <3> QED BY <3>1, <1>3 DEF Row
    <2>2. /\ b.phase = base.phase /\ b.stage = base.stage /\ b.version = base.version
          /\ b.closedAt = base.closedAt /\ b.hold = HoldAfter(r, p)
          /\ b.assignee = assignee /\ b.start = StartAfter(r, p)
          /\ b.labels = LabelsAfter(r, p)
      BY <1>3 DEF Row
    <2> HIDE DEF b, u, assignee
    <2>3. b = u
      BY <2>1, <2>2, <1>1, <1>2, <1>3, RowEqual
    <2> QED BY <1>5, <2>3 DEF b
  <1> QED BY <1>2, <1>6

-----------------------------------------------------------------------------
(* Each commit is an operation of the board *)

\* CreateTask is one transaction and one operation.
LEMMA CreateActsAtOnce ==
    ASSUME TypeOK, NEW t \in TaskIds, NEW p \in NewTasks, CreateTask(t, p)
    PROVE  Board!Create(t, p)
  <1> DEFINE r == [NoRow EXCEPT !.stage = p.stage, !.phase = phaseForStage(p.stage),
                      !.hold = p.hold, !.assignee = p.assignee, !.start = p.start,
                      !.version = 1]
             row == [phase |-> phaseForStage(p.stage), stage |-> p.stage,
                     hold |-> p.hold, assignee |-> p.assignee, start |-> p.start,
                     closedAt |-> NoDate, labels |-> {}, version |-> 1]
  <1>1. r = row
    <2>1. /\ p.stage \in Stages /\ p.hold \in HoldReasons \cup {NoHold}
          /\ p.assignee \in Users \cup {NoUser} /\ p.start \in Dates
      BY ConstantsAssumption DEF NewTask
    <2>2. phaseForStage(p.stage) \in Phases
      BY <2>1 DEF phaseForStage, Phases, Stages, IntakeStages, ActiveStages, TerminalStages
    <2>3. row \in Row
      BY <2>1, <2>2 DEF Row, Versions, Dates
    <2>4. /\ r \in Row /\ r.phase = phaseForStage(p.stage) /\ r.stage = p.stage
          /\ r.hold = p.hold /\ r.assignee = p.assignee /\ r.start = p.start
          /\ r.closedAt = NoDate /\ r.labels = {} /\ r.version = 1
      <3>1. NoRow.closedAt = NoDate /\ NoRow.labels = {}
        BY DEF NoRow
      <3> QED BY <2>1, <2>2, <3>1, NoRowType DEF Row, Versions
    <2>5. /\ row.phase = phaseForStage(p.stage) /\ row.stage = p.stage
          /\ row.hold = p.hold /\ row.assignee = p.assignee /\ row.start = p.start
          /\ row.closedAt = NoDate /\ row.labels = {} /\ row.version = 1
      OBVIOUS
    <2> HIDE DEF r, row
    <2> QED BY <2>3, <2>4, <2>5, RowEqual
  <1>2. /\ ~Board!Exists(t)
        /\ \A x \in (p.blocks \cup p.blockedBy) \ {t} : Board!Exists(x)
    BY DEF CreateTask, Exists, Board!Exists
  <1>3. Board!Valid(r, FALSE)
    <2>1. r.stage = p.stage /\ r.hold = p.hold /\ r.start = p.start
      BY <1>1
    <2> HIDE DEF r, row
    <2> QED BY <2>1, SameVocabulary, Zenon DEF CreateTask, Board!Valid
  <1>4. Board!Links(t, p.blocks, p.blockedBy) = EdgesOf(t, p.blocks, p.blockedBy)
    BY DEF Board!Links, EdgesOf
  <1>5. rows' = [rows EXCEPT ![t] = r] /\ now' = now
    BY <1>1, Zenon DEF CreateTask
  <1>6. rels' = rels \cup Board!Links(t, p.blocks, p.blockedBy)
    BY <1>4 DEF CreateTask
  <1>7. r = [Board!Nothing EXCEPT !.stage = p.stage, !.phase = Board!phaseForStage(p.stage),
                 !.hold = p.hold, !.assignee = p.assignee, !.start = p.start, !.version = 1]
    BY SameVocabulary
  <1> HIDE DEF r
  <1> QED BY <1>2, <1>3, <1>5, <1>6, <1>7 DEF Board!Create

\* The edges an update leaves.
LEMMA EdgesAgree ==
    ASSUME TypeOK, NEW t \in TaskIds, NEW p \in Update
    PROVE  RelsAfter(t, p) = (rels \cup Board!Links(t, p.addBlocks, p.addBlockedBy))
                                 \ ({t} \X p.removeRels \X {"blocks", "blocked_by"})
  <1>1. Board!Links(t, p.addBlocks, p.addBlockedBy)
           = EdgesOf(t, p.addBlocks, p.addBlockedBy)
    BY DEF Board!Links, EdgesOf
  <1>2. rels \cup EdgesOf(t, p.addBlocks, p.addBlockedBy) \subseteq Relationship
    BY DEF TypeOK, EdgesOf, Update, Relationship
  <1>3. \A r \in Relationship : r[1] = t /\ r[2] \in p.removeRels
           <=> r \in {t} \X p.removeRels \X {"blocks", "blocked_by"}
    BY DEF Relationship
  <1> QED BY <1>1, <1>2, <1>3 DEF RelsAfter

\* UpdateTask validates and merges the row it has read; its compare-and-swap
\* lets it write only the row it has read.
LEMMA UpdateActsAtOnce ==
    ASSUME VersionInv, NEW c \in Clients, UpdateWrite(c)
    PROVE  \/ Board!Update(req[c].task, req[c].upd) /\ req[c].upd \in Updates
           \/ UNCHANGED <<rows, rels, now>>
  <1> DEFINE t == req[c].task
             p == req[c].upd
             new == UpdatedRow(rows[t], old[c], p, ExpectedVersion(c))
  <1>1. /\ pc[c] = "write" /\ InProgress(c) /\ req[c].kind = "update" /\ now' = now
        /\ TypeOK
    BY DEF UpdateWrite, InProgress, VersionInv, TypeInv
  <1>2. /\ t \in TaskIds /\ rows[t] \in Row /\ p \in Updates /\ rows[t].version > 0
    BY <1>1 DEF TypeOK, Request, VersionInv, TypeInv, RequestOK
  <1>3. CASE UNCHANGED <<rows, rels>>
    BY <1>1, <1>3
  <1>4. CASE /\ VersionMatches(c, t) /\ \A x \in p.addBlocks \cup p.addBlockedBy : Exists(x)
             /\ rows' = [rows EXCEPT ![t] = new] /\ rels' = RelsAfter(t, p)
    <2>1. old[c] = rows[t] /\ ExpectedVersion(c) = rows[t].version
      BY <1>1, <1>4, MatchIsFresh
    <2>2. new = Board!Updated(rows[t], p)
      BY <1>2, <2>1, UpdatedAgrees
    <2>3. Board!Valid(Board!Updated(rows[t], p), p.clearStart)
      <3>1. validateTaskStateForWrite(StageAfter(rows[t], p), HoldAfter(rows[t], p),
                StartAfter(rows[t], p), p.clearStart, now)
        BY <1>1, <2>1 DEF VersionInv, SnapshotOK
      <3> HIDE DEF t, p
      <3> QED BY <1>2, <3>1, UpdatedAgrees, SameVocabulary, Zenon DEF Board!Valid
    <2>4. Board!Exists(t) /\ \A x \in p.addBlocks \cup p.addBlockedBy : Board!Exists(x)
      BY <1>2, <1>4 DEF Exists, Board!Exists
    <2>5. p \in Update
      BY <1>2, ConstantsAssumption
    <2>6. rels' = (rels \cup Board!Links(t, p.addBlocks, p.addBlockedBy))
                      \ ({t} \X p.removeRels \X {"blocks", "blocked_by"})
      BY <1>1, <1>2, <1>4, <2>5, EdgesAgree
    <2>7. rows' = [rows EXCEPT ![t] = Board!Updated(rows[t], p)]
      BY <1>4, <2>2
    <2> HIDE DEF t, p, new
    <2>8. Board!Update(t, p)
      BY <1>1, <2>3, <2>4, <2>6, <2>7 DEF Board!Update
    <2> QED BY <1>2, <2>8 DEF t, p
  <1> QED BY <1>3, <1>4 DEF UpdateWrite, dbVars

\* ClaimTask decides again, in the WHERE clause, on the tables as they are.
LEMMA ClaimActsAtOnce ==
    ASSUME VersionInv, NEW c \in Clients, ClaimWrite(c)
    PROVE  \/ Board!Claim(req[c].task, req[c].user)
           \/ UNCHANGED <<rows, rels, now>>
  <1> DEFINE t == req[c].task
             u == req[c].user
             new == [rows[t] EXCEPT !.assignee = u, !.phase = "in_progress",
                         !.stage = "working", !.hold = NoHold,
                         !.version = old[c].version + 1]
             moved == [Board!Moved(rows[t], "working") EXCEPT !.assignee = u]
  <1>1. pc[c] = "write" /\ InProgress(c) /\ rels' = rels /\ now' = now /\ TypeOK
    BY DEF ClaimWrite, InProgress, VersionInv, TypeInv
  <1>2. /\ req[c] \in Request /\ t \in TaskIds /\ u \in Users /\ rows[t] \in Row
    BY <1>1 DEF TypeOK, Request
  <1>3. CASE UNCHANGED rows
    BY <1>1, <1>3
  <1>4. CASE ClaimWhere(c, t) /\ rows' = [rows EXCEPT ![t] = new]
    <2>1. old[c] = rows[t]
      BY <1>1, <1>4, MatchIsFresh DEF ClaimWhere
    <2>2. new = moved
      <3>1. new \in Row
        BY <1>2, WrittenRowType, <1>1
      <3>2. /\ new.phase = "in_progress" /\ new.stage = "working" /\ new.hold = NoHold
            /\ new.assignee = u /\ new.start = rows[t].start
            /\ new.closedAt = rows[t].closedAt /\ new.labels = rows[t].labels
            /\ new.version = rows[t].version + 1
        BY <1>2, <2>1 DEF Row
      <3>3. "working" \in Stages /\ phaseForStage("working") = "in_progress"
        BY DEF Stages, phaseForStage, IntakeStages, ActiveStages, TerminalStages
      <3> DEFINE m == Board!Moved(rows[t], "working")
      <3>4. /\ m \in Row
            /\ m.phase = "in_progress" /\ m.stage = "working" /\ m.hold = rows[t].hold
            /\ m.start = rows[t].start
            /\ m.closedAt = rows[t].closedAt /\ m.labels = rows[t].labels
            /\ m.version = rows[t].version + 1
        BY <1>2, <3>3, MovedRow
      <3> HIDE DEF m
      <3>5. /\ moved \in Row
            /\ moved.phase = "in_progress" /\ moved.stage = "working"
            /\ moved.hold = rows[t].hold
            /\ moved.assignee = u /\ moved.start = rows[t].start
            /\ moved.closedAt = rows[t].closedAt /\ moved.labels = rows[t].labels
            /\ moved.version = rows[t].version + 1
        BY <1>2, <3>4 DEF Row, m
      <3>6. rows[t].hold = NoHold
        BY <1>4 DEF ClaimWhere
      <3> HIDE DEF new, moved, t, u
      <3> QED BY <3>1, <3>2, <3>5, <3>6, RowEqual
    <2>3. /\ rows[t].stage = "accepted" /\ rows[t].assignee = NoUser
          /\ computeAvailability(t)
      BY <1>4 DEF ClaimWhere, computeAvailability, IsTerminalStage, TerminalStages
    <2>4. Board!Ready(t)
      BY <1>1, <1>2, <2>3, AvailableIsReady
    <2>5. rows' = [rows EXCEPT ![t] = moved]
      BY <1>4, <2>2
    <2>6. Board!Claim(t, u)
      BY <1>1, <2>3, <2>4, <2>5 DEF Board!Claim
    <2> QED BY <2>6
  <1> QED BY <1>3, <1>4 DEF ClaimWrite

\* CloseTask has seen the row open; its compare-and-swap says it still is.
LEMMA CloseActsAtOnce ==
    ASSUME VersionInv, NEW c \in Clients, CloseWrite(c)
    PROVE  \/ Board!Close(req[c].task, req[c].stage) /\ req[c].stage \in CloseStages
           \/ UNCHANGED <<rows, rels, now>>
  <1> DEFINE t == req[c].task
             s == req[c].stage
             new == [rows[t] EXCEPT !.phase = "closed", !.stage = s,
                         !.closedAt = now, !.version = old[c].version + 1]
             moved == [Board!Moved(rows[t], s) EXCEPT !.closedAt = now]
  <1>1. /\ pc[c] = "write" /\ InProgress(c) /\ req[c].kind = "close"
        /\ rels' = rels /\ now' = now /\ TypeOK
    BY DEF CloseWrite, InProgress, VersionInv, TypeInv
  <1>2. /\ req[c] \in Request /\ t \in TaskIds /\ s \in CloseStages /\ rows[t] \in Row
    BY <1>1 DEF TypeOK, Request, VersionInv, TypeInv, RequestOK
  <1>3. CASE UNCHANGED rows
    BY <1>1, <1>3
  <1>4. CASE VersionMatches(c, t) /\ rows' = [rows EXCEPT ![t] = new]
    <2>1. old[c] = rows[t] /\ rows[t].phase # "closed"
      BY <1>1, <1>4, MatchIsFresh DEF VersionInv, SnapshotOK
    <2>2. new = moved
      <3>1. new \in Row
        BY <1>1, <1>2, WrittenRowType
      <3>2. /\ new.phase = "closed" /\ new.stage = s /\ new.hold = rows[t].hold
            /\ new.assignee = rows[t].assignee /\ new.start = rows[t].start
            /\ new.closedAt = now /\ new.labels = rows[t].labels
            /\ new.version = rows[t].version + 1
        BY <1>2, <2>1 DEF Row
      <3>3. s \in Stages /\ phaseForStage(s) = "closed"
        BY <1>2, ConstantsAssumption
           DEF Stages, phaseForStage, IntakeStages, ActiveStages, TerminalStages
      <3> DEFINE m == Board!Moved(rows[t], s)
      <3>4. /\ m \in Row
            /\ m.phase = "closed" /\ m.stage = s /\ m.hold = rows[t].hold
            /\ m.assignee = rows[t].assignee /\ m.start = rows[t].start
            /\ m.labels = rows[t].labels /\ m.version = rows[t].version + 1
        BY <1>2, <3>3, MovedRow
      <3>5. now \in Dates
        BY <1>1 DEF TypeOK, Dates
      <3> HIDE DEF m
      <3>6. /\ moved \in Row
            /\ moved.phase = "closed" /\ moved.stage = s /\ moved.hold = rows[t].hold
            /\ moved.assignee = rows[t].assignee /\ moved.start = rows[t].start
            /\ moved.closedAt = now /\ moved.labels = rows[t].labels
            /\ moved.version = rows[t].version + 1
        BY <1>2, <3>4, <3>5 DEF Row, m
      <3> HIDE DEF new, moved, t, s
      <3> QED BY <3>1, <3>2, <3>6, RowEqual
    <2>3. rows' = [rows EXCEPT ![t] = moved]
      BY <1>4, <2>2
    <2>4. Board!Close(t, s)
      BY <1>1, <2>1, <2>3 DEF Board!Close
    <2> QED BY <1>2, <2>4
  <1> QED BY <1>3, <1>4 DEF CloseWrite

\* InsertTasksAfter holds the only connection from its first read to its
\* commit, so the edges it takes apart are the edges there are.
LEMMA InsertActsAtOnce ==
    ASSUME SingleConn, VersionInv, NEW c \in Clients, InsertWrite(c)
    PROVE  \/ \E n \in 1..MaxSteps : \E steps \in [1..n -> TaskIds] :
                 Board!Insert(req[c].task, n, steps)
           \/ UNCHANGED <<rows, rels, now>>
  <1> DEFINE t == req[c].task
             after == {d \in TaskIds : <<t, d, "blocks">> \in rels}
  <1>1. /\ pc[c] = "write" /\ InProgress(c) /\ req[c].kind = "insert"
        /\ now' = now /\ TypeOK
    BY DEF InsertWrite, InProgress, VersionInv, TypeInv
  <1>2. /\ t \in TaskIds /\ rows[t] \in Row /\ rows[t].version > 0
    BY <1>1 DEF TypeOK, Request, VersionInv, TypeInv, RequestOK
  <1>3. old[c] = rows[t] /\ downstream[c] = after
    BY <1>1 DEF VersionInv, SnapshotOK, BlockedFrom
  <1>4. CASE UNCHANGED <<rows, rels>>
    BY <1>1, <1>4
  <1>5. ASSUME NEW n \in 1..MaxSteps, NEW steps \in FreshIds(n),
               rows' = [x \in TaskIds |->
                   IF \E i \in 1..n : steps[i] = x THEN InsertedRow
                   ELSE IF x = t THEN AnchorRow(c) ELSE rows[x]],
               rels' = Spliced(t, steps, n, downstream[c])
        PROVE  steps \in [1..n -> TaskIds] /\ Board!Insert(t, n, steps)
    <2> DEFINE new == {steps[i] : i \in 1..n}
    <2>1. steps \in [1..n -> TaskIds]
      BY DEF FreshIds
    <2>2. \A i, j \in 1..n : ~Board!Exists(steps[i]) /\ (steps[i] = steps[j] => i = j)
      BY DEF FreshIds, Exists, Board!Exists
    <2>3. InsertedRow = [Board!Nothing EXCEPT !.version = 1]
      BY SameVocabulary DEF InsertedRow
    <2>4. AnchorRow(c) = [rows[t] EXCEPT !.version = @ + 1]
      BY <1>3 DEF AnchorRow
    <2>5. rows' = [x \in TaskIds |->
              CASE x \in new -> [Board!Nothing EXCEPT !.version = 1]
                [] x \notin new /\ x = t -> [rows[t] EXCEPT !.version = @ + 1]
                [] OTHER -> rows[x]]
      BY <1>5, <2>3, <2>4
    <2>6. rels' = (rels \ ({t} \X after \X {"blocks"}))
              \cup {<<t, steps[1], "blocks">>}
              \cup {<<steps[i], steps[i + 1], "blocks">> : i \in 1..(n - 1)}
              \cup ({steps[n]} \X after \X {"blocks"})
      <3> HIDE DEF after, t
      <3>1. ASSUME NEW x
            PROVE  {<<x, d, "blocks">> : d \in after} = {x} \X after \X {"blocks"}
        OBVIOUS
      <3> QED BY <1>3, <1>5, <3>1 DEF Spliced
    <2>7. Board!Exists(t)
      BY <1>2 DEF Board!Exists
    <2> HIDE DEF t
    <2> QED BY <1>1, <2>1, <2>2, <2>5, <2>6, <2>7 DEF Board!Insert
  <1> QED BY <1>4, <1>5 DEF InsertWrite

-----------------------------------------------------------------------------
(* The refinement *)

\* Every step is an operation of the board or leaves its tables alone.
LEMMA BoardStep ==
    ASSUME NoRewind, VersionInv, [Next]_vars
    PROVE  [Board!Next]_(Board!vars)
  <1> USE DEF dbVars, opVars, histVars
  <1>1. ASSUME NEW t \in TaskIds, NEW p \in NewTasks, CreateTask(t, p)
        PROVE  Board!Next
    BY <1>1, CreateActsAtOnce DEF Board!Next, VersionInv, TypeInv
  <1>2. ASSUME NEW c \in Clients, InProgress(c)
        PROVE  req[c].task \in TaskIds /\ req[c].user \in Users
    BY <1>2 DEF VersionInv, TypeInv, TypeOK, Request
  <1>3. ASSUME NEW c \in Clients, UpdateWrite(c)
        PROVE  Board!Next \/ UNCHANGED <<rows, rels, now>>
    BY <1>2, <1>3, UpdateActsAtOnce DEF Board!Next, UpdateWrite, InProgress
  <1>4. ASSUME NEW c \in Clients, ClaimWrite(c)
        PROVE  Board!Next \/ UNCHANGED <<rows, rels, now>>
    BY <1>2, <1>4, ClaimActsAtOnce DEF Board!Next, ClaimWrite, InProgress
  <1>5. ASSUME NEW c \in Clients, CloseWrite(c)
        PROVE  Board!Next \/ UNCHANGED <<rows, rels, now>>
    BY <1>2, <1>5, CloseActsAtOnce DEF Board!Next, CloseWrite, InProgress
  <1>6. ASSUME NEW c \in Clients, InsertWrite(c)
        PROVE  Board!Next \/ UNCHANGED <<rows, rels, now>>
    <2>1. InProgress(c) /\ MaxSteps # 0
      BY <1>6, ConstantsAssumption
         DEF InsertWrite, InProgress, VersionInv, TypeInv, RequestOK
    <2>2. SingleConn
      BY <2>1 DEF NoRewind
    <2> QED BY <1>2, <1>6, <2>1, <2>2, InsertActsAtOnce DEF Board!Next
  <1>7. ASSUME NEW c \in Clients,
               \/ RequestUpdate(c) \/ RequestClaim(c) \/ RequestClose(c) \/ RequestInsert(c)
               \/ UpdateRead(c) \/ ClaimRead(c) \/ ClaimCurrent(c) \/ CloseRead(c)
               \/ Record(c) \/ RecordFails(c) \/ InsertRead(c) \/ Abort(c)
        PROVE  UNCHANGED <<rows, rels, now>>
    BY <1>7, Zenon DEF RequestUpdate, RequestClaim, RequestClose, RequestInsert, Accept,
       UpdateRead, ClaimRead, ClaimCurrent, CloseRead, Record, RecordFails, InsertRead, Abort
  <1>8. Tick => Board!Next
    BY DEF Tick, Board!Next, Board!Tick
  <1>9. UNCHANGED vars => UNCHANGED <<rows, rels, now>>
    BY DEF vars
  <1>10. Board!Next \/ UNCHANGED <<rows, rels, now>>
    BY <1>1, <1>3, <1>4, <1>5, <1>6, <1>7, <1>8, <1>9 DEF Next, Step
  <1> QED BY <1>10 DEF Board!vars

\* The store implements the board: a request that reads, decides and writes
\* statements later does what the operation would have done to the row it
\* overwrites all at once, or nothing.  On SQLite whatever is sent; on
\* Postgres as long as nothing is inserted.
THEOREM Implements == ASSUME NoRewind PROVE Spec => ActsAtOnce
  <1>1. Init => Board!Init
    BY SameVocabulary DEF Init, Board!Init
  <1>2. VersionInv /\ [Next]_vars => [Board!Next]_(Board!vars)
    BY BoardStep
  <1> QED BY <1>1, <1>2, VersionInvAlways, PTL DEF Spec, ActsAtOnce, Board!Spec
=============================================================================
