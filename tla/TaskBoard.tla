------------------------------ MODULE TaskBoard ------------------------------
(***************************************************************************)
(* What a task store promises its callers: every operation of the Store    *)
(* interface (internal/store/store.go) that succeeds takes effect at one   *)
(* instant, on the tasks and edges as they are at that instant, and one    *)
(* that fails has no effect.  TaskStore shows how EntStore does it.        *)
(***************************************************************************)
EXTENDS TaskState, Sequences

CONSTANTS TaskIds, Users, NoUser, Labels, NewTasks, Updates, CloseStages,
          MaxSteps, MaxNow

VARIABLES
    board,  \* the tasks; version 0 where there is none
    links,  \* the edges between them: <<source, target, type>>
    now

vars == <<board, links, now>>

Nothing == [phase |-> "open", stage |-> "triage", hold |-> NoHold,
            assignee |-> NoUser, start |-> NoDate, closedAt |-> NoDate,
            labels |-> {}, version |-> 0]

Exists(t) == board[t].version > 0

\* r in a new stage, under the next version
Moved(r, stage) == [r EXCEPT !.stage = stage, !.phase = phaseForStage(stage),
                             !.version = @ + 1]

Links(t, blocks, blockedBy) == ({t} \X blocks \X {"blocks"})
                          \cup ({t} \X blockedBy \X {"blocked_by"})

\* An edge between two tasks may be stored from either end.
WaitsFor(t, b) == <<t, b, "blocked_by">> \in links \/ <<b, t, "blocks">> \in links

Ready(t) ==
    /\ board[t].stage \notin {"triage"} \cup TerminalStages
    /\ board[t].hold = NoHold
    /\ ~InFuture(board[t].start, now)
    /\ \A b \in TaskIds : WaitsFor(t, b) /\ Exists(b) => board[b].stage = "completed"

Valid(r, clearingStart) ==
    validateTaskStateForWrite(r.stage, r.hold, r.start, clearingStart, now)

-----------------------------------------------------------------------------

Create(t, p) ==
    LET r == [Nothing EXCEPT !.stage = p.stage, !.phase = phaseForStage(p.stage),
                  !.hold = p.hold, !.assignee = p.assignee, !.start = p.start,
                  !.version = 1]
    IN /\ ~Exists(t)
       /\ Valid(r, FALSE)
       /\ \A x \in (p.blocks \cup p.blockedBy) \ {t} : Exists(x)
       /\ board' = [board EXCEPT ![t] = r]
       /\ links' = links \cup Links(t, p.blocks, p.blockedBy)
       /\ UNCHANGED now

\* A start date ends a deferral, unless the same update asks for one.
HoldUpdated(r, p) ==
    CASE p.clearHold -> NoHold
      [] ~p.clearHold /\ p.hold # NoHold -> p.hold
      [] OTHER -> IF r.hold = "deferred" /\ p.start # NoDate /\ ~p.clearStart
                  THEN NoHold ELSE r.hold

Updated(r, p) ==
    [(IF p.stage = NoStage THEN [r EXCEPT !.version = @ + 1] ELSE Moved(r, p.stage))
     EXCEPT !.hold = HoldUpdated(r, p),
            !.assignee = CASE p.clearAssignee -> NoUser
                           [] ~p.clearAssignee /\ p.assignee # NoUser -> p.assignee
                           [] OTHER -> @,
            !.start = CASE p.clearStart -> NoDate
                        [] ~p.clearStart /\ p.start # NoDate -> p.start
                        [] OTHER -> @,
            !.labels = (@ \cup p.addLabels) \ p.removeLabels]

Update(t, p) ==
    /\ Exists(t)
    /\ Valid(Updated(board[t], p), p.clearStart)
    /\ \A x \in p.addBlocks \cup p.addBlockedBy : Exists(x)
    /\ board' = [board EXCEPT ![t] = Updated(@, p)]
    /\ links' = (links \cup Links(t, p.addBlocks, p.addBlockedBy))
                    \ ({t} \X p.removeRels \X {"blocks", "blocked_by"})
    /\ UNCHANGED now

Claim(t, u) ==
    /\ board[t].stage = "accepted" /\ board[t].assignee = NoUser
    /\ Ready(t)
    /\ board' = [board EXCEPT ![t] = [Moved(@, "working") EXCEPT !.assignee = u]]
    /\ UNCHANGED <<links, now>>

Close(t, stage) ==
    /\ board[t].phase # "closed"
    /\ board' = [board EXCEPT ![t] = [Moved(@, stage) EXCEPT !.closedAt = now]]
    /\ UNCHANGED <<links, now>>

\* New tasks steps[1] .. steps[n] between t and everything that t blocks.
Insert(t, n, steps) ==
    LET after == {d \in TaskIds : <<t, d, "blocks">> \in links}
        new == {steps[i] : i \in 1..n}
    IN /\ Exists(t)
       /\ \A i, j \in 1..n : ~Exists(steps[i]) /\ (steps[i] = steps[j] => i = j)
       /\ board' = [x \in TaskIds |->
              CASE x \in new -> [Nothing EXCEPT !.version = 1]
                [] x \notin new /\ x = t -> [board[t] EXCEPT !.version = @ + 1]
                [] OTHER -> board[x]]
       /\ links' = (links \ ({t} \X after \X {"blocks"}))
              \cup {<<t, steps[1], "blocks">>}
              \cup {<<steps[i], steps[i + 1], "blocks">> : i \in 1..(n - 1)}
              \cup ({steps[n]} \X after \X {"blocks"})
       /\ UNCHANGED now

Tick == now' = now + 1 /\ UNCHANGED <<board, links>>

Init == /\ board = [t \in TaskIds |-> Nothing]
        /\ links = {}
        /\ now = 0

Next == \/ \E t \in TaskIds, p \in NewTasks : Create(t, p)
        \/ \E t \in TaskIds, p \in Updates : Update(t, p)
        \/ \E t \in TaskIds, u \in Users : Claim(t, u)
        \/ \E t \in TaskIds, s \in CloseStages : Close(t, s)
        \/ \E t \in TaskIds, n \in 1..MaxSteps :
              \E steps \in [1..n -> TaskIds] : Insert(t, n, steps)
        \/ Tick

Spec == Init /\ [][Next]_vars
=============================================================================
