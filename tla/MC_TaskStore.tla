---------------------------- MODULE MC_TaskStore ----------------------------
(***************************************************************************)
(* Small instances of TaskStore: one or two tasks (four where chains of    *)
(* tasks are inserted), two users, up to three requests in progress.       *)
(***************************************************************************)
EXTENDS TaskStoreRefinement, TLC

CONSTANTS t1, t2, t3, t4, u1, u2, c1, c2, c3, l1, l2

Symmetric == Permutations(Clients) \cup Permutations(Users)

Plain == [stage |-> "accepted", hold |-> NoHold, assignee |-> NoUser,
          start |-> NoDate, blocks |-> {}, blockedBy |-> {}]

OnePlain == {Plain}

\* With an edge from its creation on.
Linked == {Plain, [Plain EXCEPT !.blocks = {t1}]}

\* Edits that race with claims and closes.
Edits == {[NoUpdate EXCEPT !.hold = "waiting_for_input"],
          [NoUpdate EXCEPT !.stage = "accepted", !.clearAssignee = TRUE],
          [NoUpdate EXCEPT !.addLabels = {l1}]}

\* And with each other: a deferral against a start date, each with its labels,
\* and a task sent back to a stage that cannot be held.
RaceEdits == {[NoUpdate EXCEPT !.hold = "deferred", !.addLabels = {l1}],
              [NoUpdate EXCEPT !.start = 1, !.addLabels = {l2}, !.removeLabels = {l1}],
              [NoUpdate EXCEPT !.stage = "triage", !.clearAssignee = TRUE]}

\* Edges that come and go from either end, and blockers that are reopened.
EdgeEdits == {[NoUpdate EXCEPT !.addBlocks = {t2}],
              [NoUpdate EXCEPT !.addBlockedBy = {t1}],
              [NoUpdate EXCEPT !.removeRels = {t1, t2}],
              [NoUpdate EXCEPT !.stage = "accepted"]}

LabelEdits == {[NoUpdate EXCEPT !.addLabels = {l1}],
               [NoUpdate EXCEPT !.removeLabels = {l1}],
               [NoUpdate EXCEPT !.stage = "in_review"]}
=============================================================================
