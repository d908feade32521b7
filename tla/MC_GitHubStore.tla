--------------------------- MODULE MC_GitHubStore ---------------------------
(* A small repository: a task, its sub-issue and, for the creation, an unused
   number. *)
EXTENDS GitHubStore

L(kind, own) == [kind |-> kind, own |-> own]
Blank == [state |-> "open", labels |-> {}, assigned |-> FALSE, parent |-> None]

MCIssues == {1, 2, 3}
MCStart ==
  <<Blank, [Blank EXCEPT !.parent = 1], Absent>>
MCRepo == {L("working", TRUE), L("accepted", TRUE)}
MCLoose == {L("in_review", FALSE), L("held", FALSE)}

Ask(op, i, s, p) == [op |-> op, issue |-> i, stage |-> s, parent |-> p]
AllRequests ==
  {Ask("claim", 2, None, None), Ask("update", 2, "accepted", None),
   Ask("close", 2, "completed", None),
   Ask("create", None, "accepted", 1), Ask("update", 2, None, 1)}
=============================================================================
