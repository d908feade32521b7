------------------------------ MODULE TaskState ------------------------------
(***************************************************************************)
(* The vocabulary of a task: stages, phases, hold reasons and start dates, *)
(* and the pure functions over them that the store and the RPC handlers    *)
(* share (internal/store/entstore.go, internal/server/convert.go).         *)
(*                                                                         *)
(* A NULL hold reason is NoHold and a NULL date is NoDate; time is a       *)
(* natural number.                                                         *)
(***************************************************************************)
EXTENDS Integers

Phases == {"open", "in_progress", "on_hold", "closed"}

IntakeStages == {"triage", "accepted"}
ActiveStages == {"working", "in_review", "in_qa", "deploying"}
TerminalStages == {"completed", "wont_fix", "duplicate", "cancelled"}
Stages == IntakeStages \cup ActiveStages \cup TerminalStages

NoHold == "no_hold"
HoldReasons == {"waiting_for_input", "deferred"}

NoDate == -1
Dates == Nat \cup {NoDate}

\* time.Time.After(time.Now()) on a nullable date.
InFuture(date, now) == date # NoDate /\ date > now

-----------------------------------------------------------------------------

phaseForStage(stage) ==
    CASE stage \in IntakeStages   -> "open"
      [] stage \in ActiveStages   -> "in_progress"
      [] stage \in TerminalStages -> "closed"

\* An update that does not name a stage.
NoStage == "no_stage"

IsTerminalStage(stage) == stage \in TerminalStages

\* Only a completed blocker releases the tasks that wait for it: a blocker
\* that was closed as wont_fix, duplicate or cancelled still blocks.
terminalStageSatisfiesDependency(stage) == stage = "completed"

HoldableStages == {"accepted"} \cup ActiveStages

\* TRUE when the write is allowed; the code returns ErrInvalidArgument
\* otherwise.
validateTaskStateForWrite(stage, hold, start, clearingStart, now) ==
    hold # NoHold =>
        /\ stage \in HoldableStages
        /\ ~ (hold = "deferred" /\ InFuture(start, now) /\ ~clearingStart)
=============================================================================
