----------------------------- MODULE PollManager -----------------------------
(***************************************************************************)
(* The web board of an external collection: PollManager                    *)
(* (web/src/store/poll-manager.ts) fetches the task list again and again   *)
(* and merges it into the TaskStore, while the user edits tasks            *)
(* optimistically, and goes from one collection to another and back        *)
(* (web/src/components/ft-app.ts).                                         *)
(*                                                                         *)
(* An action is one callback of the page, or a step of the platform.  A    *)
(* task is one register: a value that an edit replaces, 0 where there is   *)
(* no task.  Every visit of a board creates a manager; all of them write   *)
(* to the one TaskStore of the page.                                       *)
(***************************************************************************)
EXTENDS Integers, FiniteSets

CONSTANTS
    Collections,
    NoCollection,
    Tasks,
    CollectionOf,  \* the collection of each task
    MaxVisits,     \* managers, in the order of the visits
    Writers,       \* edits that can be in flight at the same time
    MaxEvents      \* bound on edits, those of others included, and on
                   \* fetches that fail

Managers == 1..MaxVisits
NoManager == 0

ASSUME PollConstants ==
    /\ NoCollection \notin Collections
    /\ CollectionOf \in [Tasks -> Collections]
    /\ {MaxVisits, MaxEvents} \subseteq Nat
    /\ IsFiniteSet(Writers)

VARIABLES
    remote,     \* the tasks on the platform
    board,      \* the tasks in the TaskStore
    loading,    \* TaskStore.isLoading
    collection, \* that the page shows
    manager,    \* the app's pollManager
    mgrs,       \* the managers
    writes,     \* edits in flight
    strays,     \* history: edits that returned after their visit was over
    visits, events  \* what has happened of the bounded events

countVars == <<visits, events>>
vars == <<remote, board, loading, collection, manager, mgrs, writes, strays, countVars>>

Empty == [t \in Tasks |-> 0]

\* A manager of a collection: start() waits for its first refresh (starting),
\* _isRefreshing, the state of its listTasks call ("none", "sent", "answered" or
\* "failed"), whether the call's token is still the pollToken (valid), the
\* answer, and the number of marks of every task.
NewManager == [coll |-> NoCollection, starting |-> FALSE, stopped |-> FALSE,
               timer |-> FALSE, refreshing |-> FALSE, call |-> "none",
               valid |-> FALSE, answer |-> Empty, dirty |-> Empty]

\* An edit in flight is "sent", "committed" or "rejected"; it holds its task,
\* value, the old value, whether it was marked, and the manager it began under.
InFlight(w) == writes[w].phase # "none"

Init ==
    /\ remote = [t \in Tasks |-> 1]
    /\ board = Empty
    /\ loading = TRUE
    /\ collection = NoCollection
    /\ manager = NoManager
    /\ mgrs = [i \in Managers |-> NewManager]
    /\ writes = [w \in Writers |-> [phase |-> "none"]]
    /\ strays = FALSE
    /\ visits = 0 /\ events = 0

-----------------------------------------------------------------------------
(* The manager *)

\* A refresh begins unless one is in flight.
Refreshing(m) == [m EXCEPT !.refreshing = TRUE, !.call = "sent", !.valid = TRUE]

\* stop() moves the pollToken on, so the call in flight goes stale.
Stopped_TokenKept(m) == [m EXCEPT !.stopped = TRUE, !.timer = FALSE, !.refreshing = FALSE]

Stopped(m) == [m EXCEPT !.stopped = TRUE, !.timer = FALSE, !.refreshing = FALSE,
                        !.valid = FALSE]

TimerFires(i) ==
    /\ mgrs[i].timer /\ ~mgrs[i].refreshing
    /\ mgrs' = [mgrs EXCEPT ![i] = Refreshing(@)]
    /\ UNCHANGED <<remote, board, loading, collection, manager, writes, strays, countVars>>

onManualRefresh ==
    /\ manager # NoManager /\ ~mgrs[manager].refreshing
    /\ mgrs' = [mgrs EXCEPT ![manager] = Refreshing(@)]
    /\ UNCHANGED <<remote, board, loading, collection, manager, writes, strays, countVars>>

\* The platform answers ListTasks with what it has at this moment.
ListTasks(i) ==
    /\ mgrs[i].call = "sent"
    /\ \/ /\ mgrs' = [mgrs EXCEPT ![i].call = "answered",
                ![i].answer = [t \in Tasks |->
                    IF CollectionOf[t] = mgrs[i].coll THEN remote[t] ELSE 0]]
          /\ UNCHANGED events
       \/ /\ events < MaxEvents
          /\ events' = events + 1
          /\ mgrs' = [mgrs EXCEPT ![i].call = "failed"]
    /\ UNCHANGED <<remote, board, loading, collection, manager, writes, strays, visits>>

\* Tasks with a write in flight stay; the others become what was fetched, and
\* a task that was not fetched is swept off the board.
Merged_NoSweep(m) == [t \in Tasks |->
    IF m.dirty[t] > 0 \/ m.answer[t] = 0 THEN board[t] ELSE m.answer[t]]

Merged(m) == [t \in Tasks |-> IF m.dirty[t] > 0 THEN board[t] ELSE m.answer[t]]

\* The answer arrives; start() goes on to set its interval, also when the
\* manager was stopped while it waited.
RefreshEnds(i) ==
    /\ mgrs[i].call \in {"answered", "failed"}
    /\ IF mgrs[i].valid /\ mgrs[i].call = "answered"
       THEN /\ board' = Merged(mgrs[i])
            /\ loading' = FALSE
       ELSE UNCHANGED <<board, loading>>
    /\ mgrs' = [mgrs EXCEPT
          ![i].call = "none", ![i].answer = Empty, ![i].valid = FALSE,
          ![i].refreshing = IF mgrs[i].valid THEN FALSE ELSE @,
          ![i].starting = FALSE,
          ![i].timer = @ \/ mgrs[i].starting]
    /\ UNCHANGED <<remote, collection, manager, writes, strays, countVars>>

-----------------------------------------------------------------------------
(* The page *)

stopPolling == IF manager = NoManager THEN mgrs
               ELSE [mgrs EXCEPT ![manager] = Stopped(@)]

\* showCollectionList
ShowList ==
    /\ collection # NoCollection
    /\ collection' = NoCollection
    /\ manager' = NoManager
    /\ mgrs' = stopPolling
    /\ board' = Empty /\ loading' = TRUE
    /\ UNCHANGED <<remote, writes, strays, countVars>>

\* showBoard: until the stream is refused there is no manager.
ShowBoard(c) ==
    /\ visits < MaxVisits
    /\ collection' = c
    /\ manager' = NoManager
    /\ mgrs' = stopPolling
    /\ board' = Empty /\ loading' = TRUE
    /\ visits' = visits + 1
    /\ UNCHANGED <<remote, writes, strays, events>>

switchToPolling ==
    /\ collection # NoCollection /\ manager = NoManager
    /\ manager' = visits
    /\ mgrs' = [mgrs EXCEPT ![visits] =
          Refreshing([NewManager EXCEPT !.coll = collection, !.starting = TRUE])]
    /\ UNCHANGED <<remote, board, loading, collection, writes, strays, countVars>>

-----------------------------------------------------------------------------
(* Edits *)

\* applyTaskUpdate marks the task; the drag handlers of the views do not.
Edit(w, t, marked) ==
    /\ ~InFlight(w)
    /\ manager # NoManager
    /\ board[t] # 0
    /\ events < MaxEvents
    /\ events' = events + 1
    /\ LET value == events' + 1 IN
          /\ board' = [board EXCEPT ![t] = value]
          /\ writes' = [writes EXCEPT ![w] = [phase |-> "sent", task |-> t,
                value |-> value, old |-> board[t], marked |-> marked,
                under |-> manager]]
    /\ mgrs' = IF marked THEN [mgrs EXCEPT ![manager].dirty[t] = @ + 1] ELSE mgrs
    /\ UNCHANGED <<remote, loading, collection, manager, strays, visits>>

\* The platform executes the edit, or refuses it.
UpdateTask(w) ==
    /\ InFlight(w) /\ writes[w].phase = "sent"
    /\ \/ /\ remote[writes[w].task] # 0
          /\ remote' = [remote EXCEPT ![writes[w].task] = writes[w].value]
          /\ writes' = [writes EXCEPT ![w].phase = "committed"]
       \/ /\ writes' = [writes EXCEPT ![w].phase = "rejected"]
          /\ UNCHANGED remote
    /\ UNCHANGED <<board, loading, collection, manager, mgrs, strays, countVars>>

\* The mark is taken off the manager of the moment, whichever that is.
clearDirty_All(t) == IF manager = NoManager THEN mgrs
                     ELSE [mgrs EXCEPT ![manager].dirty[t] = 0]

clearDirty(t) == IF manager = NoManager THEN mgrs
                 ELSE [mgrs EXCEPT ![manager].dirty[t] = IF @ > 0 THEN @ - 1 ELSE 0]

\* The call returns.  A failure, which an executed edit can end in too, puts
\* the task back as it was before; a drag handler takes the row returned.
EditReturns(w) ==
    LET e == writes[w]
    IN /\ InFlight(w) /\ e.phase # "sent"
       /\ \/ /\ e.phase = "committed"
             /\ board' = IF e.marked THEN board ELSE [board EXCEPT ![e.task] = e.value]
          \/ board' = [board EXCEPT ![e.task] = e.old]
       /\ writes' = [writes EXCEPT ![w] = [phase |-> "none"]]
       /\ mgrs' = IF e.marked THEN clearDirty(e.task) ELSE mgrs
       /\ strays' = (strays \/ e.under # manager)
       /\ UNCHANGED <<remote, loading, collection, manager, countVars>>

\* Somebody else edits, creates or removes a task on the platform.
RemoteChange(t) ==
    /\ events < MaxEvents
    /\ events' = events + 1
    /\ \/ remote' = [remote EXCEPT ![t] = events' + 1]
       \/ remote[t] # 0 /\ remote' = [remote EXCEPT ![t] = 0]
    /\ UNCHANGED <<board, loading, collection, manager, mgrs, writes, strays, visits>>

Next == \/ \E i \in Managers : TimerFires(i) \/ ListTasks(i) \/ RefreshEnds(i)
        \/ onManualRefresh \/ ShowList \/ switchToPolling
        \/ \E c \in Collections : ShowBoard(c)
        \/ \E w \in Writers : \/ UpdateTask(w) \/ EditReturns(w)
                              \/ \E t \in Tasks, b \in BOOLEAN : Edit(w, t, b)
        \/ \E t \in Tasks : RemoteChange(t)

\* Intervals fire and every call returns in the end.
Fairness ==
    /\ WF_vars(switchToPolling)
    /\ \A i \in Managers : /\ WF_vars(TimerFires(i))
                           /\ WF_vars(ListTasks(i)) /\ WF_vars(RefreshEnds(i))
    /\ \A w \in Writers : WF_vars(UpdateTask(w)) /\ WF_vars(EditReturns(w))

Spec == Init /\ [][Next]_vars /\ Fairness

-----------------------------------------------------------------------------
(* Properties *)

\* A manager that was stopped while start() waited for its first refresh: it
\* sets its interval afterwards.
Orphan(i) == mgrs[i].stopped /\ (mgrs[i].starting \/ mgrs[i].timer)

\* An answer of manager i is being merged.
Merging(i) == mgrs[i].call # "none" /\ mgrs'[i].call = "none"

\* A fetch never overwrites or sweeps a task with a marked edit in flight, also
\* when several edits of the task overlap and the first of them returns;
\* edits that return after their visit was over can take a mark off.
MarkedEditStays ==
    [][\A i \in Managers, w \in Writers :
          /\ Merging(i) /\ i = manager /\ ~strays
          /\ InFlight(w) /\ writes[w].marked /\ writes[w].under = i
          => board'[writes[w].task] = board[writes[w].task]]_vars

\* The answer that a stopped manager still waited for does not reach the board
\* of the collection shown next, where it was stopped after its first refresh.
LateAnswerIgnored ==
    [][\A i \in Managers : Merging(i) /\ mgrs[i].stopped /\ ~Orphan(i)
          => UNCHANGED <<board, loading>>]_vars

\* What the page should show.
Shown == [t \in Tasks |-> IF CollectionOf[t] = collection THEN remote[t] ELSE 0]

\* Once edits have returned, the board becomes the remote list: stale answers,
\* rollbacks and tasks of other collections do not stay on it.
Converges ==
    <>[](manager # NoManager /\ \A i \in Managers : ~Orphan(i)) => <>[](board = Shown)
=============================================================================
