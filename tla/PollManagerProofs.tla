-------------------------- MODULE PollManagerProofs --------------------------
(***************************************************************************)
(* Proofs about PollManager: that a fetch leaves tasks with a marked edit  *)
(* in flight alone, and that the answer a stopped manager still waited for *)
(* does not reach the board of the next collection.                        *)
(***************************************************************************)
EXTENDS PollManager, FiniteSetTheorems, TLAPS

\* What a manager is.
Manager == [coll : Collections \cup {NoCollection}, starting : BOOLEAN, stopped : BOOLEAN,
            timer : BOOLEAN, refreshing : BOOLEAN,
            call : {"none", "sent", "answered", "failed"}, valid : BOOLEAN,
            answer : [Tasks -> Nat], dirty : [Tasks -> Nat]]

\* An edit in flight.
Write == [phase : {"sent", "committed", "rejected"}, task : Tasks, value : Nat,
          old : Nat, marked : BOOLEAN, under : Managers]

\* The types of the variables, and which manager goes with which visit: the
\* page's manager is the one of its last visit, and no edit was begun under a
\* manager that is still to come.
TypeInv ==
    /\ remote \in [Tasks -> Nat] /\ board \in [Tasks -> Nat]
    /\ loading \in BOOLEAN /\ strays \in BOOLEAN
    /\ collection \in Collections \cup {NoCollection}
    /\ mgrs \in [Managers -> Manager]
    /\ writes \in [Writers -> Write \cup {[phase |-> "none"]}]
    /\ visits \in 0..MaxVisits /\ events \in Nat
    /\ manager \in {NoManager, visits}

VisitInv ==
    /\ manager # NoManager => collection # NoCollection
    /\ collection # NoCollection => visits # 0
    /\ \A w \in Writers : InFlight(w) =>
          /\ writes[w].under <= visits
          /\ collection # NoCollection /\ manager = NoManager => writes[w].under < visits

\* What LateAnswerIgnored rests on: the manager of the page runs, and a stopped
\* one that sets no interval any more waits for nothing it would merge.
StopInv ==
    /\ manager # NoManager => ~mgrs[manager].stopped
    /\ \A i \in Managers : mgrs[i].stopped /\ ~Orphan(i) => ~mgrs[i].valid

\* The marked edits of task t in flight that began under manager i.
MarkedEdits(i, t) ==
    {w \in Writers : InFlight(w) /\ writes[w].marked /\ writes[w].under = i /\ writes[w].task = t}

\* What MarkedEditStays rests on: while no edit returned after its visit, the
\* page's manager has at least as many marks of a task as it has edits of it in
\* flight.
MarkInv ==
    ~strays /\ manager # NoManager =>
        \A t \in Tasks : Cardinality(MarkedEdits(manager, t)) <= mgrs[manager].dirty[t]

-----------------------------------------------------------------------------
(* Types *)

\* Starting a refresh and stopping keep a manager's type.
LEMMA ManagerType ==
    ASSUME NEW m \in Manager
    PROVE  /\ Refreshing(m) \in Manager
           /\ Stopped(m) \in Manager
           /\ Refreshing(m).dirty = m.dirty /\ Refreshing(m).stopped = m.stopped
           /\ Refreshing(m).starting = m.starting /\ Refreshing(m).timer = m.timer
           /\ Stopped(m).dirty = m.dirty /\ Stopped(m).starting = m.starting
           /\ ~Stopped(m).timer /\ ~Stopped(m).valid /\ Stopped(m).stopped
           /\ Refreshing(m).call = "sent" /\ Stopped(m).call = m.call
  BY DEF Manager, Refreshing, Stopped

\* A new manager has no marks and is not stopped.
LEMMA NewManagerType ==
    ASSUME NEW c \in Collections
    PROVE  LET m == Refreshing([NewManager EXCEPT !.coll = c, !.starting = TRUE])
           IN  m \in Manager /\ m.dirty = Empty /\ ~m.stopped /\ m.call = "sent"
  BY DEF Manager, NewManager, Refreshing, Empty

\* The page's manager is one of the managers.
LEMMA ManagerIsOne ==
    ASSUME TypeInv, manager # NoManager
    PROVE  manager \in Managers /\ mgrs[manager] \in Manager /\ manager = visits
  BY PollConstants DEF TypeInv, Managers, NoManager

\* Leaving a board stops the page's manager and touches no other.
LEMMA StopPollingType ==
    ASSUME TypeInv, mgrs' = stopPolling
    PROVE  /\ mgrs' \in [Managers -> Manager]
           /\ \A i \in Managers : mgrs'[i] = IF i = manager THEN Stopped(mgrs[i]) ELSE mgrs[i]
<1>1. \A i \in Managers : mgrs[i] \in Manager /\ i # NoManager
  BY DEF TypeInv, Managers, NoManager
<1>2. CASE manager = NoManager
  BY <1>1, <1>2 DEF stopPolling, TypeInv
<1>3. CASE manager # NoManager
  <2>1. mgrs' = [mgrs EXCEPT ![manager] = Stopped(@)]
    BY <1>3 DEF stopPolling
  <2>2. manager \in Managers /\ Stopped(mgrs[manager]) \in Manager
    BY <1>3, ManagerIsOne, ManagerType
  <2>. QED BY <2>1, <2>2 DEF TypeInv
<1>. QED BY <1>2, <1>3

\* The marks of a task after one is added or taken off.
LEMMA MarksType ==
    ASSUME NEW m \in Manager, NEW t \in Tasks
    PROVE  /\ [m EXCEPT !.dirty[t] = @ + 1] \in Manager
           /\ [m EXCEPT !.dirty[t] = IF @ > 0 THEN @ - 1 ELSE 0] \in Manager
<1>1. m.dirty \in [Tasks -> Nat]
  BY DEF Manager
<1>2. [m.dirty EXCEPT ![t] = @ + 1] \in [Tasks -> Nat]
  BY <1>1
<1>3. [m.dirty EXCEPT ![t] = IF @ > 0 THEN @ - 1 ELSE 0] \in [Tasks -> Nat]
  BY <1>1
<1>. QED BY <1>2, <1>3 DEF Manager

\* The board begins with no manager and no edit.
LEMMA TypeInvInit == Init => TypeInv
<1>. SUFFICES ASSUME Init PROVE TypeInv
  OBVIOUS
<1>1. NewManager \in Manager
  BY DEF Manager, NewManager, Empty
<1>2. mgrs \in [Managers -> Manager] /\ writes \in [Writers -> Write \cup {[phase |-> "none"]}]
  BY <1>1 DEF Init
<1>3. visits \in 0..MaxVisits /\ manager \in {NoManager, visits}
  BY PollConstants DEF Init
<1>. QED BY <1>2, <1>3 DEF Init, TypeInv, Empty

\* An edit in flight is a Write, and its task, value and manager are what they
\* should be.
LEMMA InFlightType ==
    ASSUME TypeInv, NEW w \in Writers, InFlight(w)
    PROVE  writes[w] \in Write
<1>1. writes[w] \in Write \cup {[phase |-> "none"]}
  BY DEF TypeInv
<1>. QED BY <1>1 DEF InFlight

\* The manager that a refresh has come back to.
LEMMA RefreshEndsType ==
    ASSUME TypeInv, NEW i \in Managers, RefreshEnds(i)
    PROVE  /\ mgrs' \in [Managers -> Manager]
           /\ \A k \in Managers : k # i => mgrs'[k] = mgrs[k]
           /\ ~mgrs'[i].valid /\ mgrs'[i].stopped = mgrs[i].stopped
           /\ mgrs'[i].dirty = mgrs[i].dirty
<1>. DEFINE m == mgrs[i]
            n == [m EXCEPT !.call = "none", !.answer = Empty, !.valid = FALSE,
                           !.refreshing = IF m.valid THEN FALSE ELSE @,
                           !.starting = FALSE, !.timer = @ \/ m.starting]
<1>1. m \in Manager /\ Empty \in [Tasks -> Nat]
  BY DEF TypeInv, Empty
<1>2. mgrs' = [mgrs EXCEPT ![i] = n]
  BY DEF RefreshEnds
<1>3. n \in Manager /\ ~n.valid /\ n.stopped = m.stopped /\ n.dirty = m.dirty
  BY <1>1 DEF Manager
<1>. HIDE DEF m, n
<1>. QED BY <1>2, <1>3 DEF TypeInv, m

\* Every callback keeps the types.
LEMMA TypeInvStep == TypeInv /\ [Next]_vars => TypeInv'
<1>. SUFFICES ASSUME TypeInv, [Next]_vars PROVE TypeInv'
  OBVIOUS
<1>. DEFINE Ms == [Managers -> Manager]
            Ws == [Writers -> Write \cup {[phase |-> "none"]}]
<1>0. mgrs \in Ms /\ writes \in Ws /\ Empty \in [Tasks -> Nat]
  BY DEF TypeInv, Empty
<1>1. ASSUME NEW i \in Managers, TimerFires(i) PROVE TypeInv'
  <2>1. mgrs' \in Ms
    BY <1>0, <1>1, ManagerType DEF TimerFires
  <2>. QED BY <1>1, <2>1 DEF TypeInv, TimerFires, countVars
<1>2. ASSUME NEW i \in Managers, ListTasks(i) PROVE TypeInv'
  <2>. DEFINE m == mgrs[i]
              a == [t \in Tasks |-> IF CollectionOf[t] = m.coll THEN remote[t] ELSE 0]
  <2>1. m \in Manager /\ a \in [Tasks -> Nat]
    BY DEF TypeInv
  <2>2. [m EXCEPT !.call = "answered", !.answer = a] \in Manager
        /\ [m EXCEPT !.call = "failed"] \in Manager
    BY <2>1 DEF Manager
  <2>3. \/ mgrs' = [mgrs EXCEPT ![i] = [m EXCEPT !.call = "answered", !.answer = a]]
        \/ mgrs' = [mgrs EXCEPT ![i] = [m EXCEPT !.call = "failed"]]
    BY <1>2 DEF ListTasks
  <2>. HIDE DEF m, a
  <2>4. mgrs' \in Ms
    BY <1>0, <2>2, <2>3
  <2>5. events' \in Nat
    BY <1>2 DEF ListTasks, TypeInv
  <2>. QED BY <1>2, <2>4, <2>5 DEF TypeInv, ListTasks
<1>3. ASSUME NEW i \in Managers, RefreshEnds(i) PROVE TypeInv'
  <2>1. Merged(mgrs[i]) \in [Tasks -> Nat]
    <3>1. mgrs[i].answer \in [Tasks -> Nat]
      BY <1>0 DEF Manager
    <3>. QED BY <3>1 DEF Merged, TypeInv
  <2>2. board' \in [Tasks -> Nat] /\ loading' \in BOOLEAN
    BY <1>3, <2>1 DEF RefreshEnds, TypeInv
  <2>. QED BY <1>3, <2>2, RefreshEndsType DEF TypeInv, RefreshEnds, countVars
<1>4. CASE onManualRefresh
  <2>1. mgrs' \in Ms
    BY <1>0, <1>4, ManagerType, ManagerIsOne DEF onManualRefresh
  <2>. QED BY <1>4, <2>1 DEF TypeInv, onManualRefresh, countVars
<1>5. CASE ShowList
  BY <1>0, <1>5, StopPollingType DEF TypeInv, ShowList, countVars
<1>6. CASE switchToPolling
  <2>1. collection \in Collections
    BY <1>6 DEF switchToPolling, TypeInv
  <2>2. mgrs' \in Ms
    BY <1>0, <1>6, <2>1, NewManagerType DEF switchToPolling
  <2>. QED BY <1>6, <2>2 DEF TypeInv, switchToPolling, countVars
<1>7. ASSUME NEW c \in Collections, ShowBoard(c) PROVE TypeInv'
  <2>1. visits' \in 0..MaxVisits
    BY <1>7, PollConstants DEF ShowBoard, TypeInv
  <2>. QED BY <1>0, <1>7, <2>1, StopPollingType DEF TypeInv, ShowBoard
<1>8. ASSUME NEW w \in Writers, UpdateTask(w) PROVE TypeInv'
  <2>1. writes[w] \in Write
    BY <1>8, InFlightType DEF UpdateTask
  <2>2. [writes[w] EXCEPT !.phase = "committed"] \in Write
        /\ [writes[w] EXCEPT !.phase = "rejected"] \in Write
    BY <2>1 DEF Write
  <2>3. \/ writes' = [writes EXCEPT ![w] = [writes[w] EXCEPT !.phase = "committed"]]
        \/ writes' = [writes EXCEPT ![w] = [writes[w] EXCEPT !.phase = "rejected"]]
    BY <1>8 DEF UpdateTask
  <2>4. writes' \in Ws
    BY <1>0, <2>2, <2>3
  <2>5. remote' \in [Tasks -> Nat]
    BY <1>8, <2>1 DEF UpdateTask, TypeInv, Write
  <2>. QED BY <1>8, <2>4, <2>5 DEF TypeInv, UpdateTask, countVars
<1>9. ASSUME NEW w \in Writers, EditReturns(w) PROVE TypeInv'
  <2>1. writes[w] \in Write
    BY <1>9, InFlightType DEF EditReturns
  <2>2. board' \in [Tasks -> Nat]
    <3>1. writes[w].value \in Nat /\ writes[w].old \in Nat
      BY <2>1 DEF Write
    <3>. QED BY <1>9, <3>1 DEF EditReturns, TypeInv
  <2>3. mgrs' \in Ms
    <3>1. writes[w].task \in Tasks
      BY <2>1 DEF Write
    <3>2. CASE manager = NoManager \/ ~writes[w].marked
      BY <1>0, <1>9, <3>2 DEF EditReturns, clearDirty
    <3>3. CASE manager # NoManager /\ writes[w].marked
      <4>1. mgrs' = [mgrs EXCEPT ![manager].dirty[writes[w].task] = IF @ > 0 THEN @ - 1 ELSE 0]
        BY <1>9, <3>3 DEF EditReturns, clearDirty
      <4>. QED BY <1>0, <3>1, <3>3, <4>1, MarksType, ManagerIsOne
    <3>. QED BY <3>2, <3>3
  <2>4. writes' \in Ws
    BY <1>0, <1>9 DEF EditReturns
  <2>5. strays' \in BOOLEAN
    BY <1>9 DEF EditReturns
  <2>. QED BY <1>9, <2>2, <2>3, <2>4, <2>5 DEF TypeInv, EditReturns, countVars
<1>10. ASSUME NEW w \in Writers, NEW t \in Tasks, NEW b \in BOOLEAN, Edit(w, t, b) PROVE TypeInv'
  <2>1. manager \in Managers /\ mgrs[manager] \in Manager
    BY <1>10, ManagerIsOne DEF Edit
  <2>2. events' \in Nat /\ events' + 1 \in Nat /\ board[t] \in Nat
    BY <1>10 DEF Edit, TypeInv
  <2>3. board' \in [Tasks -> Nat]
    BY <1>10, <2>2 DEF Edit, TypeInv
  <2>4. writes' \in Ws
    <3>1. [phase |-> "sent", task |-> t, value |-> events' + 1, old |-> board[t],
           marked |-> b, under |-> manager] \in Write
      BY <2>1, <2>2 DEF Write
    <3>. QED BY <1>0, <1>10, <3>1 DEF Edit
  <2>5. mgrs' \in Ms
    <3>1. mgrs' = mgrs \/ mgrs' = [mgrs EXCEPT ![manager].dirty[t] = @ + 1]
      BY <1>10 DEF Edit
    <3>. QED BY <1>0, <2>1, <3>1, MarksType
  <2>. QED BY <1>10, <2>2, <2>3, <2>4, <2>5 DEF TypeInv, Edit
<1>11. ASSUME NEW t \in Tasks, RemoteChange(t) PROVE TypeInv'
  <2>1. events' \in Nat /\ remote' \in [Tasks -> Nat]
    BY <1>11 DEF RemoteChange, TypeInv
  <2>. QED BY <1>11, <2>1 DEF TypeInv, RemoteChange
<1>12. CASE UNCHANGED vars
  BY <1>12 DEF vars, countVars, TypeInv
<1>. QED BY <1>1, <1>2, <1>3, <1>4, <1>5, <1>6, <1>7, <1>8, <1>9, <1>10, <1>11, <1>12 DEF Next

-----------------------------------------------------------------------------
(* What an action does to a manager *)

\* The steps that leave the page, the visits and the edits in flight as they
\* are: those of the managers and of the others' changes.
ManagerMoves ==
    \/ \E i \in Managers : TimerFires(i) \/ ListTasks(i) \/ RefreshEnds(i)
    \/ onManualRefresh
    \/ \E t \in Tasks : RemoteChange(t)

\* They keep every mark, and a manager is stopped only by the page.
LEMMA ManagerMovesKeep ==
    ASSUME TypeInv, ManagerMoves
    PROVE  /\ UNCHANGED <<collection, manager, visits, writes, strays>>
           /\ \A i \in Managers : /\ mgrs'[i].dirty = mgrs[i].dirty
                                  /\ mgrs'[i].stopped = mgrs[i].stopped
<1>0. mgrs \in [Managers -> Manager]
  BY DEF TypeInv
<1>1. ASSUME NEW i \in Managers, TimerFires(i) PROVE mgrs' = [mgrs EXCEPT ![i] = Refreshing(@)]
  BY <1>1 DEF TimerFires
<1>2. ASSUME NEW i \in Managers, ListTasks(i)
      PROVE  \A k \in Managers : /\ mgrs'[k].dirty = mgrs[k].dirty
                                 /\ mgrs'[k].stopped = mgrs[k].stopped
  <2>. DEFINE a == [t \in Tasks |-> IF CollectionOf[t] = mgrs[i].coll THEN remote[t] ELSE 0]
  <2>1. \/ mgrs' = [mgrs EXCEPT ![i] = [mgrs[i] EXCEPT !.call = "answered", !.answer = a]]
        \/ mgrs' = [mgrs EXCEPT ![i] = [mgrs[i] EXCEPT !.call = "failed"]]
    BY <1>2 DEF ListTasks
  <2>. HIDE DEF a
  <2>. DEFINE m1 == [mgrs[i] EXCEPT !.call = "answered", !.answer = a]
              m2 == [mgrs[i] EXCEPT !.call = "failed"]
  <2>2. \A m \in {m1, m2} : m.dirty = mgrs[i].dirty /\ m.stopped = mgrs[i].stopped
    <3>1. mgrs[i] \in Manager
      BY <1>0
    <3>. QED BY <3>1 DEF Manager
  <2>3. PICK m \in {m1, m2} : mgrs' = [mgrs EXCEPT ![i] = m]
    BY <2>1
  <2>. HIDE DEF m1, m2
  <2>. QED BY <1>0, <2>2, <2>3
<1>3. CASE \E i \in Managers : TimerFires(i) \/ ListTasks(i) \/ RefreshEnds(i)
  <2>1. PICK i \in Managers : TimerFires(i) \/ ListTasks(i) \/ RefreshEnds(i)
    BY <1>3
  <2>2. CASE TimerFires(i)
    BY <1>0, <1>1, <2>2, ManagerType DEF TimerFires, countVars
  <2>3. CASE ListTasks(i)
    BY <1>2, <2>3 DEF ListTasks
  <2>4. CASE RefreshEnds(i)
    <3>1. \A k \in Managers : mgrs'[k].dirty = mgrs[k].dirty /\ mgrs'[k].stopped = mgrs[k].stopped
      BY <2>4, RefreshEndsType
    <3>. QED BY <2>4, <3>1 DEF RefreshEnds, countVars
  <2>. QED BY <2>1, <2>2, <2>3, <2>4
<1>4. CASE onManualRefresh
  BY <1>0, <1>4, ManagerIsOne, ManagerType DEF onManualRefresh, countVars
<1>5. CASE \E t \in Tasks : RemoteChange(t)
  BY <1>5 DEF RemoteChange
<1>. QED BY <1>3, <1>4, <1>5 DEF ManagerMoves

\* An edit that begins or returns changes the marks of the page's manager only.
LEMMA EditKeepsManagers ==
    ASSUME TypeInv, NEW w \in Writers,
           EditReturns(w) \/ UpdateTask(w) \/ \E t \in Tasks, b \in BOOLEAN : Edit(w, t, b)
    PROVE  /\ UNCHANGED <<collection, manager, visits>>
           /\ \A i \in Managers :
                 /\ mgrs'[i].stopped = mgrs[i].stopped /\ mgrs'[i].starting = mgrs[i].starting
                 /\ mgrs'[i].timer = mgrs[i].timer /\ mgrs'[i].valid = mgrs[i].valid
                 /\ mgrs'[i].call = mgrs[i].call
<1>0. mgrs \in [Managers -> Manager]
  BY DEF TypeInv
<1>1. PICK t, e : \/ mgrs' = mgrs
                  \/ mgrs' = [mgrs EXCEPT ![manager].dirty[t] = e]
  BY DEF EditReturns, UpdateTask, Edit, clearDirty
<1>2. UNCHANGED <<collection, manager, visits>>
  BY DEF EditReturns, UpdateTask, Edit, countVars
<1>3. CASE mgrs' = mgrs
  BY <1>2, <1>3
<1>4. CASE mgrs' = [mgrs EXCEPT ![manager].dirty[t] = e]
  BY <1>0, <1>2, <1>4 DEF Manager
<1>. QED BY <1>1, <1>3, <1>4

-----------------------------------------------------------------------------
(* Visits *)

\* There is no edit before the first visit.
LEMMA VisitInvInit == Init => VisitInv
  BY DEF Init, VisitInv, InFlight, NoManager

\* A callback begins edits only under the manager of the last visit.
LEMMA VisitInvStep == TypeInv /\ VisitInv /\ [Next]_vars => VisitInv'
<1>. SUFFICES ASSUME TypeInv, VisitInv, [Next]_vars PROVE VisitInv'
  OBVIOUS
<1>1. CASE ManagerMoves
  BY <1>1, ManagerMovesKeep DEF VisitInv, InFlight
<1>2. CASE ShowList
  <2>1. /\ manager' = NoManager /\ collection' = NoCollection /\ UNCHANGED <<writes, visits>>
    BY <1>2 DEF ShowList, countVars
  <2>. QED BY <2>1 DEF VisitInv, InFlight
<1>3. CASE switchToPolling
  <2>1. manager' = visits /\ collection # NoCollection /\ UNCHANGED <<collection, writes, visits>>
    BY <1>3 DEF switchToPolling, countVars
  <2>. QED BY <2>1 DEF VisitInv, InFlight, NoManager
<1>4. ASSUME NEW c \in Collections, ShowBoard(c) PROVE VisitInv'
  <2>1. manager' = NoManager /\ visits' = visits + 1 /\ writes' = writes
    BY <1>4 DEF ShowBoard
  <2>2. visits \in Nat /\ \A w \in Writers : InFlight(w) => writes[w].under \in Nat
    BY InFlightType DEF TypeInv, Write, Managers
  <2>. QED BY <2>1, <2>2 DEF VisitInv, InFlight
<1>5. ASSUME NEW w \in Writers, UpdateTask(w) PROVE VisitInv'
  <2>1. \A x \in Writers : writes'[x].under = writes[x].under /\ (InFlight(x)' <=> InFlight(x))
    <3>1. writes[w] \in Write /\ InFlight(w)
      BY <1>5, InFlightType DEF UpdateTask
    <3>2. \E p \in {"committed", "rejected"} : writes' = [writes EXCEPT ![w].phase = p]
      BY <1>5 DEF UpdateTask
    <3>. QED BY <3>1, <3>2 DEF TypeInv, InFlight, Write
  <2>. QED BY <1>5, <2>1, EditKeepsManagers DEF VisitInv
<1>6. ASSUME NEW w \in Writers, EditReturns(w) PROVE VisitInv'
  <2>1. ~InFlight(w)' /\ \A x \in Writers \ {w} : writes'[x] = writes[x]
    BY <1>6 DEF EditReturns, TypeInv, InFlight
  <2>. QED BY <1>6, <2>1, EditKeepsManagers DEF VisitInv, InFlight
<1>7. ASSUME NEW w \in Writers, NEW t \in Tasks, NEW b \in BOOLEAN, Edit(w, t, b) PROVE VisitInv'
  <2>1. manager # NoManager /\ manager = visits /\ visits \in Nat
    BY <1>7, ManagerIsOne DEF Edit, TypeInv
  <2>2. writes'[w].under = visits /\ \A x \in Writers \ {w} : writes'[x] = writes[x]
    BY <1>7, <2>1 DEF Edit, TypeInv
  <2>3. UNCHANGED <<collection, manager, visits>>
    BY <1>7 DEF Edit
  <2>. QED BY <2>1, <2>2, <2>3 DEF VisitInv, InFlight
<1>8. CASE UNCHANGED vars
  BY <1>8 DEF vars, countVars, VisitInv, InFlight
<1>. QED BY <1>1, <1>2, <1>3, <1>4, <1>5, <1>6, <1>7, <1>8 DEF Next, ManagerMoves

-----------------------------------------------------------------------------
(* Stopped managers *)

\* Every manager is new.
LEMMA StopInvInit == Init => StopInv
  BY DEF Init, StopInv, NewManager, NoManager

\* A callback that fetches for a stopped manager belongs to one that set its
\* interval afterwards.
LEMMA StopInvStep == TypeInv /\ StopInv /\ [Next]_vars => StopInv'
<1>. SUFFICES ASSUME TypeInv, StopInv, [Next]_vars PROVE StopInv'
  OBVIOUS
<1>0. mgrs \in [Managers -> Manager]
  BY DEF TypeInv
<1>1. CASE ManagerMoves
  <2>1. manager' # NoManager => ~mgrs'[manager'].stopped
    BY <1>1, ManagerMovesKeep, ManagerIsOne DEF StopInv
  <2>2. ASSUME NEW k \in Managers, mgrs'[k].stopped, ~mgrs'[k].starting, ~mgrs'[k].timer
        PROVE  ~mgrs'[k].valid
    <3>0. mgrs[k].stopped /\ (mgrs[k].valid => mgrs[k].starting \/ mgrs[k].timer)
      BY <1>1, <2>2, ManagerMovesKeep DEF StopInv, Orphan
    <3>1. CASE \E t \in Tasks : RemoteChange(t)
      BY <2>2, <3>0, <3>1 DEF RemoteChange
    <3>2. CASE onManualRefresh
      <4>1. manager # k /\ manager \in Managers
        BY <3>0, <3>2, ManagerIsOne DEF StopInv, onManualRefresh
      <4>2. mgrs'[k] = mgrs[k]
        BY <1>0, <3>2, <4>1 DEF onManualRefresh
      <4>. QED BY <2>2, <3>0, <4>2
    <3>3. ASSUME NEW i \in Managers, TimerFires(i) PROVE ~mgrs'[k].valid
      <4>1. mgrs'[i] = Refreshing(mgrs[i]) /\ mgrs[i].timer
            /\ \A j \in Managers \ {i} : mgrs'[j] = mgrs[j]
        BY <1>0, <3>3 DEF TimerFires
      <4>2. k # i
        BY <1>0, <2>2, <4>1, ManagerType
      <4>. QED BY <2>2, <3>0, <4>1, <4>2
    <3>4. ASSUME NEW i \in Managers, ListTasks(i) PROVE ~mgrs'[k].valid
      <4>1. /\ mgrs'[k].starting = mgrs[k].starting /\ mgrs'[k].timer = mgrs[k].timer
            /\ mgrs'[k].valid = mgrs[k].valid
        <5>. DEFINE a == [t \in Tasks |-> IF CollectionOf[t] = mgrs[i].coll THEN remote[t] ELSE 0]
        <5>1. \/ mgrs' = [mgrs EXCEPT ![i] = [mgrs[i] EXCEPT !.call = "answered", !.answer = a]]
              \/ mgrs' = [mgrs EXCEPT ![i] = [mgrs[i] EXCEPT !.call = "failed"]]
          BY <3>4 DEF ListTasks
        <5>. HIDE DEF a
        <5>. DEFINE m1 == [mgrs[i] EXCEPT !.call = "answered", !.answer = a]
                    m2 == [mgrs[i] EXCEPT !.call = "failed"]
        <5>2. \A m \in {m1, m2} : /\ m.starting = mgrs[i].starting
                                  /\ m.timer = mgrs[i].timer /\ m.valid = mgrs[i].valid
          <6>1. mgrs[i] \in Manager
            BY <1>0
          <6>. QED BY <6>1 DEF Manager
        <5>3. PICK m \in {m1, m2} : mgrs' = [mgrs EXCEPT ![i] = m]
          BY <5>1
        <5>. HIDE DEF m1, m2
        <5>. QED BY <1>0, <5>2, <5>3
      <4>. QED BY <2>2, <3>0, <4>1
    <3>5. ASSUME NEW i \in Managers, RefreshEnds(i) PROVE ~mgrs'[k].valid
      BY <2>2, <3>0, <3>5, RefreshEndsType
    <3>. QED BY <1>1, <3>1, <3>2, <3>3, <3>4, <3>5 DEF ManagerMoves
  <2>. QED BY <2>1, <2>2 DEF StopInv, Orphan
<1>2. ASSUME mgrs' = stopPolling, manager' = NoManager PROVE StopInv'
  <2>1. \A i \in Managers : mgrs[i] \in Manager
                            /\ mgrs'[i] = IF i = manager THEN Stopped(mgrs[i]) ELSE mgrs[i]
    BY <1>0, <1>2, StopPollingType
  <2>2. \A i \in Managers : ~Stopped(mgrs[i]).valid
    BY <2>1, ManagerType
  <2>. QED BY <1>2, <2>1, <2>2 DEF StopInv, Orphan
<1>3. CASE switchToPolling
  <2>1. collection \in Collections /\ manager' = visits
    BY <1>3 DEF switchToPolling, TypeInv
  <2>2. PICK m : mgrs' = [mgrs EXCEPT ![visits] = m] /\ ~m.stopped
    BY <1>3, <2>1, NewManagerType DEF switchToPolling
  <2>3. \A i \in Managers : i = visits \/ mgrs'[i] = mgrs[i]
    BY <1>0, <2>2
  <2>4. visits \in Managers => ~mgrs'[visits].stopped
    BY <1>0, <2>2
  <2>5. visits # NoManager => visits \in Managers
    BY PollConstants DEF TypeInv, Managers, NoManager
  <2>. QED BY <2>1, <2>3, <2>4, <2>5 DEF StopInv, Orphan
<1>4. ASSUME NEW w \in Writers,
             EditReturns(w) \/ UpdateTask(w) \/ \E t \in Tasks, b \in BOOLEAN : Edit(w, t, b)
      PROVE  StopInv'
  BY <1>4, EditKeepsManagers, ManagerIsOne DEF StopInv, Orphan
<1>5. CASE UNCHANGED vars
  BY <1>5 DEF vars, StopInv, Orphan
<1>. QED BY <1>1, <1>2, <1>3, <1>4, <1>5 DEF Next, ManagerMoves, ShowList, ShowBoard

-----------------------------------------------------------------------------
(* Marks *)

\* The edits in flight are finitely many.
LEMMA MarkedEditsFinite ==
    ASSUME NEW i, NEW t
    PROVE  IsFiniteSet(MarkedEdits(i, t)) /\ Cardinality(MarkedEdits(i, t)) \in Nat
<1>1. MarkedEdits(i, t) \subseteq Writers
  BY DEF MarkedEdits
<1>. QED BY <1>1, PollConstants, FS_Subset, FS_CardinalityType

\* There is no manager.
LEMMA MarkInvInit == Init => MarkInv
  BY DEF Init, MarkInv

\* A callback keeps a mark for every edit in flight.
LEMMA MarkInvStep == TypeInv /\ VisitInv /\ MarkInv /\ [Next]_vars => MarkInv'
<1>. SUFFICES ASSUME TypeInv, VisitInv, MarkInv, [Next]_vars, ~strays', manager' # NoManager,
                     NEW t \in Tasks
              PROVE  Cardinality(MarkedEdits(manager, t)') <= mgrs'[manager'].dirty[t]
  BY DEF MarkInv
<1>. DEFINE Goal == Cardinality(MarkedEdits(manager, t)') <= mgrs'[manager'].dirty[t]
<1>0. mgrs \in [Managers -> Manager] /\ \A i \in Managers : mgrs[i].dirty \in [Tasks -> Nat]
  BY DEF TypeInv, Manager
<1>1. CASE ManagerMoves
  <2>1. manager' = manager /\ writes' = writes /\ strays' = strays
        /\ mgrs'[manager].dirty = mgrs[manager].dirty
    BY <1>1, ManagerMovesKeep, ManagerIsOne
  <2>2. MarkedEdits(manager, t)' = MarkedEdits(manager, t)
    BY <2>1 DEF MarkedEdits, InFlight
  <2>. QED BY <2>1, <2>2 DEF MarkInv
<1>2. ~ShowList /\ \A c \in Collections : ~ShowBoard(c)
  BY DEF ShowList, ShowBoard
<1>3. CASE switchToPolling
  <2>1. collection \in Collections /\ manager' = visits /\ manager = NoManager /\ writes' = writes
        /\ collection # NoCollection
    BY <1>3, PollConstants DEF switchToPolling, TypeInv
  <2>2. MarkedEdits(manager, t)' = {}
    <3>1. \A w \in Writers : InFlight(w) => writes[w].under < visits
      BY <2>1 DEF VisitInv
    <3>2. visits \in Nat
      BY DEF TypeInv
    <3>. QED BY <2>1, <3>1, <3>2 DEF MarkedEdits, InFlight
  <2>3. visits \in Managers
    BY <2>1, PollConstants DEF TypeInv, Managers, VisitInv
  <2>4. mgrs'[visits].dirty = Empty
    BY <1>0, <1>3, <2>1, <2>3, NewManagerType DEF switchToPolling
  <2>5. mgrs'[manager'].dirty[t] = 0
    BY <2>1, <2>4 DEF Empty
  <2>. QED BY <2>2, <2>5, FS_EmptySet
<1>4. ASSUME NEW w \in Writers, UpdateTask(w) PROVE Goal
  <2>1. UNCHANGED <<manager, mgrs, strays>>
    BY <1>4 DEF UpdateTask
  <2>2. \A x \in Writers : (InFlight(x)' <=> InFlight(x)) /\ writes'[x].under = writes[x].under
          /\ writes'[x].task = writes[x].task /\ writes'[x].marked = writes[x].marked
    <3>1. writes[w] \in Write /\ InFlight(w)
      BY <1>4, InFlightType DEF UpdateTask
    <3>2. \E p \in {"committed", "rejected"} : writes' = [writes EXCEPT ![w].phase = p]
      BY <1>4 DEF UpdateTask
    <3>. QED BY <3>1, <3>2 DEF TypeInv, InFlight, Write
  <2>3. MarkedEdits(manager, t)' = MarkedEdits(manager, t)
    BY <2>1, <2>2 DEF MarkedEdits
  <2>. QED BY <2>1, <2>3 DEF MarkInv
<1>5. ASSUME NEW w \in Writers, EditReturns(w) PROVE Goal
  <2>. DEFINE e == writes[w]
  <2>1. e \in Write /\ InFlight(w)
    BY <1>5, InFlightType DEF EditReturns
  <2>2. manager' = manager /\ ~strays /\ e.under = manager /\ manager \in Managers
    BY <1>5, ManagerIsOne DEF EditReturns
  <2>3. ~InFlight(w)' /\ \A x \in Writers \ {w} : writes'[x] = writes[x]
    BY <1>5 DEF EditReturns, TypeInv, InFlight
  <2>4. MarkedEdits(manager, t)' = MarkedEdits(manager, t) \ {w}
    BY <2>2, <2>3 DEF MarkedEdits, InFlight
  <2>5. Cardinality(MarkedEdits(manager, t)) <= mgrs[manager].dirty[t]
    BY <2>2 DEF MarkInv
  <2>6. Cardinality(MarkedEdits(manager, t) \ {w}) =
          IF w \in MarkedEdits(manager, t) THEN Cardinality(MarkedEdits(manager, t)) - 1
          ELSE Cardinality(MarkedEdits(manager, t))
    BY MarkedEditsFinite, FS_RemoveElement
  <2>7. w \in MarkedEdits(manager, t) <=> e.marked /\ e.task = t
    BY <2>1, <2>2 DEF MarkedEdits
  <2>8. mgrs[manager].dirty[t] \in Nat /\ Cardinality(MarkedEdits(manager, t)) \in Nat
    BY <1>0, <2>2, MarkedEditsFinite
  <2>9. CASE e.marked /\ e.task = t
    <3>1. mgrs' = [mgrs EXCEPT ![manager].dirty[t] = IF @ > 0 THEN @ - 1 ELSE 0]
      BY <1>5, <2>2, <2>9 DEF EditReturns, clearDirty
    <3>2. mgrs'[manager].dirty[t] = IF mgrs[manager].dirty[t] > 0 THEN mgrs[manager].dirty[t] - 1 ELSE 0
      BY <1>0, <2>2, <3>1 DEF Manager
    <3>. QED BY <2>2, <2>4, <2>5, <2>6, <2>7, <2>8, <2>9, <3>2
  <2>10. CASE ~(e.marked /\ e.task = t)
    <3>1. \/ mgrs' = mgrs
          \/ mgrs' = [mgrs EXCEPT ![manager].dirty[e.task] = IF @ > 0 THEN @ - 1 ELSE 0]
             /\ e.task # t
      BY <1>5, <2>2, <2>10 DEF EditReturns, clearDirty
    <3>2. mgrs'[manager].dirty[t] = mgrs[manager].dirty[t]
      BY <1>0, <2>2, <3>1 DEF Manager
    <3>. QED BY <2>2, <2>4, <2>5, <2>6, <2>7, <2>10, <3>2
  <2>. QED BY <2>9, <2>10
<1>6. ASSUME NEW w \in Writers, NEW u \in Tasks, NEW b \in BOOLEAN, Edit(w, u, b) PROVE Goal
  <2>1. manager' = manager /\ ~strays /\ manager \in Managers /\ ~InFlight(w)
    BY <1>6, ManagerIsOne DEF Edit
  <2>2. /\ InFlight(w)' /\ writes'[w].task = u /\ writes'[w].marked = b /\ writes'[w].under = manager
        /\ \A x \in Writers \ {w} : writes'[x] = writes[x]
    BY <1>6 DEF Edit, TypeInv, InFlight
  <2>3. Cardinality(MarkedEdits(manager, t)) <= mgrs[manager].dirty[t]
    BY <2>1 DEF MarkInv
  <2>4. mgrs[manager].dirty[t] \in Nat /\ Cardinality(MarkedEdits(manager, t)) \in Nat
    BY <1>0, <2>1, MarkedEditsFinite
  <2>5. CASE b /\ u = t
    <3>1. MarkedEdits(manager, t)' = MarkedEdits(manager, t) \cup {w}
      BY <2>1, <2>2, <2>5 DEF MarkedEdits, InFlight
    <3>2. w \notin MarkedEdits(manager, t)
      BY <2>1 DEF MarkedEdits
    <3>3. Cardinality(MarkedEdits(manager, t) \cup {w}) = Cardinality(MarkedEdits(manager, t)) + 1
      BY <3>2, MarkedEditsFinite, FS_AddElement
    <3>4. mgrs' = [mgrs EXCEPT ![manager].dirty[t] = @ + 1]
      BY <1>6, <2>5 DEF Edit
    <3>5. mgrs'[manager].dirty[t] = mgrs[manager].dirty[t] + 1
      BY <1>0, <2>1, <3>4 DEF Manager
    <3>. QED BY <2>1, <2>3, <2>4, <3>1, <3>3, <3>5
  <2>6. CASE ~(b /\ u = t)
    <3>1. MarkedEdits(manager, t)' = MarkedEdits(manager, t)
      BY <2>1, <2>2, <2>6 DEF MarkedEdits, InFlight
    <3>2. mgrs' = mgrs \/ (mgrs' = [mgrs EXCEPT ![manager].dirty[u] = @ + 1] /\ u # t)
      BY <1>6, <2>6 DEF Edit
    <3>3. mgrs'[manager].dirty[t] = mgrs[manager].dirty[t]
      BY <1>0, <2>1, <3>2 DEF Manager
    <3>. QED BY <2>1, <2>3, <3>1, <3>3
  <2>. QED BY <2>5, <2>6
<1>7. CASE UNCHANGED vars
  <2>1. UNCHANGED <<manager, mgrs, writes, strays>>
    BY <1>7 DEF vars
  <2>2. MarkedEdits(manager, t)' = MarkedEdits(manager, t)
    BY <2>1 DEF MarkedEdits, InFlight
  <2>. QED BY <2>1, <2>2 DEF MarkInv
<1>. QED BY <1>1, <1>2, <1>3, <1>4, <1>5, <1>6, <1>7 DEF Next, ManagerMoves

-----------------------------------------------------------------------------
(* Theorems *)

PollInv == TypeInv /\ VisitInv /\ StopInv /\ MarkInv

\* The invariants above hold of every behaviour.
LEMMA PollInvariant == Spec => []PollInv
<1>1. Init => PollInv
  BY TypeInvInit, VisitInvInit, StopInvInit, MarkInvInit DEF PollInv
<1>2. PollInv /\ [Next]_vars => PollInv'
  BY TypeInvStep, VisitInvStep, StopInvStep, MarkInvStep DEF PollInv
<1>. QED BY <1>1, <1>2, PTL DEF Spec

\* Only the return of a manager's own refresh ends its call.
LEMMA MergingIsRefresh ==
    ASSUME TypeInv, [Next]_vars, NEW i \in Managers, Merging(i)
    PROVE  RefreshEnds(i)
<1>. SUFFICES ASSUME ~RefreshEnds(i) PROVE mgrs'[i].call # "none" \/ mgrs'[i].call = mgrs[i].call
  BY DEF Merging
<1>0. mgrs \in [Managers -> Manager] /\ \A k \in Managers : Refreshing(mgrs[k]).call = "sent"
  BY ManagerType DEF TypeInv
<1>1. ASSUME NEW k \in Managers, TimerFires(k) \/ ListTasks(k)
      PROVE  mgrs'[i].call # "none" \/ mgrs'[i].call = mgrs[i].call
  <2>1. CASE TimerFires(k)
    BY <1>0, <2>1 DEF TimerFires
  <2>2. CASE ListTasks(k)
    <3>. DEFINE a == [t \in Tasks |-> IF CollectionOf[t] = mgrs[k].coll THEN remote[t] ELSE 0]
    <3>1. \/ mgrs' = [mgrs EXCEPT ![k] = [mgrs[k] EXCEPT !.call = "answered", !.answer = a]]
          \/ mgrs' = [mgrs EXCEPT ![k] = [mgrs[k] EXCEPT !.call = "failed"]]
      BY <2>2 DEF ListTasks
    <3>. HIDE DEF a
    <3>2. /\ [mgrs[k] EXCEPT !.call = "answered", !.answer = a].call # "none"
          /\ [mgrs[k] EXCEPT !.call = "failed"].call # "none"
      BY <1>0 DEF Manager
    <3>3. PICK m : mgrs' = [mgrs EXCEPT ![k] = m] /\ m.call # "none"
      BY <3>1, <3>2
    <3>. QED BY <1>0, <3>3
  <2>. QED BY <1>1, <2>1, <2>2
<1>2. ASSUME NEW k \in Managers, RefreshEnds(k) PROVE mgrs'[i].call = mgrs[i].call
  BY <1>2, RefreshEndsType
<1>3. CASE onManualRefresh
  BY <1>0, <1>3, ManagerIsOne DEF onManualRefresh
<1>4. ASSUME mgrs' = stopPolling PROVE mgrs'[i].call = mgrs[i].call
  BY <1>0, <1>4, StopPollingType, ManagerType
<1>5. CASE switchToPolling
  <2>1. PICK m : mgrs' = [mgrs EXCEPT ![visits] = m] /\ m.call = "sent"
    BY <1>5, NewManagerType DEF switchToPolling, TypeInv
  <2>. QED BY <1>0, <2>1
<1>6. ASSUME NEW w \in Writers,
             EditReturns(w) \/ UpdateTask(w) \/ \E t \in Tasks, b \in BOOLEAN : Edit(w, t, b)
      PROVE  mgrs'[i].call = mgrs[i].call
  BY <1>6, EditKeepsManagers
<1>7. UNCHANGED vars \/ (\E t \in Tasks : RemoteChange(t)) => mgrs' = mgrs
  BY DEF vars, RemoteChange
<1>. QED BY <1>1, <1>2, <1>3, <1>4, <1>5, <1>6, <1>7 DEF Next, ShowList, ShowBoard

\* A fetch never overwrites or sweeps a task with a marked edit in flight under
\* the page's manager, however many edits of the task overlap and in whatever
\* order they return: _merge passes over a task whose count of marks is not 0.
THEOREM MarkedEditsStay == Spec => MarkedEditStays
<1>1. PollInv /\ [Next]_vars
      => [\A i \in Managers, w \in Writers :
            /\ Merging(i) /\ i = manager /\ ~strays
            /\ InFlight(w) /\ writes[w].marked /\ writes[w].under = i
            => board'[writes[w].task] = board[writes[w].task]]_vars
  <2>. SUFFICES ASSUME TypeInv, MarkInv, [Next]_vars, NEW i \in Managers, NEW w \in Writers,
                       Merging(i), i = manager, ~strays,
                       InFlight(w), writes[w].marked, writes[w].under = i
                PROVE  board'[writes[w].task] = board[writes[w].task]
    BY DEF PollInv
  <2>. DEFINE t == writes[w].task
  <2>1. t \in Tasks /\ w \in MarkedEdits(i, t)
    BY InFlightType DEF Write, MarkedEdits
  <2>2. Cardinality(MarkedEdits(i, t)) <= mgrs[i].dirty[t]
    BY <2>1 DEF MarkInv, Managers, NoManager
  <2>3. mgrs[i].dirty[t] \in Nat
    BY <2>1 DEF TypeInv, Manager
  <2>4. Cardinality(MarkedEdits(i, t)) \in Nat /\ Cardinality(MarkedEdits(i, t)) # 0
    BY <2>1, MarkedEditsFinite, FS_EmptySet
  <2>5. mgrs[i].dirty[t] > 0
    BY <2>2, <2>3, <2>4
  <2>6. board' = board \/ board' = Merged(mgrs[i])
    BY MergingIsRefresh DEF RefreshEnds
  <2>. QED BY <2>1, <2>5, <2>6 DEF Merged
<1>. QED BY <1>1, PollInvariant, PTL DEF Spec, MarkedEditStays

\* The answer that a stopped manager still waited for changes nothing: stop()
\* moves the token on, and nothing fetches for that manager again unless its
\* start() was still waiting when it was stopped.
THEOREM LateAnswerIsIgnored == Spec => LateAnswerIgnored
<1>1. PollInv /\ [Next]_vars
      => [\A i \in Managers : Merging(i) /\ mgrs[i].stopped /\ ~Orphan(i)
            => UNCHANGED <<board, loading>>]_vars
  <2>. SUFFICES ASSUME TypeInv, StopInv, [Next]_vars, NEW i \in Managers,
                       Merging(i), mgrs[i].stopped, ~Orphan(i)
                PROVE  UNCHANGED <<board, loading>>
    BY DEF PollInv
  <2>. QED BY MergingIsRefresh DEF StopInv, RefreshEnds
<1>. QED BY <1>1, PollInvariant, PTL DEF Spec, LateAnswerIgnored
=============================================================================
