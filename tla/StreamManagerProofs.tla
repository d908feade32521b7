------------------------- MODULE StreamManagerProofs -------------------------
(***************************************************************************)
(* Proofs about StreamManager: its types, that a board none of whose       *)
(* heartbeats was late has one source and is left alone once the user has  *)
(* gone, and that a loaded board shows what the server has.                *)
(***************************************************************************)
EXTENDS StreamManager, SequenceTheorems, FiniteSetTheorems, TLAPS

Changes == [task : Tasks, version : Nat]

\* The types of the variables, which no run checks as a property of its own.
TypeInv ==
    /\ server \in [Tasks -> Nat] /\ board \in [Tasks -> Nat]
    /\ loading \in BOOLEAN /\ left \in BOOLEAN
    /\ status \in {"disconnected", "syncing", "live", "reconnecting"}
    /\ heartbeat \in BOOLEAN /\ reconnect \in BOOLEAN
    /\ sequence \in Nat
    /\ current \in Streams \cup {NoStream}
    /\ phase \in [Streams -> {"free", "snapshot", "live"}]
    /\ pending \in [Streams -> SUBSET Tasks]
    /\ queue \in [Streams -> Seq(Changes)]
    /\ seen \in [Streams -> Nat]
    /\ beats \in Nat /\ drops \in Nat /\ timeouts \in Nat

\* A stream whose snapshot is through has sent all of it, and a closed one has
\* nothing left that could arrive.
StreamInv ==
    \A s \in Streams :
        /\ phase[s] = "live" => pending[s] = {}
        /\ phase[s] = "free" => pending[s] = {} /\ queue[s] = <<>> /\ seen[s] = 0

\* What OneSource and StoppedIsQuiet rest on: while no heartbeat was late, the
\* only stream that can be open is the current one, the reconnect timer runs
\* only when it is closed, and leaving the board stops both.
SourceInv ==
    timeouts = 0 => /\ Open \subseteq {current}
                    /\ reconnect => Open = {}
                    /\ left => Open = {} /\ ~reconnect /\ ~heartbeat

\* The changes of task t on their way to stream s.
OnTheWay(s, t) == {i \in DOMAIN queue[s] : queue[s][i].task = t}

\* The last change of t that stream s has still to bring is the last one the
\* server made.
LastIsLatest(s, t) ==
    \A i \in OnTheWay(s, t) :
        (\A j \in OnTheWay(s, t) : j <= i) => queue[s][i].version = server[t]

\* Stream s will bring t up to date, or has done so: what it has not begun to
\* deliver finds an empty board, where a task without a version is up to date.
Covered(s, t) ==
    \/ OnTheWay(s, t) # {}
    \/ t \in pending[s]
    \/ IF seen[s] = 0 THEN server[t] = 0 ELSE board[t] = server[t]

\* The only stream is the one that feeds the board: closing a stream always
\* starts the reconnect timer, so nothing was closed since this one was opened.
Sole(s) == Open = {s} /\ ~reconnect /\ ~left

\* What LoadedBoardIsCurrent rests on; the board without a last event is empty.
LoadInv ==
    /\ sequence = 0 => \A t \in Tasks : board[t] = 0
    /\ \A s \in Streams : Sole(s) => \A t \in Tasks : LastIsLatest(s, t) /\ Covered(s, t)

-----------------------------------------------------------------------------
(* Types *)

\* Closing a stream keeps the types of the streams.
LEMMA FreeType ==
    ASSUME TypeInv, NEW s \in Streams, Free(s)
    PROVE  /\ phase' \in [Streams -> {"free", "snapshot", "live"}]
           /\ pending' \in [Streams -> SUBSET Tasks]
           /\ queue' \in [Streams -> Seq(Changes)]
           /\ seen' \in [Streams -> Nat]
<1>1. <<>> \in Seq(Changes)
  OBVIOUS
<1>. QED BY <1>1 DEF TypeInv, Free

\* The head of a queue is a change, and its tail is a queue.
LEMMA QueueType ==
    ASSUME TypeInv, NEW s \in Streams, queue[s] # <<>>
    PROVE  /\ Head(queue[s]) \in Changes
           /\ Tail(queue[s]) \in Seq(Changes)
<1>1. queue[s] \in Seq(Changes)
  BY DEF TypeInv
<1>. QED BY <1>1, HeadTailProperties

\* An event that is applied keeps the types, whatever it brings.
LEMMA AppliedType ==
    ASSUME TypeInv, NEW s \in Streams, Applied(s)
    PROVE  /\ heartbeat' \in BOOLEAN /\ reconnect' \in BOOLEAN
           /\ sequence' \in Nat /\ seen' \in [Streams -> Nat]
           /\ current' \in Streams \cup {NoStream}
  BY DEF TypeInv, Applied

\* A gap keeps the types.
LEMMA GapType ==
    ASSUME TypeInv, NEW s \in Streams, Gap(s),
           UNCHANGED <<server, left, drops, timeouts>>, beats' \in Nat
    PROVE  TypeInv'
<1>1. /\ phase' \in [Streams -> {"free", "snapshot", "live"}]
      /\ pending' \in [Streams -> SUBSET Tasks]
      /\ queue' \in [Streams -> Seq(Changes)]
      /\ seen' \in [Streams -> Nat]
  BY FreeType DEF Gap
<1>2. /\ board' \in [Tasks -> Nat] /\ loading' \in BOOLEAN
      /\ status' \in {"disconnected", "syncing", "live", "reconnecting"}
      /\ heartbeat' \in BOOLEAN /\ reconnect' \in BOOLEAN
      /\ sequence' \in Nat /\ current' \in Streams \cup {NoStream}
  BY DEF TypeInv, Gap, resync, Clear, scheduleReconnect
<1>. QED BY <1>1, <1>2 DEF TypeInv

\* Stopping the manager keeps the types.
LEMMA StopType ==
    ASSUME TypeInv, stop
    PROVE  /\ status' \in {"disconnected", "syncing", "live", "reconnecting"}
           /\ heartbeat' \in BOOLEAN /\ reconnect' \in BOOLEAN
           /\ current' \in Streams \cup {NoStream}
           /\ phase' \in [Streams -> {"free", "snapshot", "live"}]
           /\ pending' \in [Streams -> SUBSET Tasks]
           /\ queue' \in [Streams -> Seq(Changes)]
           /\ seen' \in [Streams -> Nat]
<1>1. CASE current # NoStream
  <2>1. current \in Streams /\ Free(current)
    BY <1>1 DEF TypeInv, stop
  <2>. QED BY <2>1, FreeType DEF stop
<1>2. CASE current = NoStream
  BY <1>2 DEF TypeInv, stop, streamVars
<1>. QED BY <1>1, <1>2

\* The manager starts with well-typed variables.
LEMMA TypeInvInit == Init => TypeInv
<1>. SUFFICES ASSUME Init PROVE TypeInv
  OBVIOUS
<1>1. <<>> \in Seq(Changes)
  OBVIOUS
<1>2. server \in [Tasks -> Nat]
  BY DEF Init
<1>3. /\ queue \in [Streams -> Seq(Changes)] /\ pending \in [Streams -> SUBSET Tasks]
      /\ board \in [Tasks -> Nat] /\ seen \in [Streams -> Nat]
      /\ phase \in [Streams -> {"free", "snapshot", "live"}]
  BY <1>1 DEF Init
<1>. QED BY <1>2, <1>3 DEF Init, TypeInv

\* Every callback keeps the types.
LEMMA TypeInvStep == TypeInv /\ [Next]_vars => TypeInv'
<1>. SUFFICES ASSUME TypeInv, [Next]_vars PROVE TypeInv'
  OBVIOUS
<1>1. ASSUME NEW t \in Tasks, Change(t) PROVE TypeInv'
  <2>1. server' \in [Tasks -> Nat]
    BY <1>1 DEF TypeInv, Change
  <2>2. [task |-> t, version |-> server'[t]] \in Changes
    BY <2>1 DEF Changes
  <2>3. ASSUME NEW s \in Streams
        PROVE  Append(queue[s], [task |-> t, version |-> server'[t]]) \in Seq(Changes)
    BY <2>2, AppendProperties DEF TypeInv
  <2>4. queue' \in [Streams -> Seq(Changes)]
    BY <1>1, <2>3 DEF TypeInv, Change
  <2>. QED BY <1>1, <2>1, <2>4 DEF TypeInv, Change, clientVars, countVars
<1>2. ASSUME NEW s \in Streams, Connect(s) PROVE TypeInv'
  <2>1. /\ phase' \in [Streams -> {"free", "snapshot", "live"}]
        /\ pending' \in [Streams -> SUBSET Tasks]
    BY <1>2 DEF TypeInv, Connect
  <2>. QED BY <1>2, <2>1 DEF TypeInv, Connect, countVars
<1>3. ASSUME NEW s \in Streams, Receive(s) PROVE TypeInv'
  <2>1. CASE ReceiveInitial(s)
    <3>1. PICK t \in pending[s] : ReceiveInitial(s)!(t)
      BY <2>1 DEF ReceiveInitial
    <3>2. t \in Tasks
      BY <3>1 DEF TypeInv
    <3>3. board' \in [Tasks -> Nat] /\ pending' \in [Streams -> SUBSET Tasks]
      BY <3>1, <3>2 DEF TypeInv
    <3>. QED BY <1>3, <3>1, <3>3, AppliedType DEF TypeInv, Receive, countVars
  <2>2. CASE ReceiveSnapshotComplete(s)
    <3>1. phase' \in [Streams -> {"free", "snapshot", "live"}]
      BY <2>2 DEF TypeInv, ReceiveSnapshotComplete
    <3>. QED BY <1>3, <2>2, <3>1, AppliedType DEF TypeInv, Receive, ReceiveSnapshotComplete, countVars
  <2>3. CASE ReceiveChange(s)
    <3>1. Head(queue[s]) \in Changes /\ Tail(queue[s]) \in Seq(Changes)
      BY <2>3, QueueType DEF ReceiveChange
    <3>2. Head(queue[s]).version \in Nat
      BY <3>1 DEF Changes
    <3>3. board' \in [Tasks -> Nat]
      BY <2>3, <3>2 DEF TypeInv, ReceiveChange
    <3>4. queue' \in [Streams -> Seq(Changes)]
      BY <2>3, <3>1 DEF TypeInv, ReceiveChange
    <3>. QED BY <1>3, <2>3, <3>3, <3>4, AppliedType DEF TypeInv, Receive, ReceiveChange, countVars
  <2>4. CASE Gap(s)
    BY <1>3, <2>4, GapType DEF Receive, countVars, TypeInv
  <2>. QED BY <1>3, <2>1, <2>2, <2>3, <2>4 DEF Receive
<1>4. ASSUME NEW s \in Streams, ReceiveHeartbeat(s) PROVE TypeInv'
  <2>1. beats' \in Nat /\ UNCHANGED <<server, left, drops, timeouts>>
    BY <1>4 DEF ReceiveHeartbeat, TypeInv
  <2>2. CASE Applied(s) /\ UNCHANGED <<board, loading, status, phase, pending, queue>>
    BY <2>1, <2>2, AppliedType DEF TypeInv
  <2>3. CASE Gap(s)
    BY <2>1, <2>3, GapType
  <2>. QED BY <1>4, <2>2, <2>3 DEF ReceiveHeartbeat
<1>5. ASSUME NEW s \in Streams, StreamEnds(s) PROVE TypeInv'
  BY <1>5, FreeType DEF TypeInv, StreamEnds, scheduleReconnect
<1>6. ASSUME NEW s \in Streams, WatchUnsupported(s) PROVE TypeInv'
  BY <1>6, StopType DEF TypeInv, WatchUnsupported, countVars
<1>7. CASE HeartbeatTimeout
  <2>1. board' \in [Tasks -> Nat] /\ timeouts' \in Nat
    BY <1>7 DEF TypeInv, HeartbeatTimeout, resync, Clear
  <2>2. UNCHANGED <<phase, pending, queue, seen>>
    BY <1>7 DEF HeartbeatTimeout, streamVars
  <2>. QED BY <1>7, <2>1, <2>2 DEF TypeInv, HeartbeatTimeout, resync, Clear, scheduleReconnect
<1>8. CASE Leave
  BY <1>8, StopType DEF TypeInv, Leave, Clear, countVars
<1>9. CASE UNCHANGED vars
  BY <1>9 DEF TypeInv, vars, streamVars, clientVars, countVars
<1>. QED BY <1>1, <1>2, <1>3, <1>4, <1>5, <1>6, <1>7, <1>8, <1>9 DEF Next

-----------------------------------------------------------------------------
(* Streams *)

\* Closing a stream takes it from the open ones and leaves nothing behind.
LEMMA FreeCloses ==
    ASSUME TypeInv, NEW s \in Streams, Free(s)
    PROVE  Open' = Open \ {s} /\ (StreamInv => StreamInv')
  BY DEF TypeInv, Free, Open, StreamInv

\* Stopping the manager closes the current stream and starts no timer.
LEMMA StopCloses ==
    ASSUME TypeInv, stop
    PROVE  /\ Open' = Open \ {current} /\ ~reconnect' /\ ~heartbeat'
           /\ StreamInv => StreamInv'
<1>1. CASE current # NoStream
  <2>1. current \in Streams /\ Free(current)
    BY <1>1 DEF TypeInv, stop
  <2>. QED BY <2>1, FreeCloses DEF stop
<1>2. CASE current = NoStream
  <2>1. UNCHANGED <<phase, pending, queue, seen>> /\ NoStream \notin Open
    BY <1>2, StreamConstants DEF stop, streamVars, Open
  <2>. QED BY <1>2, <2>1 DEF stop, Open, StreamInv
<1>. QED BY <1>1, <1>2

\* Only an open stream brings an event.
LEMMA EventIsOfOpen ==
    ASSUME TypeInv, StreamInv, NEW s \in Streams, Receive(s) \/ ReceiveHeartbeat(s)
    PROVE  s \in Open
<1>. SUFFICES ASSUME phase[s] = "free" PROVE FALSE
  BY DEF Open
<1>1. pending[s] = {} /\ queue[s] = <<>>
  BY DEF StreamInv
<1>. QED BY <1>1 DEF Receive, ReceiveHeartbeat, ReceiveInitial, ReceiveSnapshotComplete,
              ReceiveChange, Undelivered

\* An event that is applied leaves the set of open streams as it is.
LEMMA EventKeepsStreams ==
    ASSUME TypeInv, StreamInv, NEW s \in Streams,
           Receive(s) \/ ReceiveHeartbeat(s), ~Gap(s)
    PROVE  Open' = Open /\ StreamInv'
<1>1. CASE ReceiveInitial(s)
  BY <1>1 DEF ReceiveInitial, Applied, TypeInv, Open, StreamInv
<1>2. CASE ReceiveSnapshotComplete(s)
  BY <1>2 DEF ReceiveSnapshotComplete, Applied, TypeInv, Open, StreamInv
<1>3. CASE ReceiveChange(s)
  BY <1>3 DEF ReceiveChange, Applied, TypeInv, Open, StreamInv
<1>4. CASE ReceiveHeartbeat(s)
  BY <1>4 DEF ReceiveHeartbeat, Applied, TypeInv, Open, StreamInv
<1>. QED BY <1>1, <1>2, <1>3, <1>4 DEF Receive

\* An event either starts no timer but its heartbeat, or closes its stream and
\* starts the reconnect timer.
LEMMA EventSource ==
    ASSUME TypeInv, StreamInv, NEW s \in Streams, Receive(s) \/ ReceiveHeartbeat(s)
    PROVE  /\ UNCHANGED <<current, left, timeouts>> /\ StreamInv'
           /\ \/ Open' = Open /\ UNCHANGED reconnect
              \/ Open' = Open \ {s} /\ reconnect'
<1>1. CASE Gap(s)
  BY <1>1, FreeCloses DEF Gap, resync, scheduleReconnect, Receive, ReceiveHeartbeat, countVars
<1>2. CASE ~Gap(s)
  <2>1. UNCHANGED <<current, left, timeouts, reconnect>>
    BY <1>2 DEF Receive, ReceiveHeartbeat, ReceiveInitial, ReceiveSnapshotComplete,
                ReceiveChange, Applied, countVars
  <2>. QED BY <1>2, <2>1, EventKeepsStreams
<1>. QED BY <1>1, <1>2

\* No stream is open at first.
LEMMA StreamInvInit == Init => StreamInv
  BY DEF Init, StreamInv

\* No callback leaves something behind in a closed stream.
LEMMA StreamInvStep == TypeInv /\ StreamInv /\ [Next]_vars => StreamInv'
<1>. SUFFICES ASSUME TypeInv, StreamInv, [Next]_vars PROVE StreamInv'
  OBVIOUS
<1>1. ASSUME NEW t \in Tasks, Change(t) PROVE StreamInv'
  BY <1>1 DEF TypeInv, Change, StreamInv
<1>2. ASSUME NEW s \in Streams, Connect(s) PROVE StreamInv'
  BY <1>2 DEF TypeInv, Connect, StreamInv
<1>3. ASSUME NEW s \in Streams, Receive(s) \/ ReceiveHeartbeat(s) PROVE StreamInv'
  BY <1>3, EventSource
<1>4. ASSUME NEW s \in Streams, StreamEnds(s) PROVE StreamInv'
  BY <1>4, FreeCloses DEF StreamEnds
<1>5. ASSUME NEW s \in Streams, WatchUnsupported(s) PROVE StreamInv'
  BY <1>5, StopCloses DEF WatchUnsupported
<1>6. CASE HeartbeatTimeout
  BY <1>6 DEF HeartbeatTimeout, streamVars, StreamInv
<1>7. CASE Leave
  BY <1>7, StopCloses DEF Leave
<1>8. CASE UNCHANGED vars
  BY <1>8 DEF vars, streamVars, StreamInv
<1>. QED BY <1>1, <1>2, <1>3, <1>4, <1>5, <1>6, <1>7, <1>8 DEF Next

-----------------------------------------------------------------------------
(* One source *)

\* The manager starts with the reconnect timer and nothing else.
LEMMA SourceInvInit == Init => SourceInv
  BY DEF Init, SourceInv, Open

\* No callback opens a second source while no heartbeat was late.
LEMMA SourceInvStep == TypeInv /\ StreamInv /\ SourceInv /\ [Next]_vars => SourceInv'
<1>. SUFFICES ASSUME TypeInv, StreamInv, SourceInv, [Next]_vars, timeouts' = 0
              PROVE  /\ Open' \subseteq {current'}
                     /\ reconnect' => Open' = {}
                     /\ left' => Open' = {} /\ ~reconnect' /\ ~heartbeat'
  BY DEF SourceInv
<1>. DEFINE Goal == /\ Open' \subseteq {current'}
                    /\ reconnect' => Open' = {}
                    /\ left' => Open' = {} /\ ~reconnect' /\ ~heartbeat'
<1>1. ASSUME NEW t \in Tasks, Change(t) PROVE Goal
  BY <1>1 DEF Change, SourceInv, Open, clientVars, countVars
<1>2. ASSUME NEW s \in Streams, Connect(s) PROVE Goal
  <2>1. reconnect /\ timeouts = 0 /\ Open = {}
    BY <1>2 DEF Connect, SourceInv, countVars
  <2>2. Open' \subseteq {s}
    BY <1>2, <2>1 DEF Connect, Open, TypeInv
  <2>. QED BY <1>2, <2>1, <2>2 DEF Connect, SourceInv
<1>3. ASSUME NEW s \in Streams, Receive(s) \/ ReceiveHeartbeat(s) PROVE Goal
  <2>1. timeouts = 0 /\ s \in Open
    BY <1>3, EventSource, EventIsOfOpen
  <2>2. Open = {s} /\ ~left
    BY <2>1 DEF SourceInv
  <2>. QED BY <1>3, <2>1, <2>2, EventSource DEF SourceInv
<1>4. ASSUME NEW s \in Streams, StreamEnds(s) PROVE Goal
  <2>1. timeouts = 0 /\ s \in Open
    BY <1>4 DEF StreamEnds, Open
  <2>2. Open = {s} /\ ~left
    BY <2>1 DEF SourceInv
  <2>3. Open' = {}
    BY <1>4, <2>2, FreeCloses DEF StreamEnds
  <2>. QED BY <1>4, <2>2, <2>3 DEF StreamEnds
<1>5. ASSUME NEW s \in Streams, WatchUnsupported(s) PROVE Goal
  <2>1. Open = {current}
    BY <1>5 DEF WatchUnsupported
  <2>. QED BY <1>5, <2>1, StopCloses DEF WatchUnsupported
<1>6. CASE HeartbeatTimeout
  BY <1>6 DEF HeartbeatTimeout, TypeInv
<1>7. CASE Leave
  <2>1. timeouts = 0 /\ Open \subseteq {current}
    BY <1>7 DEF Leave, countVars, SourceInv
  <2>2. stop
    BY <1>7 DEF Leave
  <2>3. Open' = {} /\ ~reconnect' /\ ~heartbeat'
    BY <2>1, <2>2, StopCloses
  <2>. QED BY <2>3
<1>8. CASE UNCHANGED vars
  BY <1>8 DEF vars, clientVars, streamVars, countVars, SourceInv, Open
<1>. QED BY <1>1, <1>2, <1>3, <1>4, <1>5, <1>6, <1>7, <1>8 DEF Next

\* The three invariants above, which the proofs below start from.
Base == TypeInv /\ StreamInv /\ SourceInv

\* Together they are inductive.
LEMMA BaseInvariant == Spec => []Base
<1>1. Init => Base
  BY TypeInvInit, StreamInvInit, SourceInvInit DEF Base
<1>2. Base /\ [Next]_vars => Base'
  BY TypeInvStep, StreamInvStep, SourceInvStep DEF Base
<1>. QED BY <1>1, <1>2, PTL DEF Spec

\* While no heartbeat of the server was late, the board has at most one source:
\* one open stream, or the timer that will open one, and never both.
THEOREM BoardHasOneSource == Spec => []OneSource
<1>1. Base => OneSource
  <2>. SUFFICES ASSUME TypeInv, SourceInv, timeouts = 0
                PROVE  Cardinality(Open) + (IF reconnect THEN 1 ELSE 0) <= 1
    BY DEF Base, OneSource
  <2>1. CASE Open = {}
    BY <2>1, FS_EmptySet DEF TypeInv
  <2>2. CASE Open # {}
    <3>1. Open = {current} /\ ~reconnect
      BY <2>2 DEF SourceInv
    <3>. QED BY <3>1, FS_Singleton
  <2>. QED BY <2>1, <2>2
<1>. QED BY <1>1, BaseInvariant, PTL

\* A manager that was stopped and none of whose heartbeats was late changes
\* neither the board, which shows another collection by then, nor a stream:
\* stop() leaves no timer and no stream whose callback could come later.
THEOREM StoppedStaysQuiet == Spec => StoppedIsQuiet
<1>1. Base /\ [Next]_vars => [left /\ timeouts = 0 => UNCHANGED <<board, loading, phase>>]_vars
  <2>. SUFFICES ASSUME TypeInv, StreamInv, SourceInv, [Next]_vars, left, timeouts = 0
                PROVE  UNCHANGED <<board, loading, phase>>
    BY DEF Base
  <2>1. Open = {} /\ ~reconnect /\ ~heartbeat
    BY DEF SourceInv
  <2>2. ASSUME NEW t \in Tasks, Change(t) PROVE UNCHANGED <<board, loading, phase>>
    BY <2>2 DEF Change, clientVars
  <2>3. ASSUME NEW s \in Streams PROVE ~(Receive(s) \/ ReceiveHeartbeat(s))
    BY <2>1, EventIsOfOpen
  <2>4. ASSUME NEW s \in Streams PROVE ~(Connect(s) \/ StreamEnds(s) \/ WatchUnsupported(s))
    BY <2>1 DEF Connect, StreamEnds, WatchUnsupported, Open
  <2>5. ~HeartbeatTimeout /\ ~Leave
    BY <2>1 DEF HeartbeatTimeout, Leave
  <2>6. UNCHANGED vars => UNCHANGED <<board, loading, phase>>
    BY DEF vars, clientVars, streamVars
  <2>. QED BY <2>2, <2>3, <2>4, <2>5, <2>6 DEF Next
<1>. QED BY <1>1, BaseInvariant, PTL DEF Spec, StoppedIsQuiet

-----------------------------------------------------------------------------
(* The loaded board *)

\* The manager starts with an empty board and no stream.
LEMMA LoadInvInit == Init => LoadInv
<1>. SUFFICES ASSUME Init PROVE LoadInv
  OBVIOUS
<1>1. Open = {}
  BY DEF Init, Open
<1>2. \A t \in Tasks : board[t] = 0
  BY DEF Init
<1>. QED BY <1>1, <1>2 DEF LoadInv, Sole

\* A stream is the only one after a callback that closes none only if it was
\* before.
LEMMA SoleBefore ==
    ASSUME NEW x, Sole(x)', Open' = Open, UNCHANGED <<reconnect, left>>
    PROVE  Sole(x)
  BY DEF Sole

\* A change joins the queue of every open stream.
LEMMA ChangeKeepsLoad ==
    ASSUME TypeInv, LoadInv, NEW c \in Tasks, Change(c),
           NEW x \in Streams, Sole(x)', NEW t \in Tasks
    PROVE  LastIsLatest(x, t)' /\ Covered(x, t)'
<1>. DEFINE e == [task |-> c, version |-> server'[c]]
            q == queue[x]
<1>1. Open' = Open /\ Sole(x)
  BY SoleBefore DEF Change, Open, clientVars
<1>2. LastIsLatest(x, t) /\ Covered(x, t)
  BY <1>1 DEF LoadInv
<1>3. queue'[x] = Append(q, e)
  BY <1>1 DEF Change, Sole, Open
<1>4. server'[c] \in Nat
  BY DEF TypeInv, Change
<1>5. e \in Changes /\ q \in Seq(Changes)
  BY <1>4 DEF Changes, TypeInv
<1>6. /\ Append(q, e) \in Seq(Changes)
      /\ Len(Append(q, e)) = Len(q) + 1
      /\ \A i \in 1 .. Len(q) : Append(q, e)[i] = q[i]
      /\ Append(q, e)[Len(q) + 1] = e
  BY <1>5, AppendProperties
<1>7. Len(q) \in Nat /\ DOMAIN q = 1 .. Len(q) /\ DOMAIN Append(q, e) = 1 .. Len(q) + 1
  BY <1>5, <1>6, LenProperties
<1>8. e.task = c /\ e.version = server'[c]
  OBVIOUS
<1>9. UNCHANGED <<pending, seen, board>> /\ (t # c => server'[t] = server[t])
  BY DEF Change, clientVars, TypeInv
<1>. HIDE DEF e, q
<1>10. CASE t = c
  <2>1. Len(q) + 1 \in OnTheWay(x, t)'
    BY <1>3, <1>6, <1>7, <1>8, <1>10 DEF OnTheWay
  <2>2. ASSUME NEW i \in OnTheWay(x, t)', \A j \in OnTheWay(x, t)' : j <= i
        PROVE  queue'[x][i].version = server'[t]
    <3>1. i \in 1 .. Len(q) + 1 /\ Len(q) + 1 <= i
      BY <2>1, <2>2, <1>3, <1>7 DEF OnTheWay
    <3>2. i = Len(q) + 1
      BY <3>1, <1>7
    <3>. QED BY <3>2, <1>3, <1>6, <1>8, <1>10
  <2>3. LastIsLatest(x, t)'
    BY <2>2 DEF LastIsLatest
  <2>. QED BY <2>1, <2>3 DEF Covered
<1>11. CASE t # c
  <2>1. OnTheWay(x, t)' = OnTheWay(x, t)
    BY <1>3, <1>6, <1>7, <1>8, <1>11 DEF OnTheWay, q
  <2>2. \A i \in OnTheWay(x, t) : queue'[x][i] = queue[x][i]
    BY <1>3, <1>6, <1>7 DEF OnTheWay, q
  <2>3. LastIsLatest(x, t)'
    BY <1>2, <2>1, <2>2, <1>9, <1>11 DEF LastIsLatest
  <2>4. Covered(x, t)'
    BY <1>2, <2>1, <1>9, <1>11 DEF Covered
  <2>. QED BY <2>3, <2>4
<1>. QED BY <1>10, <1>11

\* A stream that may be applied, and that has nothing of t to bring, finds t on
\* the board as the server has it.
LEMMA NothingMissing ==
    ASSUME TypeInv, LoadInv, NEW x \in Streams, InSequence(x), NEW t \in Tasks,
           IF seen[x] = 0 THEN server[t] = 0 ELSE board[t] = server[t]
    PROVE  board[t] = server[t]
  BY DEF InSequence, LoadInv

\* An event that is applied to the board keeps what the only stream owes it.
LEMMA EventKeepsLoad ==
    ASSUME TypeInv, StreamInv, LoadInv, NEW s \in Streams,
           Receive(s) \/ ReceiveHeartbeat(s), ~Gap(s),
           NEW x \in Streams, Sole(x)', NEW t \in Tasks
    PROVE  LastIsLatest(x, t)' /\ Covered(x, t)'
<1>1. Open' = Open /\ s \in Open
  BY EventKeepsStreams, EventIsOfOpen
<1>2. Applied(s) /\ UNCHANGED <<server, left>>
  BY DEF Receive, ReceiveHeartbeat, ReceiveInitial, ReceiveSnapshotComplete, ReceiveChange
<1>3. Sole(x)
  BY <1>1, <1>2, SoleBefore DEF Applied
<1>4. s = x
  BY <1>1, <1>3 DEF Sole
<1>5. LastIsLatest(x, t) /\ Covered(x, t)
  BY <1>3 DEF LoadInv
<1>6. InSequence(x) /\ seen'[x] = seen[x] + 1 /\ seen'[x] # 0
  BY <1>2, <1>4 DEF Applied, TypeInv
<1>7. \/ OnTheWay(x, t) # {}
      \/ t \in pending[x]
      \/ board[t] = server[t]
  BY <1>5, <1>6, NothingMissing DEF Covered
<1>8. ASSUME queue' = queue
      PROVE  OnTheWay(x, t)' = OnTheWay(x, t) /\ LastIsLatest(x, t)'
  <2>1. OnTheWay(x, t)' = OnTheWay(x, t)
    BY <1>8 DEF OnTheWay
  <2>. QED BY <1>2, <1>5, <1>8, <2>1 DEF LastIsLatest
<1>9. CASE ReceiveInitial(s)
  <2>1. PICK u \in pending[s] : ReceiveInitial(s)!(u)
    BY <1>9 DEF ReceiveInitial
  <2>2. queue' = queue /\ pending'[x] = pending[x] \ {u}
    BY <2>1, <1>4 DEF TypeInv
  <2>3. IF t = u THEN board'[t] = server[t] ELSE board'[t] = board[t]
    BY <2>1 DEF TypeInv
  <2>. QED BY <1>2, <1>6, <1>7, <1>8, <2>2, <2>3 DEF Covered
<1>10. CASE UNCHANGED <<board, pending, queue>>
  BY <1>2, <1>6, <1>7, <1>8, <1>10 DEF Covered
<1>11. CASE ReceiveChange(s)
  <2>. DEFINE q == queue[x]
  <2>1. q # <<>> /\ q \in Seq(Changes)
    BY <1>4, <1>11 DEF ReceiveChange, TypeInv
  <2>2. queue'[x] = Tail(q) /\ pending' = pending
    BY <1>4, <1>11 DEF ReceiveChange, TypeInv
  <2>3. /\ Len(Tail(q)) = Len(q) - 1 /\ Tail(q) \in Seq(Changes)
        /\ \A i \in 1 .. Len(Tail(q)) : Tail(q)[i] = q[i + 1]
    BY <2>1, HeadTailProperties
  <2>4. Len(q) \in Nat \ {0} /\ DOMAIN q = 1 .. Len(q) /\ DOMAIN Tail(q) = 1 .. Len(q) - 1
    BY <2>1, <2>3, EmptySeq, LenProperties
  <2>5. Head(q) = q[1] /\ Head(q) \in Changes
    BY <2>1, HeadTailProperties
  <2>6. board'[t] = IF t = q[1].task THEN q[1].version ELSE board[t]
    BY <2>5, <1>4, <1>11 DEF ReceiveChange, TypeInv, Changes
  <2>. HIDE DEF q
  <2>7. \A i \in Nat : i \in OnTheWay(x, t)' <=> i + 1 \in OnTheWay(x, t) /\ i # 0
    BY <2>2, <2>3, <2>4 DEF OnTheWay, q
  <2>8. OnTheWay(x, t) \subseteq 1 .. Len(q) /\ OnTheWay(x, t)' \subseteq 1 .. Len(q) - 1
    BY <2>2, <2>4 DEF OnTheWay, q
  <2>9. LastIsLatest(x, t)'
    <3>1. SUFFICES ASSUME NEW i \in OnTheWay(x, t)', \A j \in OnTheWay(x, t)' : j <= i
                   PROVE  queue'[x][i].version = server'[t]
      BY DEF LastIsLatest
    <3>2. i + 1 \in OnTheWay(x, t) /\ i \in 1 .. Len(q) - 1
      BY <3>1, <2>4, <2>7, <2>8
    <3>3. ASSUME NEW j \in OnTheWay(x, t) PROVE j <= i + 1
      <4>1. CASE j = 1
        BY <4>1, <3>2
      <4>2. CASE j # 1
        <5>1. j \in 1 .. Len(q) /\ j - 1 \in Nat /\ j - 1 # 0
          BY <4>2, <2>8, <2>4
        <5>2. (j - 1) + 1 = j
          BY <5>1
        <5>3. j - 1 \in OnTheWay(x, t)'
          BY <5>1, <5>2, <2>7
        <5>4. j - 1 <= i
          BY <5>3, <3>1
        <5>. QED BY <5>1, <5>4, <3>2, <2>4
      <4>. QED BY <4>1, <4>2
    <3>4. queue[x][i + 1].version = server[t]
      BY <3>2, <3>3, <1>5 DEF LastIsLatest
    <3>. QED BY <3>2, <3>4, <2>2, <2>3, <1>2 DEF q
  <2>10. Covered(x, t)'
    <3>1. SUFFICES ASSUME OnTheWay(x, t)' = {}, t \notin pending[x]
                   PROVE  board'[t] = server[t]
      BY <1>2, <1>6, <2>2 DEF Covered
    <3>2. OnTheWay(x, t) \subseteq {1}
      <4>. SUFFICES ASSUME NEW j \in OnTheWay(x, t), j # 1 PROVE FALSE
        OBVIOUS
      <4>1. j \in 1 .. Len(q) /\ j - 1 \in Nat /\ j - 1 # 0 /\ (j - 1) + 1 = j
        BY <2>4, <2>8
      <4>. QED BY <4>1, <2>7, <3>1
    <3>3. CASE q[1].task = t
      <4>1. 1 \in OnTheWay(x, t)
        BY <3>3, <2>4 DEF OnTheWay, q
      <4>2. q[1].version = server[t]
        BY <3>2, <4>1, <1>5 DEF LastIsLatest, q
      <4>. QED BY <3>3, <4>2, <2>6
    <3>4. CASE q[1].task # t
      <4>1. OnTheWay(x, t) = {}
        BY <3>2, <3>4 DEF OnTheWay, q
      <4>. QED BY <3>1, <3>4, <4>1, <1>7, <2>6
    <3>. QED BY <3>3, <3>4
  <2>. QED BY <2>9, <2>10
<1>. QED BY <1>9, <1>10, <1>11 DEF Receive, ReceiveHeartbeat, ReceiveSnapshotComplete

\* A callback keeps the board that goes with the manager's number and what the
\* only stream owes it.
LEMMA LoadInvStep == Base /\ LoadInv /\ [Next]_vars => LoadInv'
<1>. SUFFICES ASSUME TypeInv, StreamInv, LoadInv, [Next]_vars PROVE LoadInv'
  BY DEF Base
<1>. DEFINE Empty == sequence' = 0 => \A t \in Tasks : board'[t] = 0
            Owed == \A x \in Streams : Sole(x)' =>
                        \A t \in Tasks : LastIsLatest(x, t)' /\ Covered(x, t)'
<1>0. LoadInv' <=> Empty /\ Owed
  BY DEF LoadInv
<1>1. ASSUME NEW c \in Tasks, Change(c) PROVE Empty /\ Owed
  BY <1>1, ChangeKeepsLoad DEF Change, clientVars, LoadInv
<1>2. ASSUME NEW s \in Streams, Connect(s) PROVE Empty /\ Owed
  <2>1. Empty
    BY <1>2 DEF Connect, LoadInv
  <2>2. ASSUME NEW x \in Streams, Sole(x)', NEW t \in Tasks
        PROVE  LastIsLatest(x, t)' /\ Covered(x, t)'
    <3>1. x = s
      BY <1>2, <2>2 DEF Connect, TypeInv, Sole, Open
    <3>2. queue'[x] = <<>> /\ seen'[x] = 0 /\ server' = server
      BY <1>2, <3>1 DEF Connect, StreamInv
    <3>3. pending'[x] = {u \in Tasks : server[u] > 0}
      BY <1>2, <3>1 DEF Connect, TypeInv
    <3>4. OnTheWay(x, t)' = {}
      BY <3>2 DEF OnTheWay
    <3>5. server[t] \in Nat
      BY DEF TypeInv
    <3>. QED BY <3>2, <3>3, <3>4, <3>5 DEF LastIsLatest, Covered
  <2>. QED BY <2>1, <2>2
<1>3. ASSUME NEW s \in Streams, Receive(s) \/ ReceiveHeartbeat(s) PROVE Empty /\ Owed
  <2>1. CASE Gap(s)
    BY <2>1 DEF Gap, resync, Clear, scheduleReconnect, Sole
  <2>2. CASE ~Gap(s)
    <3>1. Applied(s)
      BY <1>3, <2>2 DEF Receive, ReceiveHeartbeat, ReceiveInitial, ReceiveSnapshotComplete,
                        ReceiveChange
    <3>2. sequence' # 0
      BY <3>1 DEF Applied, TypeInv
    <3>. QED BY <1>3, <2>2, <3>2, EventKeepsLoad
  <2>. QED BY <2>1, <2>2
<1>4. ASSUME NEW s \in Streams, StreamEnds(s) PROVE Empty /\ Owed
  BY <1>4 DEF StreamEnds, scheduleReconnect, Sole, LoadInv
<1>5. ASSUME NEW s \in Streams, WatchUnsupported(s) PROVE Empty /\ Owed
  BY <1>5 DEF WatchUnsupported, Sole, LoadInv
<1>6. CASE HeartbeatTimeout
  <2>1. board' = [t \in Tasks |-> 0] /\ reconnect'
    BY <1>6 DEF HeartbeatTimeout, resync, Clear, scheduleReconnect
  <2>2. Empty /\ Owed
    BY <2>1 DEF Sole
  <2>. QED BY <2>2, <1>0
<1>7. CASE Leave
  <2>1. board' = [t \in Tasks |-> 0] /\ left'
    BY <1>7 DEF Leave, Clear
  <2>2. Empty /\ Owed
    BY <2>1 DEF Sole
  <2>. QED BY <2>2, <1>0
<1>8. CASE UNCHANGED vars
  BY <1>8 DEF vars, clientVars, streamVars, LoadInv, Sole, Open, LastIsLatest, Covered, OnTheWay
<1>. HIDE DEF Empty, Owed
<1>. QED BY <1>0, <1>1, <1>2, <1>3, <1>4, <1>5, <1>6, <1>7, <1>8 DEF Next

\* A board that a single stream feeds with nothing under way shows every task
\* as the server has it, whatever was received, lost or resynchronised before:
\* the manager starts from an empty board whenever it accepts a first event.
THEOREM LoadedIsCurrent == Spec => []LoadedBoardIsCurrent
<1>1. Init => LoadInv
  BY LoadInvInit
<1>2. Base /\ LoadInv /\ [Next]_vars => LoadInv'
  BY LoadInvStep
<1>3. Base /\ LoadInv => LoadedBoardIsCurrent
  <2>. SUFFICES ASSUME TypeInv, StreamInv, LoadInv, NEW s \in Streams, FedBy(s), ~Undelivered(s)
                PROVE  board = server
    BY DEF Base, LoadedBoardIsCurrent
  <2>1. Sole(s) /\ phase[s] = "live" /\ queue[s] = <<>> /\ seen[s] # 0
    BY DEF FedBy, Sole, Undelivered, Open, TypeInv
  <2>2. pending[s] = {}
    BY <2>1 DEF StreamInv
  <2>3. ASSUME NEW t \in Tasks PROVE board[t] = server[t]
    <3>1. Covered(s, t) /\ OnTheWay(s, t) = {}
      BY <2>1 DEF LoadInv, OnTheWay
    <3>. QED BY <3>1, <2>1, <2>2 DEF Covered
  <2>. QED BY <2>3 DEF TypeInv
<1>. QED BY <1>1, <1>2, <1>3, BaseInvariant, PTL DEF Spec
=============================================================================
