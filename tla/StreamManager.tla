---------------------------- MODULE StreamManager ----------------------------
(***************************************************************************)
(* StreamManager (web/src/store/stream-manager.ts): the web board's end of *)
(* WatchTasks, from the first connection to leaving the board.             *)
(*                                                                         *)
(* The browser runs one callback at a time, so an action is a callback: an *)
(* event of a stream, the end of a stream, a timer, the user.  The manager *)
(* keeps one sequence number, one heartbeat timer and one reconnect timer  *)
(* for all its streams; a stream whose heartbeat is late is not closed     *)
(* when the next one is opened, so several can be open.                    *)
(*                                                                         *)
(* The server's end is WatchTasks: a snapshot, its end marker, then every  *)
(* change since the subscription and heartbeats, numbered per stream from  *)
(* 1.  It publishes no deletions.                                          *)
(***************************************************************************)
EXTENDS Integers, Sequences, FiniteSets

CONSTANTS
    Tasks,
    Streams,     \* slots for streams that are open at the same time
    NoStream,
    MaxVersion,  \* bound on the changes to a task
    MaxBeats,    \* bound on heartbeats
    MaxDrops,    \* bound on streams that end or fail
    MaxTimeouts  \* bound on heartbeats that come too late

ASSUME StreamConstants ==
    /\ NoStream \notin Streams
    /\ {MaxVersion, MaxBeats, MaxDrops, MaxTimeouts} \subseteq Nat

VARIABLES
    server,    \* version of each task on the server; 0: not created yet
    board,     \* the same on the web board
    loading,   \* TaskStore.isLoading
    status,    \* the badge: disconnected, syncing, live or reconnecting
    sequence,  \* number of the last event applied; 0: none
    current,   \* the stream of the current AbortController
    heartbeat, \* the heartbeat timer is armed
    reconnect, \* the reconnect timer is armed
    phase,     \* of each stream: free, snapshot or live
    pending,   \* of each stream: tasks its snapshot still has to send
    queue,     \* of each stream: changes on their way
    seen,      \* of each stream: number of events received
    left,      \* the user has left the board
    beats, drops, timeouts  \* what has happened of the bounded events

streamVars == <<phase, pending, queue, seen>>
clientVars == <<board, loading, status, sequence, current, heartbeat, reconnect>>
countVars == <<beats, drops, timeouts>>
vars == <<server, streamVars, clientVars, left, countVars>>

Open == {s \in Streams : phase[s] # "free"}

Init ==
    /\ server \in [Tasks -> {0, 1}]
    /\ board = [t \in Tasks |-> 0]
    /\ loading = TRUE
    /\ status = "disconnected"
    /\ sequence = 0
    /\ current = NoStream
    /\ heartbeat = FALSE /\ reconnect = TRUE  \* start() calls connect() at once
    /\ phase = [s \in Streams |-> "free"]
    /\ pending = [s \in Streams |-> {}]
    /\ queue = [s \in Streams |-> <<>>]
    /\ seen = [s \in Streams |-> 0]
    /\ left = FALSE
    /\ beats = 0 /\ drops = 0 /\ timeouts = 0

-----------------------------------------------------------------------------
(* The server's end *)

\* A mutating RPC commits and publishes to every subscriber.
Change(t) ==
    /\ server[t] < MaxVersion
    /\ server' = [server EXCEPT ![t] = @ + 1]
    /\ queue' = [s \in Streams |->
          IF phase[s] = "free" THEN queue[s]
          ELSE Append(queue[s], [task |-> t, version |-> server'[t]])]
    /\ UNCHANGED <<phase, pending, seen, clientVars, left, countVars>>

\* The request is closed; what it had queued is gone with it.
Free(s) ==
    /\ phase' = [phase EXCEPT ![s] = "free"]
    /\ pending' = [pending EXCEPT ![s] = {}]
    /\ queue' = [queue EXCEPT ![s] = <<>>]
    /\ seen' = [seen EXCEPT ![s] = 0]

-----------------------------------------------------------------------------
(* The manager *)

Clear == board' = [t \in Tasks |-> 0] /\ loading' = TRUE

scheduleReconnect == reconnect' = TRUE /\ status' = "reconnecting"

resync_KeepsSequence == /\ sequence' = sequence
                        /\ Clear
                        /\ scheduleReconnect
                        /\ UNCHANGED current

resync == /\ sequence' = 0
          /\ Clear
          /\ scheduleReconnect
          /\ UNCHANGED current

\* connect: from start() and from the reconnect timer
Connect(s) ==
    /\ reconnect
    /\ phase[s] = "free"
    /\ reconnect' = FALSE
    /\ current' = s
    /\ status' = "syncing"
    /\ phase' = [phase EXCEPT ![s] = "snapshot"]
    /\ pending' = [pending EXCEPT ![s] = {t \in Tasks : server[t] > 0}]
    /\ UNCHANGED <<server, board, loading, sequence, heartbeat, queue, seen, left, countVars>>

\* An event may be applied when its number follows the last one, or when
\* there is no last one.
InSequence(s) == sequence \in {0, seen[s]}

Applied(s) ==
    /\ InSequence(s)
    /\ heartbeat' = TRUE
    /\ sequence' = seen[s] + 1
    /\ seen' = [seen EXCEPT ![s] = @ + 1]
    /\ UNCHANGED <<reconnect, current>>

\* A gap: the loop returns, which closes this stream.
Gap_GoesOn(s) ==
    /\ ~InSequence(s)
    /\ heartbeat' = TRUE
    /\ resync
    /\ seen' = [seen EXCEPT ![s] = @ + 1]
    /\ UNCHANGED <<phase, pending, queue>>

Gap_Skips(s) ==
    /\ ~InSequence(s)
    /\ heartbeat' = TRUE
    /\ seen' = [seen EXCEPT ![s] = @ + 1]
    /\ \/ \E t \in pending[s] : /\ pending' = [pending EXCEPT ![s] = @ \ {t}]
                                /\ UNCHANGED <<phase, queue>>
       \/ /\ pending[s] = {} /\ phase[s] = "snapshot"
          /\ phase' = [phase EXCEPT ![s] = "live"] /\ UNCHANGED <<pending, queue>>
       \/ /\ phase[s] = "live" /\ queue[s] # <<>>
          /\ queue' = [queue EXCEPT ![s] = Tail(@)] /\ UNCHANGED <<phase, pending>>
    /\ UNCHANGED <<board, loading, status, sequence, current, reconnect>>

Gap(s) ==
    /\ ~InSequence(s)
    /\ heartbeat' = TRUE
    /\ resync
    /\ Free(s)

ReceiveInitial(s) == \E t \in pending[s] :
    /\ Applied(s)
    /\ board' = [board EXCEPT ![t] = server[t]]
    /\ pending' = [pending EXCEPT ![s] = @ \ {t}]
    /\ UNCHANGED <<phase, queue, loading, status>>

ReceiveSnapshotComplete(s) ==
    /\ phase[s] = "snapshot" /\ pending[s] = {}
    /\ Applied(s)
    /\ loading' = FALSE
    /\ status' = "live"
    /\ phase' = [phase EXCEPT ![s] = "live"]
    /\ UNCHANGED <<board, pending, queue>>

ReceiveChange(s) ==
    /\ phase[s] = "live" /\ queue[s] # <<>>
    /\ Applied(s)
    /\ board' = [board EXCEPT ![Head(queue[s]).task] = Head(queue[s]).version]
    /\ queue' = [queue EXCEPT ![s] = Tail(@)]
    /\ UNCHANGED <<phase, pending, loading, status>>

\* Something of stream s is on its way.
Undelivered(s) == phase[s] = "snapshot" \/ queue[s] # <<>>

Receive(s) ==
    /\ \/ ReceiveInitial(s) \/ ReceiveSnapshotComplete(s) \/ ReceiveChange(s)
       \/ Undelivered(s) /\ Gap(s)
    /\ UNCHANGED <<server, left, countVars>>

ReceiveHeartbeat(s) ==
    /\ phase[s] = "live" /\ queue[s] = <<>>
    /\ beats < MaxBeats
    /\ beats' = beats + 1
    /\ \/ /\ Applied(s)
          /\ UNCHANGED <<board, loading, status, phase, pending, queue>>
       \/ Gap(s)
    /\ UNCHANGED <<server, left, drops, timeouts>>

\* The stream ends or fails.
StreamEnds(s) ==
    /\ phase[s] # "free"
    /\ drops < MaxDrops
    /\ drops' = drops + 1
    /\ Free(s)
    /\ scheduleReconnect
    /\ UNCHANGED <<server, board, loading, sequence, current, heartbeat, left, beats, timeouts>>

\* 45 seconds without an event of any stream.
HeartbeatTimeout ==
    /\ heartbeat
    /\ timeouts < MaxTimeouts
    /\ timeouts' = timeouts + 1
    /\ heartbeat' = FALSE
    /\ resync
    /\ UNCHANGED <<server, streamVars, left, beats, drops>>

\* stop() closes the stream of the current controller only.
stop_KeepsTimer ==
    /\ heartbeat' = FALSE /\ reconnect' = reconnect
    /\ status' = "disconnected"
    /\ current' = NoStream
    /\ IF current # NoStream THEN Free(current) ELSE UNCHANGED streamVars

stop ==
    /\ heartbeat' = FALSE /\ reconnect' = FALSE
    /\ status' = "disconnected"
    /\ current' = NoStream
    /\ IF current # NoStream THEN Free(current) ELSE UNCHANGED streamVars

\* The user goes to another collection; the board is cleared for it.
Leave ==
    /\ ~left /\ left' = TRUE
    /\ stop
    /\ Clear
    /\ UNCHANGED <<server, sequence, countVars>>

\* The collection belongs to an external platform: the first answer is
\* Unimplemented and the app goes over to polling.
WatchUnsupported(s) ==
    /\ phase[s] = "snapshot" /\ Open = {s} /\ current = s
    /\ sequence = 0 /\ seen[s] = 0 /\ timeouts = 0
    /\ ~left /\ left' = TRUE
    /\ stop
    /\ UNCHANGED <<server, board, loading, sequence, countVars>>

Next == \/ \E t \in Tasks : Change(t)
        \/ \E s \in Streams : \/ Connect(s) \/ Receive(s) \/ ReceiveHeartbeat(s)
                              \/ StreamEnds(s) \/ WatchUnsupported(s)
        \/ HeartbeatTimeout \/ Leave

\* Timers fire and the network delivers what was sent on a stream that lives.
Fairness == /\ WF_vars(\E s \in Streams : Connect(s))
            /\ \A s \in Streams : WF_vars(Receive(s))

Spec == Init /\ [][Next]_vars /\ Fairness

-----------------------------------------------------------------------------
(* Properties *)

\* Where no heartbeat was late, the board has one source: a stream, or the
\* timer that will open one.
OneSource == timeouts = 0 => Cardinality(Open) + (IF reconnect THEN 1 ELSE 0) <= 1

\* Only s feeds the board and s has got through.
FedBy(s) == Open = {s} /\ ~reconnect /\ ~left /\ seen[s] > 0

\* A board that is shown as loaded, and that a single stream feeds with nothing
\* under way, shows every task as the server has it: whatever streams came
\* before, none of them left a stale or missing task behind.
LoadedBoardIsCurrent ==
    \A s \in Streams : FedBy(s) /\ ~loading /\ ~Undelivered(s) => board = server

\* A manager that was stopped, and none of whose heartbeats was late, touches
\* the board no more, which by then belongs to another collection.
StoppedIsQuiet ==
    [][left /\ timeouts = 0 => UNCHANGED <<board, loading, phase>>]_vars

\* Failures end: unless several streams stay open side by side, the board gets
\* loaded and current again.
Recovers ==
    <>[](Cardinality(Open) <= 1 /\ ~left) => <>[](status = "live" /\ board = server)
=============================================================================
