------------------------------ MODULE WatchTasks ------------------------------
(***************************************************************************)
(* The event bus (internal/streaming/eventbus.go), the WatchTasks streams  *)
(* that read from it (internal/server/watch.go) and the mutating RPCs that *)
(* publish to it after their commit (internal/server/server.go).           *)
(*                                                                         *)
(* A mutating RPC commits in the store, reads the rows back, and hands one *)
(* event per row to the bus; between any two of these steps the other RPCs *)
(* and the streams go on.  An event is one object that all subscribers     *)
(* share: a stream writes its sequence number into it before it sends it.  *)
(*                                                                         *)
(* A row is its version and its phase, which stands for every column a     *)
(* filter looks at.                                                        *)
(***************************************************************************)
EXTENDS TaskState, Sequences, Functions

CONSTANTS
    Tasks,
    Stored,          \* the tasks in the database when the server starts
    Watchers,        \* WatchTasks streams; each client opens one
    Mutators,        \* mutating RPCs; each runs once
    Mutations,       \* what a mutating RPC can write
    UsedPhases,      \* phases that mutations leave tasks in
    Filter,          \* the phases each stream asks for
    IncludeInitial,  \* the streams that ask for a snapshot
    ChanCap,         \* capacity of Subscriber.Events
    MaxBeats         \* bound on the heartbeats of a stream

VARIABLES
    rows,         \* the stored tasks
    subscribers,  \* EventBus.subscribers
    events,       \* the TaskEvent objects, in the order of their allocation
    chan,         \* Subscriber.Events: per stream, the queued event objects
    mpc,          \* where each mutating RPC is
    reading,      \* the rows it reads back: <<task, version it wrote, 0 if none>>
    ready,        \* the events it has built and not published yet
    targets,      \* the other ends of edges it has changed, still to publish
    left,         \* the subscribers its Publish loop has not visited yet
    wpc,          \* where each stream is
    unlisted,     \* the tasks its snapshot has not come to yet
    seq,          \* its sequence counter
    current,      \* the event it has received and not sent yet
    beats,        \* its heartbeats
    stream,       \* what its client has received
    dropped,      \* history: the events it lost to a full channel
    unpublished   \* history: <<task, version>> of commits never published

storeVars == <<rows>>
mutVars == <<mpc, reading, ready, targets, left>>
watchVars == <<wpc, unlisted, seq, current, beats, stream>>
histVars == <<dropped, unpublished>>
vars == <<rows, subscribers, events, chan, mpc, reading, ready, targets, left,
          wpc, unlisted, seq, current, beats, stream, dropped, unpublished>>

-----------------------------------------------------------------------------

TaskRow == [version : Nat, phase : Phases]
Exists(t) == rows[t].version > 0

\* The tasks it creates, the tasks it updates, and the tasks at the other end
\* of the edges it adds or removes.  Every mutating RPC writes a row.
Mutation == {mu \in [creates : Seq(Tasks), updates : Seq(Tasks), targets : Seq(Tasks)] :
                mu.creates \o mu.updates # <<>>}

ASSUME ConstantsAssumption ==
    /\ Stored \subseteq Tasks
    /\ ChanCap \in Nat \ {0}
    /\ MaxBeats \in Nat
    /\ Filter \in [Watchers -> SUBSET Phases]
    /\ IncludeInitial \subseteq Watchers
    /\ UsedPhases \subseteq Phases
    /\ Mutations \subseteq Mutation

Event == [task : Tasks, version : Nat, phase : Phases, sequence : Nat]

\* kind "event" stands for CREATED, UPDATED and CLOSED.
Message == [kind : {"initial", "event"}, task : Tasks, version : Nat, sequence : Nat]
              \cup [kind : {"snapshot_complete", "heartbeat"}, sequence : Nat]

NoEvent == 0

MutatorPCs == {"idle", "read", "lock", "send", "done"}
WatcherPCs == {"idle", "header", "snapshot", "loop", "send", "leave", "close", "ended"}

TypeOK ==
    /\ rows \in [Tasks -> TaskRow]
    /\ subscribers \subseteq Watchers
    /\ events \in Seq(Event)
    /\ chan \in [Watchers -> Seq(DOMAIN events)]
    /\ \A w \in Watchers : Len(chan[w]) <= ChanCap
    /\ mpc \in [Mutators -> MutatorPCs]
    /\ reading \in [Mutators -> Seq(Tasks \X Nat)]
    /\ ready \in [Mutators -> Seq(DOMAIN events)]
    /\ targets \in [Mutators -> Seq(Tasks)]
    /\ left \in [Mutators -> SUBSET Watchers]
    /\ wpc \in [Watchers -> WatcherPCs]
    /\ unlisted \in [Watchers -> SUBSET Tasks]
    /\ seq \in [Watchers -> Nat]
    /\ current \in [Watchers -> DOMAIN events \cup {NoEvent}]
    /\ beats \in [Watchers -> 0..MaxBeats]
    /\ stream \in [Watchers -> Seq(Message)]
    /\ dropped \in [Watchers -> SUBSET DOMAIN events]
    /\ unpublished \subseteq Tasks \X Nat

Init ==
    /\ rows = [t \in Tasks |-> [version |-> IF t \in Stored THEN 1 ELSE 0, phase |-> "open"]]
    /\ subscribers = {}
    /\ events = <<>>
    /\ chan = [w \in Watchers |-> <<>>]
    /\ mpc = [m \in Mutators |-> "idle"]
    /\ reading = [m \in Mutators |-> <<>>]
    /\ ready = [m \in Mutators |-> <<>>]
    /\ targets = [m \in Mutators |-> <<>>]
    /\ left = [m \in Mutators |-> {}]
    /\ wpc = [w \in Watchers |-> "idle"]
    /\ unlisted = [w \in Watchers |-> {}]
    /\ seq = [w \in Watchers |-> 0]
    /\ current = [w \in Watchers |-> NoEvent]
    /\ beats = [w \in Watchers |-> 0]
    /\ stream = [w \in Watchers |-> <<>>]
    /\ dropped = [w \in Watchers |-> {}]
    /\ unpublished = {}

-----------------------------------------------------------------------------
(* EventBus: the read lock is held by the RPCs inside Publish *)

Readers == {m \in Mutators : mpc[m] = "send"}

matchesFilter(w, e) == e.phase \in Filter[w]

\* Subscribe and the map delete of Unsubscribe hold the write lock for one
\* statement.
WriteLock == Readers = {}

-----------------------------------------------------------------------------
(* The mutating RPCs *)

\* The store commits; the rows the RPC has written are read back after it.
Commit(m, mu) ==
    LET written == mu.creates \o mu.updates
    IN /\ mpc[m] = "idle"
       /\ \A t \in Range(mu.creates) : ~Exists(t)
       /\ \A t \in Range(mu.updates \o mu.targets) : Exists(t)
       /\ \E ph \in UsedPhases :
             rows' = [t \in Tasks |-> IF t \in Range(written)
                                      THEN [version |-> rows[t].version + 1, phase |-> ph]
                                      ELSE rows[t]]
       /\ mpc' = [mpc EXCEPT ![m] = "read"]
       /\ reading' = [reading EXCEPT ![m] =
                        [k \in DOMAIN written |-> <<written[k], rows'[written[k]].version>>]]
       /\ targets' = [targets EXCEPT ![m] = mu.targets]
       /\ UNCHANGED <<subscribers, events, chan, ready, left, watchVars, histVars>>

\* The rows are read back one after the other and an event is built from each:
\* what another RPC has committed since is in it.
ReadBack(m) ==
    LET k == Len(ready[m]) + 1
        t == reading[m][k][1]
    IN /\ mpc[m] = "read"
       /\ events' = Append(events, [task |-> t, version |-> rows[t].version,
                                    phase |-> rows[t].phase, sequence |-> 0])
       /\ ready' = [ready EXCEPT ![m] = Append(@, Len(events'))]
       /\ IF k < Len(reading[m])
          THEN UNCHANGED <<mpc, reading>>
          ELSE /\ mpc' = [mpc EXCEPT ![m] = "lock"]
               /\ reading' = [reading EXCEPT ![m] = <<>>]
       /\ UNCHANGED <<storeVars, subscribers, chan, targets, left, watchVars, histVars>>

\* The row of the next target is what the RPC reads next, or it is done.
NextTarget(m) ==
    IF targets[m] = <<>>
    THEN /\ mpc' = [mpc EXCEPT ![m] = "done"]
         /\ reading' = [reading EXCEPT ![m] = <<>>]
         /\ UNCHANGED targets
    ELSE /\ mpc' = [mpc EXCEPT ![m] = "read"]
         /\ reading' = [reading EXCEPT ![m] = <<<<Head(targets[m]), 0>>>>]
         /\ targets' = [targets EXCEPT ![m] = Tail(@)]

\* The caller has gone away or the read fails: the commit stays and the RPC
\* ends with an error, without an event; a target is left out.
ReadFails(m) ==
    LET own == reading[m][1][2] # 0
    IN /\ mpc[m] = "read"
       /\ \/ /\ own
             /\ unpublished' = unpublished \cup Range(reading[m])
             /\ mpc' = [mpc EXCEPT ![m] = "done"]
             /\ reading' = [reading EXCEPT ![m] = <<>>]
             /\ ready' = [ready EXCEPT ![m] = <<>>]
             /\ targets' = [targets EXCEPT ![m] = <<>>]
          \/ /\ ~own
             /\ NextTarget(m)
             /\ UNCHANGED <<ready, unpublished>>
       /\ UNCHANGED <<storeVars, subscribers, events, chan, left, watchVars, dropped>>

\* Publish takes the read lock.
PublishBegin(m) ==
    /\ mpc[m] = "lock"
    /\ left' = [left EXCEPT ![m] = subscribers]
    /\ mpc' = [mpc EXCEPT ![m] = "send"]
    /\ UNCHANGED <<storeVars, subscribers, events, chan, reading, ready, targets,
                   watchVars, histVars>>

\* One turn of the loop of Publish: the map is visited in any order, and a
\* subscriber whose channel is full loses the event.
PublishTo_ReturnOnMismatch(m, w) ==
    LET e == Head(ready[m])
        matches == matchesFilter(w, events[e])
    IN /\ mpc[m] = "send" /\ w \in left[m]
       /\ left' = [left EXCEPT ![m] = IF matches THEN @ \ {w} ELSE {}]
       /\ chan' = IF matches /\ Len(chan[w]) < ChanCap
                  THEN [chan EXCEPT ![w] = Append(@, e)] ELSE chan
       /\ UNCHANGED <<storeVars, subscribers, events, mpc, reading, ready, targets,
                      watchVars, histVars>>

PublishTo_Blocking(m, w) ==
    LET e == Head(ready[m])
        matches == matchesFilter(w, events[e])
    IN /\ mpc[m] = "send" /\ w \in left[m]
       /\ left' = [left EXCEPT ![m] = @ \ {w}]
       /\ matches => Len(chan[w]) < ChanCap
       /\ chan' = IF matches THEN [chan EXCEPT ![w] = Append(@, e)] ELSE chan
       /\ UNCHANGED <<storeVars, subscribers, events, mpc, reading, ready, targets,
                      watchVars, histVars>>

PublishTo_Unbounded(m, w) ==
    LET e == Head(ready[m])
        matches == matchesFilter(w, events[e])
    IN /\ mpc[m] = "send" /\ w \in left[m]
       /\ left' = [left EXCEPT ![m] = @ \ {w}]
       /\ chan' = IF matches THEN [chan EXCEPT ![w] = Append(@, e)] ELSE chan
       /\ UNCHANGED <<storeVars, subscribers, events, mpc, reading, ready, targets,
                      watchVars, histVars>>

PublishTo(m, w) ==
    LET e == Head(ready[m])
        matches == matchesFilter(w, events[e])
        full == Len(chan[w]) = ChanCap
    IN /\ mpc[m] = "send" /\ w \in left[m]
       /\ left' = [left EXCEPT ![m] = @ \ {w}]
       /\ \/ /\ matches /\ ~full
             /\ chan' = [chan EXCEPT ![w] = Append(@, e)]
             /\ UNCHANGED dropped
          \/ /\ matches /\ full
             /\ dropped' = [dropped EXCEPT ![w] = @ \cup {e}]
             /\ UNCHANGED chan
          \/ /\ ~matches
             /\ UNCHANGED <<chan, dropped>>
       /\ UNCHANGED <<storeVars, subscribers, events, mpc, reading, ready, targets,
                      watchVars, unpublished>>

\* Publish returns; UpdateTask goes on to the other ends of its edges.
PublishEnd(m) ==
    /\ mpc[m] = "send" /\ left[m] = {}
    /\ ready' = [ready EXCEPT ![m] = Tail(@)]
    /\ IF Len(ready[m]) > 1
       THEN mpc' = [mpc EXCEPT ![m] = "lock"] /\ UNCHANGED <<reading, targets>>
       ELSE NextTarget(m)
    /\ UNCHANGED <<storeVars, subscribers, events, chan, left, watchVars, histVars>>

-----------------------------------------------------------------------------
(* The streams *)

Goto(w, next) == wpc' = [wpc EXCEPT ![w] = next]

\* The client gets a message that carries sequence number n.
Deliver(w, msg) == stream' = [stream EXCEPT ![w] = Append(@, msg)]

Subscribe(w) ==
    /\ wpc[w] = "idle"
    /\ WriteLock
    /\ subscribers' = subscribers \cup {w}
    /\ Goto(w, "header")
    /\ UNCHANGED <<storeVars, events, chan, mutVars, unlisted, seq, current, beats,
                   stream, histVars>>

\* The headers go out, and the first page of the snapshot is asked for.
SendHeader(w) ==
    /\ wpc[w] = "header"
    /\ IF w \in IncludeInitial
       THEN /\ Goto(w, "snapshot")
            /\ unlisted' = [unlisted EXCEPT ![w] = {t \in Tasks : Exists(t)}]
       ELSE Goto(w, "loop") /\ UNCHANGED unlisted
    /\ UNCHANGED <<storeVars, subscribers, events, chan, mutVars, seq, current, beats,
                   stream, histVars>>

\* sendInitialSnapshot lists page by page; a page is one task here.
SnapshotNext(w) ==
    /\ wpc[w] = "snapshot"
    /\ \E t \in unlisted[w] :
          /\ unlisted' = [unlisted EXCEPT ![w] = @ \ {t}]
          /\ IF matchesFilter(w, rows[t])
             THEN /\ seq' = [seq EXCEPT ![w] = @ + 1]
                  /\ Deliver(w, [kind |-> "initial", task |-> t,
                                 version |-> rows[t].version, sequence |-> seq[w] + 1])
             ELSE UNCHANGED <<seq, stream>>
    /\ UNCHANGED <<storeVars, subscribers, events, chan, mutVars, wpc, current, beats,
                   histVars>>

SnapshotComplete_ClearsChannel(w) ==
    /\ wpc[w] = "snapshot" /\ unlisted[w] = {}
    /\ seq' = [seq EXCEPT ![w] = @ + 1]
    /\ Deliver(w, [kind |-> "snapshot_complete", sequence |-> seq[w] + 1])
    /\ chan' = [chan EXCEPT ![w] = <<>>]
    /\ Goto(w, "loop")
    /\ UNCHANGED <<storeVars, subscribers, events, mutVars, unlisted, current,
                   beats, histVars>>

SnapshotComplete(w) ==
    /\ wpc[w] = "snapshot" /\ unlisted[w] = {}
    /\ seq' = [seq EXCEPT ![w] = @ + 1]
    /\ Deliver(w, [kind |-> "snapshot_complete", sequence |-> seq[w] + 1])
    /\ Goto(w, "loop")
    /\ UNCHANGED <<storeVars, subscribers, events, chan, mutVars, unlisted, current,
                   beats, histVars>>

\* An event is taken off the channel and gets this stream's next number.
Receive_NotCounted(w) ==
    /\ wpc[w] = "loop" /\ chan[w] # <<>>
    /\ chan' = [chan EXCEPT ![w] = Tail(@)]
    /\ current' = [current EXCEPT ![w] = Head(chan[w])]
    /\ events' = [events EXCEPT ![Head(chan[w])].sequence = seq[w]]
    /\ Goto(w, "send")
    /\ UNCHANGED <<storeVars, subscribers, mutVars, unlisted, seq, beats, stream, histVars>>

Receive(w) ==
    /\ wpc[w] = "loop" /\ chan[w] # <<>>
    /\ chan' = [chan EXCEPT ![w] = Tail(@)]
    /\ current' = [current EXCEPT ![w] = Head(chan[w])]
    /\ seq' = [seq EXCEPT ![w] = @ + 1]
    /\ events' = [events EXCEPT ![Head(chan[w])].sequence = seq[w] + 1]
    /\ Goto(w, "send")
    /\ UNCHANGED <<storeVars, subscribers, mutVars, unlisted, beats, stream, histVars>>

\* stream.Send marshals the event as it is now.
Send(w) ==
    LET e == events[current[w]]
    IN /\ wpc[w] = "send"
       /\ Deliver(w, [kind |-> "event", task |-> e.task, version |-> e.version,
                      sequence |-> e.sequence])
       /\ current' = [current EXCEPT ![w] = NoEvent]
       /\ Goto(w, "loop")
       /\ UNCHANGED <<storeVars, subscribers, events, chan, mutVars, unlisted, seq,
                      beats, histVars>>

Heartbeat(w) ==
    /\ wpc[w] = "loop" /\ beats[w] < MaxBeats
    /\ beats' = [beats EXCEPT ![w] = @ + 1]
    /\ seq' = [seq EXCEPT ![w] = @ + 1]
    /\ Deliver(w, [kind |-> "heartbeat", sequence |-> seq[w] + 1])
    /\ UNCHANGED <<storeVars, subscribers, events, chan, mutVars, wpc, unlisted,
                   current, histVars>>

\* The client goes away, or a Send or a list call fails: the handler returns
\* and its deferred Unsubscribe runs.
Disconnect(w) ==
    /\ wpc[w] \in {"header", "snapshot", "loop", "send"}
    /\ Goto(w, "leave")
    /\ UNCHANGED <<storeVars, subscribers, events, chan, mutVars, unlisted, seq,
                   current, beats, stream, histVars>>

Unsubscribe_NoLock(w) ==
    /\ wpc[w] = "leave"
    /\ subscribers' = subscribers \ {w}
    /\ Goto(w, "close")
    /\ UNCHANGED <<storeVars, events, chan, mutVars, unlisted, seq, current, beats,
                   stream, histVars>>

Unsubscribe(w) ==
    /\ wpc[w] = "leave"
    /\ WriteLock
    /\ subscribers' = subscribers \ {w}
    /\ Goto(w, "close")
    /\ UNCHANGED <<storeVars, events, chan, mutVars, unlisted, seq, current, beats,
                   stream, histVars>>

\* The channel is closed after the lock is released.
CloseChan(w) ==
    /\ wpc[w] = "close"
    /\ Goto(w, "ended")
    /\ UNCHANGED <<storeVars, subscribers, events, chan, mutVars, unlisted, seq,
                   current, beats, stream, histVars>>

-----------------------------------------------------------------------------

\* The next step of a mutating RPC that has committed.
MutatorStep(m) == \/ ReadBack(m) \/ ReadFails(m) \/ PublishBegin(m) \/ PublishEnd(m)
                  \/ \E w \in Watchers : PublishTo(m, w)

\* The next step of a stream whose client takes what it is sent.
ServeStep(w) == \/ SendHeader(w) \/ SnapshotNext(w) \/ SnapshotComplete(w)
                \/ Receive(w) \/ Send(w)

LeaveStep(w) == Unsubscribe(w) \/ CloseChan(w)

Next == \/ \E m \in Mutators : \/ \E mu \in Mutations : Commit(m, mu)
                               \/ MutatorStep(m)
        \/ \E w \in Watchers : \/ Subscribe(w) \/ ServeStep(w) \/ Heartbeat(w)
                               \/ Disconnect(w) \/ LeaveStep(w)

Spec == Init /\ [][Next]_vars

\* Goroutines that do not wait for a client keep running: the RPCs after their
\* commit and the deferred Unsubscribe.  Nothing is assumed of a stream that
\* sends: its client may stall it for ever.
FairSpec == Spec /\ \A m \in Mutators : WF_vars(MutatorStep(m))
                 /\ \A w \in Watchers : WF_vars(LeaveStep(w))

-----------------------------------------------------------------------------
(* Properties *)

\* Publish never sends on a closed channel, which would panic: the map delete
\* excludes every Publish that still has the subscriber to visit.
NoSendOnClosed ==
    \A m \in Mutators, w \in Watchers : w \in left[m] => wpc[w] # "ended"

\* When nothing is in progress any more, a stream with a snapshot that lost no
\* event has told its client the stored version of every task that matches
\* its filter: nothing falls between the snapshot and the events.
Quiet(w) == /\ wpc[w] = "loop" /\ chan[w] = <<>>
            /\ \A m \in Mutators : mpc[m] \in {"idle", "done"}

UpToDate ==
    \A w \in IncludeInitial : Quiet(w) /\ dropped[w] = {} =>
        \A t \in Tasks :
            Exists(t) /\ matchesFilter(w, rows[t])
                      /\ <<t, rows[t].version>> \notin unpublished =>
                \E k \in DOMAIN stream[w] :
                    /\ stream[w][k].kind \in {"initial", "event"}
                    /\ stream[w][k].task = t
                    /\ stream[w][k].version = rows[t].version

\* The k-th message of a stream carries sequence number k: the web client
\* takes anything else for a lost message and starts over.
SequenceGapless ==
    \A w \in Watchers : \A k \in DOMAIN stream[w] : stream[w][k].sequence = k

\* A mutating RPC returns whatever its watchers do, also when a client has
\* stopped reading and the channel of its stream is full.
PublishReturns == \A m \in Mutators : mpc[m] # "idle" ~> mpc[m] = "done"

\* The handler of a client that has gone away returns: Unsubscribe gets the
\* lock although RPCs keep publishing.
DisconnectReturns == \A w \in Watchers : wpc[w] = "leave" ~> wpc[w] = "ended"

\* If its client takes what it is sent, so that the stream keeps running, it is
\* told the stored version of every task again and again, and so ends up with
\* the last one, unless the stream ends, loses an event to a full channel, or
\* the RPC could not read back what it had written.
Told(w, t) == \E k \in DOMAIN stream[w] :
                 /\ stream[w][k].kind \in {"initial", "event"}
                 /\ stream[w][k].task = t
                 /\ stream[w][k].version >= rows[t].version

Listening(w) == wpc[w] \in {"header", "snapshot", "loop", "send"} /\ dropped[w] = {}

StreamCatchesUp ==
    \A w \in IncludeInitial, t \in Tasks :
        WF_vars(ServeStep(w)) =>
            (Listening(w) ~> \/ ~Listening(w)
                             \/ ~Exists(t)
                             \/ ~matchesFilter(w, rows[t])
                             \/ <<t, rows[t].version>> \in unpublished
                             \/ Told(w, t))
=============================================================================
