--------------------------- MODULE WatchTasksProofs ---------------------------
(***************************************************************************)
(* Theorems about WatchTasks for any number of streams, mutating RPCs and  *)
(* tasks, any filters and any capacity of the channels.                    *)
(***************************************************************************)
EXTENDS WatchTasks, SequenceTheorems, TLAPS

-----------------------------------------------------------------------------
(* Sequences *)

\* A queue that is not empty has a head and a tail.
LEMMA SplitSeq ==
    ASSUME NEW S, NEW s \in Seq(S), s # <<>>
    PROVE  /\ Head(s) \in S /\ Tail(s) \in Seq(S)
           /\ Len(s) \in Nat \ {0} /\ Len(Tail(s)) = Len(s) - 1
           /\ Head(s) = s[1]
           /\ \A k \in 1..Len(s) - 1 : Tail(s)[k] = s[k + 1]
  <1>1. Len(s) \in Nat
    BY LenProperties
  <1>2. Len(s) # 0
    BY EmptySeq
  <1>3. Head(s) \in S /\ Tail(s) \in Seq(S)
    BY HeadTailProperties
  <1>4. Len(Tail(s)) = Len(s) - 1
    BY HeadTailProperties
  <1>5. \A k \in 1..Len(s) - 1 : Tail(s)[k] = s[k + 1]
    <2>1. \A i \in 1..Len(Tail(s)) : Tail(s)[i] = s[i + 1]
      BY HeadTailProperties
    <2> QED BY <1>4, <2>1
  <1>6. Head(s) = s[1]
    OBVIOUS
  <1> QED BY <1>1, <1>2, <1>3, <1>4, <1>5, <1>6

\* What is appended comes after everything else.
LEMMA AppendElements ==
    ASSUME NEW S, NEW s \in Seq(S), NEW x
    PROVE  /\ Len(Append(s, x)) = Len(s) + 1 /\ Append(s, x)[Len(s) + 1] = x
           /\ DOMAIN Append(s, x) = DOMAIN s \cup {Len(s) + 1}
           /\ \A j \in DOMAIN s : Append(s, x)[j] = s[j]
  <1>1. Len(s) \in Nat /\ DOMAIN s = 1..Len(s)
    BY LenProperties
  <1> DEFINE T == S \cup {x}
             a == Append(s, x)
  <1>2. s \in Seq(T) /\ x \in T
    BY SeqMonotonic
  <1> HIDE DEF T
  <1>3. /\ a \in Seq(T) /\ Len(a) = Len(s) + 1 /\ a[Len(s) + 1] = x
        /\ \A j \in 1..Len(s) : a[j] = s[j]
    BY <1>2, AppendProperties
  <1> HIDE DEF a
  <1>4. DOMAIN a = 1..Len(s) + 1
    BY <1>3, LenProperties
  <1>5. DOMAIN a = DOMAIN s \cup {Len(s) + 1}
    BY <1>1, <1>4
  <1> QED BY <1>1, <1>3, <1>5 DEF a
-----------------------------------------------------------------------------
(* Types *)

\* A mutating RPC has something to read back, or an event to publish.
MutatorOK(m) ==
    /\ mpc[m] = "idle" => ready[m] = <<>>
    /\ mpc[m] = "read" => /\ Len(ready[m]) < Len(reading[m])
                          /\ reading[m][1][2] = 0 => Len(reading[m]) = 1
    /\ mpc[m] \in {"lock", "send"} => ready[m] # <<>>

StreamOK(w) == wpc[w] = "send" => current[w] # NoEvent

TypeInv == /\ TypeOK
           /\ \A m \in Mutators : MutatorOK(m)
           /\ \A w \in Watchers : StreamOK(w)

\* At the start nothing is in progress.
LEMMA TypeInvInit == Init => TypeInv
  <1> SUFFICES ASSUME Init PROVE TypeInv
    OBVIOUS
  <1>1. \A S : <<>> \in Seq(S) /\ Len(<<>>) = 0
    BY EmptySeq
  <1>2. TypeOK
    BY <1>1, ConstantsAssumption
       DEF Init, TypeOK, TaskRow, Phases, MutatorPCs, WatcherPCs, NoEvent
  <1> QED BY <1>2 DEF Init, TypeInv, MutatorOK, StreamOK

\* The RPCs: what they read, build and publish.
LEMMA CommitType ==
    ASSUME TypeInv, NEW m \in Mutators, NEW mu \in Mutations, Commit(m, mu)
    PROVE  TypeInv'
  <1> DEFINE written == mu.creates \o mu.updates
             rs == [k \in DOMAIN written |-> <<written[k], rows'[written[k]].version>>]
  <1>1. mu \in Mutation
    BY ConstantsAssumption
  <1>2. /\ written \in Seq(Tasks) /\ Len(written) \in Nat /\ Len(written) # 0
        /\ DOMAIN written = 1..Len(written) /\ \A k \in DOMAIN written : written[k] \in Tasks
    <2>1. mu.creates \in Seq(Tasks) /\ mu.updates \in Seq(Tasks) /\ written # <<>>
      BY <1>1 DEF Mutation
    <2>2. written \in Seq(Tasks)
      BY <2>1, ConcatProperties
    <2> HIDE DEF written
    <2> QED BY <2>1, <2>2, LenProperties, EmptySeq, ElementOfSeq
  <1>3. mu.targets \in Seq(Tasks)
    BY <1>1 DEF Mutation
  <1> HIDE DEF written
  <1>4. /\ rows' \in [Tasks -> TaskRow]
        /\ \A t \in Range(written) : t \in Tasks => rows'[t].version = rows[t].version + 1
    <2>1. PICK ph \in UsedPhases :
             rows' = [t \in Tasks |-> IF t \in Range(written)
                                      THEN [version |-> rows[t].version + 1, phase |-> ph]
                                      ELSE rows[t]]
      BY DEF Commit, written
    <2>2. ph \in Phases
      BY ConstantsAssumption
    <2>3. \A t \in Tasks : /\ rows[t] \in TaskRow /\ rows[t].version + 1 \in Nat
                           /\ [version |-> rows[t].version + 1, phase |-> ph] \in TaskRow
      BY <2>2 DEF TypeInv, TypeOK, TaskRow
    <2> HIDE DEF written
    <2> QED BY <2>1, <2>3
  <1>5. rs \in [1..Len(written) -> Tasks \X Nat] /\ Len(rs) = Len(written)
    BY <1>2, <1>4 DEF TaskRow
  <1>6. rs \in Seq(Tasks \X Nat)
    <2> HIDE DEF rs
    <2> QED BY <1>2, <1>5, SeqDef
  <1>7. rs[1][2] # 0
    <2>1. 1 \in DOMAIN written /\ written[1] \in Range(written) /\ written[1] \in Tasks
      BY <1>2 DEF Range
    <2>2. rows'[written[1]].version = rows[written[1]].version + 1
      BY <1>4, <2>1
    <2>3. rows[written[1]].version \in Nat
      BY <2>1 DEF TypeInv, TypeOK, TaskRow
    <2> QED BY <2>1, <2>2, <2>3
  <1> HIDE DEF rs
  <1>8. reading' = [reading EXCEPT ![m] = rs] /\ targets' = [targets EXCEPT ![m] = mu.targets]
    BY DEF Commit, rs, written
  <1>9. TypeOK'
    <2>1. mpc' \in [Mutators -> MutatorPCs]
      BY DEF Commit, TypeInv, TypeOK, MutatorPCs
    <2>2. reading' \in [Mutators -> Seq(Tasks \X Nat)]
      BY <1>6, <1>8 DEF TypeInv, TypeOK
    <2>3. targets' \in [Mutators -> Seq(Tasks)]
      BY <1>3, <1>8 DEF TypeInv, TypeOK
    <2> QED BY <1>4, <2>1, <2>2, <2>3 DEF Commit, TypeInv, TypeOK, watchVars, histVars
  <1>10. ASSUME NEW n \in Mutators PROVE MutatorOK(n)'
    <2>1. ready' = ready /\ ready[m] = <<>> /\ mpc'[m] = "read" /\ reading'[m] = rs
      BY <1>8 DEF Commit, TypeInv, TypeOK, MutatorOK
    <2>2. n # m => mpc'[n] = mpc[n] /\ reading'[n] = reading[n]
      BY <1>8 DEF Commit, TypeInv, TypeOK
    <2>3. Len(ready[m]) < Len(rs)
      BY <1>2, <1>5, <2>1
    <2> QED BY <1>7, <2>1, <2>2, <2>3 DEF TypeInv, MutatorOK
  <1>11. \A w \in Watchers : StreamOK(w)'
    BY DEF Commit, TypeInv, StreamOK, watchVars
  <1> QED BY <1>9, <1>10, <1>11 DEF TypeInv

\* The next target of an RPC is read back, or the RPC ends.
LEMMA NextTargetType ==
    ASSUME TypeInv, NEW m \in Mutators, NextTarget(m)
    PROVE  /\ mpc' \in [Mutators -> MutatorPCs]
           /\ reading' \in [Mutators -> Seq(Tasks \X Nat)]
           /\ targets' \in [Mutators -> Seq(Tasks)]
           /\ mpc'[m] = "read" \/ mpc'[m] = "done"
           /\ mpc'[m] = "read" => Len(reading'[m]) = 1
           /\ \A n \in Mutators \ {m} : mpc'[n] = mpc[n] /\ reading'[n] = reading[n]
  <1> USE DEF TypeInv, TypeOK
  <1>1. CASE targets[m] = <<>>
    <2>1. <<>> \in Seq(Tasks \X Nat)
      OBVIOUS
    <2>2. /\ mpc' = [mpc EXCEPT ![m] = "done"]
          /\ reading' = [reading EXCEPT ![m] = <<>>]
          /\ targets' = targets
      BY <1>1 DEF NextTarget
    <2> QED BY <2>1, <2>2 DEF MutatorPCs
  <1>2. CASE targets[m] # <<>>
    <2>1. Head(targets[m]) \in Tasks /\ Tail(targets[m]) \in Seq(Tasks)
      BY <1>2, HeadTailProperties
    <2> DEFINE rs == <<<<Head(targets[m]), 0>>>>
    <2>2. rs \in Seq(Tasks \X Nat) /\ Len(rs) = 1
      BY <2>1
    <2> HIDE DEF rs
    <2>3. reading' = [reading EXCEPT ![m] = rs]
      BY <1>2 DEF NextTarget, rs
    <2>4. /\ mpc' = [mpc EXCEPT ![m] = "read"]
          /\ targets' = [targets EXCEPT ![m] = Tail(@)]
      BY <1>2 DEF NextTarget
    <2> QED BY <2>1, <2>2, <2>3, <2>4 DEF MutatorPCs
  <1> QED BY <1>1, <1>2

\* The read-back builds one more event object.
LEMMA ReadBackType ==
    ASSUME TypeInv, NEW m \in Mutators, ReadBack(m)
    PROVE  TypeInv'
  <1> DEFINE k == Len(ready[m]) + 1
             t == reading[m][k][1]
             ev == [task |-> t, version |-> rows[t].version,
                    phase |-> rows[t].phase, sequence |-> 0]
  <1>1. /\ ready[m] \in Seq(DOMAIN events) /\ reading[m] \in Seq(Tasks \X Nat)
        /\ Len(ready[m]) \in Nat /\ Len(reading[m]) \in Nat /\ k <= Len(reading[m])
    BY LenProperties DEF TypeInv, TypeOK, MutatorOK, ReadBack
  <1>2. reading[m][k] \in Tasks \X Nat
    BY <1>1, ElementOfSeq
  <1>3. ev \in Event
    BY <1>2 DEF TypeInv, TypeOK, TaskRow, Event
  <1>4. events' = Append(events, ev)
    BY DEF ReadBack
  <1> HIDE DEF ev
  <1>5. /\ events' \in Seq(Event) /\ Len(events') = Len(events) + 1 /\ Len(events) \in Nat
        /\ DOMAIN events = 1..Len(events) /\ DOMAIN events' = 1..Len(events')
    BY <1>3, <1>4, AppendProperties, LenProperties DEF TypeInv, TypeOK
  <1>6. DOMAIN events \subseteq DOMAIN events' /\ Len(events') \in DOMAIN events'
    BY <1>5
  <1>7. Seq(DOMAIN events) \subseteq Seq(DOMAIN events')
    BY <1>6, SeqMonotonic
  <1>8. /\ Append(ready[m], Len(events')) \in Seq(DOMAIN events')
        /\ Len(Append(ready[m], Len(events'))) = k
    BY <1>1, <1>6, <1>7, AppendProperties
  <1>9. ready' = [ready EXCEPT ![m] = Append(ready[m], Len(events'))]
    BY DEF ReadBack
  <1>10. ready' \in [Mutators -> Seq(DOMAIN events')]
    BY <1>7, <1>8, <1>9 DEF TypeInv, TypeOK
  <1>11. /\ mpc' \in [Mutators -> MutatorPCs]
         /\ reading' \in [Mutators -> Seq(Tasks \X Nat)]
    <2>1. \/ mpc' = mpc /\ reading' = reading
          \/ mpc' = [mpc EXCEPT ![m] = "lock"] /\ reading' = [reading EXCEPT ![m] = <<>>]
      BY DEF ReadBack
    <2>2. mpc \in [Mutators -> MutatorPCs] /\ reading \in [Mutators -> Seq(Tasks \X Nat)]
      BY DEF TypeInv, TypeOK
    <2>3. <<>> \in Seq(Tasks \X Nat)
      OBVIOUS
    <2> QED BY <2>1, <2>2, <2>3 DEF MutatorPCs
  <1>12. TypeOK'
    <2>1. chan' \in [Watchers -> Seq(DOMAIN events')]
      BY <1>7 DEF ReadBack, TypeInv, TypeOK
    <2>2. /\ current' \in [Watchers -> DOMAIN events' \cup {NoEvent}]
          /\ dropped' \in [Watchers -> SUBSET DOMAIN events']
      BY <1>6 DEF ReadBack, TypeInv, TypeOK, watchVars, histVars
    <2> QED BY <1>5, <1>10, <1>11, <2>1, <2>2
            DEF ReadBack, TypeInv, TypeOK, storeVars, watchVars, histVars
  <1>13. ASSUME NEW n \in Mutators PROVE MutatorOK(n)'
    <2>1. CASE n # m
      BY <1>9, <2>1 DEF ReadBack, TypeInv, TypeOK, MutatorOK
    <2>2. CASE n = m
      <3>1. Len(ready'[m]) = k /\ k # 0 /\ k \in Nat
        BY <1>1, <1>8, <1>9 DEF TypeInv, TypeOK
      <3>2. ready'[m] # <<>>
        BY <3>1, EmptySeq
      <3>3. CASE k < Len(reading[m])
        BY <1>1, <2>2, <3>1, <3>2, <3>3 DEF ReadBack, TypeInv, TypeOK, MutatorOK
      <3>4. CASE ~(k < Len(reading[m]))
        <4>1. mpc'[m] = "lock"
          BY <3>4 DEF ReadBack, TypeInv, TypeOK
        <4> QED BY <2>2, <3>2, <4>1 DEF MutatorOK
      <3> QED BY <3>3, <3>4
    <2> QED BY <2>1, <2>2
  <1>14. \A w \in Watchers : StreamOK(w)'
    BY DEF ReadBack, TypeInv, StreamOK, watchVars
  <1> QED BY <1>12, <1>13, <1>14 DEF TypeInv

\* What follows the last event of an RPC leaves it nothing to publish.
LEMMA NextTargetOK ==
    ASSUME TypeInv, NEW m \in Mutators, NextTarget(m), ready'[m] = <<>>,
           \A n \in Mutators \ {m} : ready'[n] = ready[n]
    PROVE  \A n \in Mutators : MutatorOK(n)'
  <1> SUFFICES ASSUME NEW n \in Mutators PROVE MutatorOK(n)'
    OBVIOUS
  <1>1. CASE n = m
    <2>1. mpc'[m] = "read" \/ mpc'[m] = "done"
      BY NextTargetType
    <2>2. mpc'[m] = "read" => Len(reading'[m]) = 1
      BY NextTargetType
    <2>3. Len(ready'[m]) = 0
      BY EmptySeq
    <2> QED BY <1>1, <2>1, <2>2, <2>3 DEF MutatorOK
  <1>2. CASE n # m
    <2>1. mpc'[n] = mpc[n] /\ reading'[n] = reading[n] /\ ready'[n] = ready[n]
      BY <1>2, NextTargetType
    <2>2. MutatorOK(n)
      BY DEF TypeInv
    <2> QED BY <2>1, <2>2 DEF MutatorOK
  <1> QED BY <1>1, <1>2

\* A read-back that fails ends the RPC or leaves out a target.
LEMMA ReadFailsType ==
    ASSUME TypeInv, NEW m \in Mutators, ReadFails(m)
    PROVE  TypeInv'
  <1>1. CASE reading[m][1][2] = 0
    <2>1. NextTarget(m) /\ ready' = ready /\ unpublished' = unpublished
      BY <1>1 DEF ReadFails
    <2>2. TypeOK'
      BY <2>1, NextTargetType DEF ReadFails, TypeInv, TypeOK, storeVars, watchVars
    <2>3. ready[m] = <<>>
      <3>1. ready[m] \in Seq(DOMAIN events) /\ Len(ready[m]) < 1
        BY <1>1 DEF ReadFails, TypeInv, TypeOK, MutatorOK
      <3> QED BY <3>1, EmptySeq, LenProperties
    <2>4. \A n \in Mutators : MutatorOK(n)'
      BY <2>1, <2>3, NextTargetOK
    <2> QED BY <2>2, <2>4 DEF ReadFails, TypeInv, StreamOK, watchVars
  <1>2. CASE reading[m][1][2] # 0
    <2>1. /\ unpublished' = unpublished \cup Range(reading[m])
          /\ mpc' = [mpc EXCEPT ![m] = "done"]
          /\ reading' = [reading EXCEPT ![m] = <<>>]
          /\ ready' = [ready EXCEPT ![m] = <<>>]
          /\ targets' = [targets EXCEPT ![m] = <<>>]
      BY <1>2 DEF ReadFails
    <2>2. Range(reading[m]) \subseteq Tasks \X Nat
      <3>1. reading[m] \in Seq(Tasks \X Nat)
        BY DEF TypeInv, TypeOK
      <3> QED BY <3>1, ElementOfSeq, LenProperties DEF Range
    <2>3. /\ reading' \in [Mutators -> Seq(Tasks \X Nat)]
          /\ targets' \in [Mutators -> Seq(Tasks)]
          /\ ready' \in [Mutators -> Seq(DOMAIN events)]
      BY <2>1, EmptySeq DEF TypeInv, TypeOK
    <2>4. TypeOK'
      BY <2>1, <2>2, <2>3
         DEF ReadFails, TypeInv, TypeOK, MutatorPCs, storeVars, watchVars
    <2>5. ASSUME NEW n \in Mutators PROVE MutatorOK(n)'
      BY <2>1 DEF TypeInv, TypeOK, MutatorOK
    <2> QED BY <2>4, <2>5 DEF ReadFails, TypeInv, StreamOK, watchVars
  <1> QED BY <1>1, <1>2

\* The publishing steps.
LEMMA PublishBeginType ==
    ASSUME TypeInv, NEW m \in Mutators, PublishBegin(m)
    PROVE  TypeInv'
  <1>1. TypeOK'
    BY DEF PublishBegin, TypeInv, TypeOK, MutatorPCs, storeVars, watchVars, histVars
  <1>2. ASSUME NEW n \in Mutators PROVE MutatorOK(n)'
    BY DEF PublishBegin, TypeInv, TypeOK, MutatorOK
  <1> QED BY <1>1, <1>2 DEF PublishBegin, TypeInv, StreamOK, watchVars

\* The event that is being published is one of the event objects.
LEMMA HeadIsEvent ==
    ASSUME TypeInv, NEW m \in Mutators, ready[m] # <<>>
    PROVE  /\ Head(ready[m]) \in DOMAIN events
           /\ Tail(ready[m]) \in Seq(DOMAIN events)
           /\ Len(ready[m]) \in Nat \ {0}
           /\ Len(Tail(ready[m])) = Len(ready[m]) - 1
           /\ Head(ready[m]) = ready[m][1]
           /\ \A k \in 1..Len(ready[m]) - 1 : Tail(ready[m])[k] = ready[m][k + 1]
  <1>1. ready[m] \in Seq(DOMAIN events)
    BY DEF TypeInv, TypeOK
  <1> QED BY <1>1, SplitSeq

\* One turn of the loop of Publish: an event more in a channel, or one dropped.
LEMMA PublishToType ==
    ASSUME TypeInv, NEW m \in Mutators, NEW w \in Watchers, PublishTo(m, w)
    PROVE  TypeInv'
  <1> DEFINE e == Head(ready[m])
  <1>1. e \in DOMAIN events
    BY HeadIsEvent DEF PublishTo, TypeInv, MutatorOK
  <1>2. /\ chan[w] \in Seq(DOMAIN events) /\ Len(chan[w]) \in Nat /\ Len(chan[w]) <= ChanCap
        /\ ChanCap \in Nat
    BY ConstantsAssumption, LenProperties DEF TypeInv, TypeOK
  <1>3. /\ Append(chan[w], e) \in Seq(DOMAIN events)
        /\ Len(Append(chan[w], e)) = Len(chan[w]) + 1
    BY <1>1, <1>2, AppendProperties
  <1> HIDE DEF e
  <1>4. /\ chan' \in [Watchers -> Seq(DOMAIN events)]
        /\ \A v \in Watchers : Len(chan'[v]) <= ChanCap
    <2>1. \/ chan' = chan
          \/ chan' = [chan EXCEPT ![w] = Append(chan[w], e)] /\ Len(chan[w]) # ChanCap
      BY DEF PublishTo, e
    <2>2. chan \in [Watchers -> Seq(DOMAIN events)] /\ \A v \in Watchers : Len(chan[v]) <= ChanCap
      BY DEF TypeInv, TypeOK
    <2>3. CASE chan' = [chan EXCEPT ![w] = Append(chan[w], e)] /\ Len(chan[w]) # ChanCap
      <3> DEFINE q == Append(chan[w], e)
      <3>1. q \in Seq(DOMAIN events) /\ Len(q) <= ChanCap
        BY <1>2, <1>3, <2>3
      <3>2. chan' = [chan EXCEPT ![w] = q]
        BY <2>3
      <3> HIDE DEF q
      <3> QED BY <2>2, <3>1, <3>2
    <2> QED BY <2>1, <2>2, <2>3
  <1>5. dropped' \in [Watchers -> SUBSET DOMAIN events]
    <2>1. dropped' = dropped \/ dropped' = [dropped EXCEPT ![w] = @ \cup {e}]
      BY DEF PublishTo, e
    <2>2. dropped \in [Watchers -> SUBSET DOMAIN events]
      BY DEF TypeInv, TypeOK
    <2>3. dropped[w] \cup {e} \in SUBSET DOMAIN events
      BY <1>1, <2>2
    <2> QED BY <2>1, <2>2, <2>3
  <1>6. TypeOK'
    BY <1>4, <1>5 DEF PublishTo, TypeInv, TypeOK, storeVars, watchVars
  <1> QED BY <1>6 DEF PublishTo, TypeInv, MutatorOK, StreamOK, watchVars

\* The loop of Publish is over and the next event is taken up.
LEMMA PublishEndType ==
    ASSUME TypeInv, NEW m \in Mutators, PublishEnd(m)
    PROVE  TypeInv'
  <1> DEFINE tl == Tail(ready[m])
  <1>1. /\ tl \in Seq(DOMAIN events)
        /\ Len(ready[m]) \in Nat \ {0}
        /\ Len(tl) = Len(ready[m]) - 1
    BY HeadIsEvent DEF PublishEnd, TypeInv, MutatorOK
  <1>2. ready' = [ready EXCEPT ![m] = tl]
    BY DEF PublishEnd
  <1> HIDE DEF tl
  <1>3. ready' \in [Mutators -> Seq(DOMAIN events)]
    BY <1>1, <1>2 DEF TypeInv, TypeOK
  <1>4. ready'[m] = tl /\ \A n \in Mutators \ {m} : ready'[n] = ready[n]
    BY <1>2 DEF TypeInv, TypeOK
  <1>5. CASE Len(ready[m]) > 1
    <2>1. mpc' = [mpc EXCEPT ![m] = "lock"] /\ UNCHANGED <<reading, targets>>
      BY <1>5 DEF PublishEnd
    <2>2. TypeOK'
      BY <1>3, <2>1 DEF PublishEnd, TypeInv, TypeOK, MutatorPCs, storeVars, watchVars, histVars
    <2>3. tl # <<>>
      BY <1>1, <1>5, EmptySeq
    <2>4. ASSUME NEW n \in Mutators PROVE MutatorOK(n)'
      BY <1>4, <2>1, <2>3 DEF TypeInv, TypeOK, MutatorOK
    <2> QED BY <2>2, <2>4 DEF PublishEnd, TypeInv, StreamOK, watchVars
  <1>6. CASE ~(Len(ready[m]) > 1)
    <2>1. NextTarget(m)
      BY <1>6 DEF PublishEnd
    <2>2. ready'[m] = <<>>
      BY <1>1, <1>4, <1>6, EmptySeq
    <2>3. \A n \in Mutators : MutatorOK(n)'
      BY <1>4, <2>1, <2>2, NextTargetOK
    <2>4. TypeOK'
      BY <1>3, <2>1, NextTargetType DEF PublishEnd, TypeInv, TypeOK, storeVars, watchVars, histVars
    <2> QED BY <2>3, <2>4 DEF PublishEnd, TypeInv, StreamOK, watchVars
  <1> QED BY <1>5, <1>6

\* The streams: what is delivered is appended.
LEMMA DeliverType ==
    ASSUME TypeInv, NEW w \in Watchers, NEW msg \in Message, Deliver(w, msg)
    PROVE  /\ stream' \in [Watchers -> Seq(Message)]
           /\ stream'[w] = Append(stream[w], msg)
           /\ Len(stream'[w]) = Len(stream[w]) + 1 /\ Len(stream[w]) \in Nat
           /\ \A k \in 1..Len(stream[w]) : stream'[w][k] = stream[w][k]
           /\ stream'[w][Len(stream[w]) + 1] = msg
           /\ \A v \in Watchers \ {w} : stream'[v] = stream[v]
  <1>1. stream \in [Watchers -> Seq(Message)] /\ stream[w] \in Seq(Message)
    BY DEF TypeInv, TypeOK
  <1> DEFINE s == Append(stream[w], msg)
  <1>2. /\ s \in Seq(Message) /\ Len(s) = Len(stream[w]) + 1
        /\ \A k \in 1..Len(stream[w]) : s[k] = stream[w][k]
        /\ s[Len(stream[w]) + 1] = msg
    BY <1>1, AppendProperties
  <1>3. Len(stream[w]) \in Nat
    BY <1>1, LenProperties
  <1>4. stream' = [stream EXCEPT ![w] = s]
    BY DEF Deliver
  <1> HIDE DEF s
  <1>5. stream'[w] = s /\ stream' \in [Watchers -> Seq(Message)]
    BY <1>1, <1>2, <1>4
  <1>6. \A v \in Watchers \ {w} : stream'[v] = stream[v]
    BY <1>1, <1>4
  <1>7. s = Append(stream[w], msg)
    BY DEF s
  <1> QED BY <1>2, <1>3, <1>5, <1>6, <1>7

\* What a stream sends is a message.
LEMMA MessageKinds ==
    ASSUME NEW t \in Tasks, NEW v \in Nat, NEW n \in Nat
    PROVE  /\ [kind |-> "initial", task |-> t, version |-> v, sequence |-> n] \in Message
           /\ [kind |-> "event", task |-> t, version |-> v, sequence |-> n] \in Message
           /\ [kind |-> "snapshot_complete", sequence |-> n] \in Message
           /\ [kind |-> "heartbeat", sequence |-> n] \in Message
  BY DEF Message

\* Everything but the streams' own state is as it was.
LEMMA MutatorsAsTheyWere ==
    ASSUME TypeInv, UNCHANGED mutVars
    PROVE  \A m \in Mutators : MutatorOK(m)'
  BY DEF TypeInv, MutatorOK, mutVars

\* A stream subscribes.
LEMMA SubscribeType ==
    ASSUME TypeInv, NEW w \in Watchers, Subscribe(w)
    PROVE  TypeInv'
  <1>1. TypeOK'
    BY DEF Subscribe, Goto, TypeInv, TypeOK, WatcherPCs, storeVars, mutVars, histVars
  <1>2. \A v \in Watchers : StreamOK(v)'
    BY DEF Subscribe, Goto, TypeInv, TypeOK, StreamOK
  <1> QED BY <1>1, <1>2, MutatorsAsTheyWere DEF Subscribe, TypeInv

\* A stream sends its header, and begins its snapshot if it wants one.
LEMMA SendHeaderType ==
    ASSUME TypeInv, NEW w \in Watchers, SendHeader(w)
    PROVE  TypeInv'
  <1>1. /\ unlisted' \in [Watchers -> SUBSET Tasks]
        /\ wpc' \in [Watchers -> WatcherPCs]
        /\ \A v \in Watchers : wpc'[v] = "send" => wpc[v] = "send"
    <2>1. \/ unlisted' = unlisted
          \/ unlisted' = [unlisted EXCEPT ![w] = {t \in Tasks : Exists(t)}]
      BY DEF SendHeader
    <2>2. \/ wpc' = [wpc EXCEPT ![w] = "snapshot"]
          \/ wpc' = [wpc EXCEPT ![w] = "loop"]
      BY DEF SendHeader, Goto
    <2>3. {t \in Tasks : Exists(t)} \in SUBSET Tasks
      OBVIOUS
    <2>4. unlisted \in [Watchers -> SUBSET Tasks] /\ wpc \in [Watchers -> WatcherPCs]
      BY DEF TypeInv, TypeOK
    <2>5. unlisted' \in [Watchers -> SUBSET Tasks]
      BY <2>1, <2>3, <2>4
    <2> QED BY <2>2, <2>4, <2>5 DEF WatcherPCs
  <1>2. TypeOK'
    BY <1>1 DEF SendHeader, TypeInv, TypeOK, storeVars, mutVars, histVars
  <1>3. \A v \in Watchers : StreamOK(v)'
    BY <1>1 DEF SendHeader, TypeInv, StreamOK
  <1> QED BY <1>2, <1>3, MutatorsAsTheyWere DEF SendHeader, TypeInv

\* A stream sends one listed task.
LEMMA SnapshotNextType ==
    ASSUME TypeInv, NEW w \in Watchers, SnapshotNext(w)
    PROVE  TypeInv'
  <1>1. PICK t \in unlisted[w] :
           /\ unlisted' = [unlisted EXCEPT ![w] = @ \ {t}]
           /\ IF matchesFilter(w, rows[t])
              THEN /\ seq' = [seq EXCEPT ![w] = @ + 1]
                   /\ Deliver(w, [kind |-> "initial", task |-> t,
                                  version |-> rows[t].version, sequence |-> seq[w] + 1])
              ELSE UNCHANGED <<seq, stream>>
    BY DEF SnapshotNext
  <1>2. t \in Tasks /\ rows[t].version \in Nat /\ seq[w] + 1 \in Nat
    BY DEF TypeInv, TypeOK, TaskRow
  <1>3. stream' \in [Watchers -> Seq(Message)] /\ seq' \in [Watchers -> Nat]
    <2>1. CASE matchesFilter(w, rows[t])
      <3> DEFINE msg == [kind |-> "initial", task |-> t, version |-> rows[t].version,
                         sequence |-> seq[w] + 1]
      <3>1. msg \in Message
        BY <1>2, MessageKinds
      <3> HIDE DEF msg
      <3>2. seq' = [seq EXCEPT ![w] = @ + 1] /\ Deliver(w, msg)
        BY <1>1, <2>1 DEF msg
      <3>3. stream' \in [Watchers -> Seq(Message)]
        BY <3>1, <3>2, DeliverType
      <3>4. seq' \in [Watchers -> Nat]
        BY <1>2, <3>2 DEF TypeInv, TypeOK
      <3> QED BY <3>3, <3>4
    <2>2. CASE ~matchesFilter(w, rows[t])
      BY <1>1, <2>2 DEF TypeInv, TypeOK
    <2> QED BY <2>1, <2>2
  <1>4. unlisted' \in [Watchers -> SUBSET Tasks]
    BY <1>1 DEF TypeInv, TypeOK
  <1>5. TypeOK'
    BY <1>3, <1>4 DEF SnapshotNext, TypeInv, TypeOK, storeVars, mutVars, histVars
  <1>6. \A v \in Watchers : StreamOK(v)'
    BY DEF SnapshotNext, TypeInv, StreamOK
  <1> QED BY <1>5, <1>6, MutatorsAsTheyWere DEF SnapshotNext, TypeInv

\* A stream ends its snapshot.
LEMMA SnapshotCompleteType ==
    ASSUME TypeInv, NEW w \in Watchers, SnapshotComplete(w)
    PROVE  TypeInv'
  <1>1. seq[w] + 1 \in Nat /\ seq' \in [Watchers -> Nat]
    BY DEF SnapshotComplete, TypeInv, TypeOK
  <1>2. [kind |-> "snapshot_complete", sequence |-> seq[w] + 1] \in Message
    BY <1>1 DEF Message
  <1>3. stream' \in [Watchers -> Seq(Message)]
    BY <1>2, DeliverType DEF SnapshotComplete
  <1>4. TypeOK'
    BY <1>1, <1>3 DEF SnapshotComplete, Goto, TypeInv, TypeOK, WatcherPCs, storeVars,
                      mutVars, histVars
  <1>5. \A v \in Watchers : StreamOK(v)'
    BY DEF SnapshotComplete, Goto, TypeInv, TypeOK, StreamOK
  <1> QED BY <1>4, <1>5, MutatorsAsTheyWere DEF SnapshotComplete, TypeInv

\* A stream sends a heartbeat.
LEMMA HeartbeatType ==
    ASSUME TypeInv, NEW w \in Watchers, Heartbeat(w)
    PROVE  TypeInv'
  <1>1. seq[w] + 1 \in Nat /\ seq' \in [Watchers -> Nat]
    BY DEF Heartbeat, TypeInv, TypeOK
  <1>2. beats' \in [Watchers -> 0..MaxBeats]
    BY ConstantsAssumption DEF Heartbeat, TypeInv, TypeOK
  <1>3. [kind |-> "heartbeat", sequence |-> seq[w] + 1] \in Message
    BY <1>1 DEF Message
  <1>4. stream' \in [Watchers -> Seq(Message)]
    BY <1>3, DeliverType DEF Heartbeat
  <1>5. TypeOK'
    BY <1>1, <1>2, <1>4 DEF Heartbeat, TypeInv, TypeOK, storeVars, mutVars, histVars
  <1>6. \A v \in Watchers : StreamOK(v)'
    BY DEF Heartbeat, TypeInv, StreamOK
  <1> QED BY <1>5, <1>6, MutatorsAsTheyWere DEF Heartbeat, TypeInv

\* A client goes away.
LEMMA DisconnectType ==
    ASSUME TypeInv, NEW w \in Watchers, Disconnect(w)
    PROVE  TypeInv'
  <1>1. TypeOK'
    BY DEF Disconnect, Goto, TypeInv, TypeOK, WatcherPCs, storeVars, mutVars, histVars
  <1>2. \A v \in Watchers : StreamOK(v)'
    BY DEF Disconnect, Goto, TypeInv, TypeOK, StreamOK
  <1> QED BY <1>1, <1>2, MutatorsAsTheyWere DEF Disconnect, TypeInv

\* A stream leaves the bus and its channel is closed.
LEMMA LeaveType ==
    ASSUME TypeInv, NEW w \in Watchers, LeaveStep(w)
    PROVE  TypeInv'
  <1>1. wpc' = [wpc EXCEPT ![w] = "close"] \/ wpc' = [wpc EXCEPT ![w] = "ended"]
    BY DEF LeaveStep, Unsubscribe, CloseChan, Goto
  <1>2. wpc' \in [Watchers -> WatcherPCs] /\ subscribers' \subseteq Watchers
    BY <1>1 DEF LeaveStep, Unsubscribe, CloseChan, TypeInv, TypeOK, WatcherPCs
  <1>3. UNCHANGED <<storeVars, events, chan, mutVars, unlisted, seq, current, beats,
                    stream, histVars>>
    BY DEF LeaveStep, Unsubscribe, CloseChan
  <1>4. TypeOK'
    BY <1>2, <1>3 DEF TypeInv, TypeOK, storeVars, mutVars, histVars
  <1>5. \A v \in Watchers : StreamOK(v)'
    BY <1>1, <1>3 DEF TypeInv, TypeOK, StreamOK
  <1> QED BY <1>3, <1>4, <1>5, MutatorsAsTheyWere DEF TypeInv

\* The first event of a channel that is not empty.
LEMMA HeadOfChan ==
    ASSUME TypeInv, NEW w \in Watchers, chan[w] # <<>>
    PROVE  /\ Head(chan[w]) \in DOMAIN events
           /\ Tail(chan[w]) \in Seq(DOMAIN events)
           /\ Len(chan[w]) \in Nat \ {0}
           /\ Len(Tail(chan[w])) = Len(chan[w]) - 1
           /\ Head(chan[w]) = chan[w][1]
           /\ \A k \in 1..Len(chan[w]) - 1 : Tail(chan[w])[k] = chan[w][k + 1]
  <1>1. chan[w] \in Seq(DOMAIN events)
    BY DEF TypeInv, TypeOK
  <1> QED BY <1>1, SplitSeq

\* A received event gets its stream's number; no other field of it changes.
LEMMA NumberedEvents ==
    ASSUME TypeInv, NEW w \in Watchers, Receive(w)
    PROVE  /\ events' \in Seq(Event) /\ Len(events') = Len(events)
           /\ DOMAIN events' = DOMAIN events
           /\ \A e \in DOMAIN events : /\ events'[e].task = events[e].task
                                       /\ events'[e].version = events[e].version
                                       /\ events'[e].phase = events[e].phase
                                       /\ e # Head(chan[w]) => events'[e] = events[e]
           /\ events'[Head(chan[w])].sequence = seq[w] + 1
           /\ seq[w] + 1 \in Nat
  <1> DEFINE h == Head(chan[w])
             ev == [events[h] EXCEPT !.sequence = seq[w] + 1]
  <1>1. h \in DOMAIN events
    BY HeadOfChan DEF Receive
  <1>2. events \in Seq(Event) /\ Len(events) \in Nat /\ DOMAIN events = 1..Len(events)
    BY LenProperties DEF TypeInv, TypeOK
  <1>3. events[h] \in Event
    BY <1>1, <1>2, ElementOfSeq
  <1>4. seq[w] + 1 \in Nat
    BY DEF TypeInv, TypeOK
  <1>5. /\ ev \in Event /\ ev.sequence = seq[w] + 1 /\ ev.task = events[h].task
        /\ ev.version = events[h].version /\ ev.phase = events[h].phase
    BY <1>3, <1>4 DEF Event
  <1>6. events' = [events EXCEPT ![h] = ev]
    BY DEF Receive
  <1> HIDE DEF h, ev
  <1>7. events' \in Seq(Event) /\ Len(events') = Len(events)
    BY <1>1, <1>2, <1>5, <1>6, ExceptSeq
  <1>8. DOMAIN events' = DOMAIN events
    BY <1>6
  <1>9. events'[h] = ev /\ \A e \in DOMAIN events : e # h => events'[e] = events[e]
    BY <1>1, <1>6
  <1>10. \A e \in DOMAIN events : /\ events'[e].task = events[e].task
                                  /\ events'[e].version = events[e].version
                                  /\ events'[e].phase = events[e].phase
    BY <1>5, <1>9
  <1> QED BY <1>4, <1>5, <1>7, <1>8, <1>9, <1>10 DEF h

\* A stream takes an event off its channel and numbers it.
LEMMA ReceiveType ==
    ASSUME TypeInv, NEW w \in Watchers, Receive(w)
    PROVE  TypeInv'
  <1> DEFINE h == Head(chan[w])
             tl == Tail(chan[w])
  <1>1. /\ h \in DOMAIN events /\ tl \in Seq(DOMAIN events) /\ Len(tl) <= ChanCap
    <2>1. /\ h \in DOMAIN events /\ tl \in Seq(DOMAIN events) /\ Len(chan[w]) \in Nat
          /\ Len(tl) = Len(chan[w]) - 1
      BY HeadOfChan DEF Receive
    <2>2. Len(chan[w]) <= ChanCap /\ ChanCap \in Nat
      BY ConstantsAssumption DEF TypeInv, TypeOK
    <2> HIDE DEF tl
    <2> QED BY <2>1, <2>2
  <1>2. /\ chan' = [chan EXCEPT ![w] = tl] /\ current' = [current EXCEPT ![w] = h]
        /\ wpc' = [wpc EXCEPT ![w] = "send"] /\ seq' = [seq EXCEPT ![w] = @ + 1]
    BY DEF Receive, Goto
  <1>3. events' \in Seq(Event) /\ DOMAIN events' = DOMAIN events
    BY NumberedEvents
  <1> HIDE DEF h, tl
  <1>4. /\ chan' \in [Watchers -> Seq(DOMAIN events')]
        /\ \A v \in Watchers : Len(chan'[v]) <= ChanCap
    <2>1. chan \in [Watchers -> Seq(DOMAIN events)] /\ \A v \in Watchers : Len(chan[v]) <= ChanCap
      BY DEF TypeInv, TypeOK
    <2> QED BY <1>1, <1>2, <1>3, <2>1
  <1>5. /\ current' \in [Watchers -> DOMAIN events' \cup {NoEvent}]
        /\ wpc' \in [Watchers -> WatcherPCs] /\ seq' \in [Watchers -> Nat]
    <2>1. /\ current \in [Watchers -> DOMAIN events \cup {NoEvent}]
          /\ wpc \in [Watchers -> WatcherPCs] /\ seq \in [Watchers -> Nat]
      BY DEF TypeInv, TypeOK
    <2>2. current' \in [Watchers -> DOMAIN events' \cup {NoEvent}]
      BY <1>1, <1>2, <1>3, <2>1
    <2>3. wpc' \in [Watchers -> WatcherPCs]
      BY <1>2, <2>1 DEF WatcherPCs
    <2>4. seq' \in [Watchers -> Nat]
      BY <1>2, <2>1
    <2> QED BY <2>2, <2>3, <2>4
  <1>6. TypeOK'
    <2>1. /\ ready' \in [Mutators -> Seq(DOMAIN events')]
          /\ dropped' \in [Watchers -> SUBSET DOMAIN events']
      BY <1>3 DEF Receive, TypeInv, TypeOK, mutVars, histVars
    <2> QED BY <1>3, <1>4, <1>5, <2>1
            DEF Receive, TypeInv, TypeOK, storeVars, mutVars, histVars
  <1>7. \A v \in Watchers : StreamOK(v)'
    <2>1. h # NoEvent
      <3>1. events \in Seq(Event)
        BY DEF TypeInv, TypeOK
      <3>2. DOMAIN events = 1..Len(events)
        BY <3>1, LenProperties
      <3> QED BY <1>1, <3>2 DEF NoEvent
    <2> QED BY <1>2, <2>1 DEF TypeInv, TypeOK, StreamOK
  <1> QED BY <1>6, <1>7, MutatorsAsTheyWere DEF Receive, TypeInv

\* A stream sends the event it has numbered.
LEMMA SendType ==
    ASSUME TypeInv, NEW w \in Watchers, Send(w)
    PROVE  TypeInv'
  <1> DEFINE e == events[current[w]]
  <1>1. current[w] \in DOMAIN events
    BY DEF Send, TypeInv, TypeOK, StreamOK
  <1>2. e \in Event
    BY <1>1, ElementOfSeq, LenProperties DEF TypeInv, TypeOK
  <1>3. Deliver(w, [kind |-> "event", task |-> e.task, version |-> e.version,
                    sequence |-> e.sequence])
    BY DEF Send
  <1>4. stream' \in [Watchers -> Seq(Message)]
    BY <1>2, <1>3, MessageKinds, DeliverType DEF Event
  <1>5. /\ current' = [current EXCEPT ![w] = NoEvent]
        /\ wpc' = [wpc EXCEPT ![w] = "loop"]
    BY DEF Send, Goto
  <1>6. TypeOK'
    BY <1>4, <1>5 DEF Send, TypeInv, TypeOK, WatcherPCs, storeVars, mutVars, histVars
  <1>7. \A v \in Watchers : StreamOK(v)'
    BY <1>5 DEF TypeInv, TypeOK, StreamOK
  <1> QED BY <1>6, <1>7, MutatorsAsTheyWere DEF Send, TypeInv

\* Every step of every process keeps the types.
LEMMA TypeStep == TypeInv /\ [Next]_vars => TypeInv'
  <1> SUFFICES ASSUME TypeInv, [Next]_vars PROVE TypeInv'
    OBVIOUS
  <1>1. ASSUME NEW m \in Mutators, NEW mu \in Mutations, Commit(m, mu) PROVE TypeInv'
    BY <1>1, CommitType
  <1>2. ASSUME NEW m \in Mutators, MutatorStep(m) PROVE TypeInv'
    BY <1>2, ReadBackType, ReadFailsType, PublishBeginType, PublishEndType, PublishToType
       DEF MutatorStep
  <1>3. ASSUME NEW w \in Watchers, ServeStep(w) PROVE TypeInv'
    BY <1>3, SendHeaderType, SnapshotNextType, SnapshotCompleteType, ReceiveType, SendType
       DEF ServeStep
  <1>4. ASSUME NEW w \in Watchers, Subscribe(w) \/ Heartbeat(w) \/ Disconnect(w)
                                  \/ LeaveStep(w)
        PROVE TypeInv'
    BY <1>4, SubscribeType, HeartbeatType, DisconnectType, LeaveType
  <1>5. CASE UNCHANGED vars
    BY <1>5 DEF vars, TypeInv, TypeOK, MutatorOK, StreamOK
  <1> QED BY <1>1, <1>2, <1>3, <1>4, <1>5 DEF Next

\* The variables of the bus, of the RPCs and of the streams have their types:
\* every number in a channel is that of an event object that has been built,
\* and no channel holds more than its capacity.
THEOREM TypeCorrect == Spec => []TypeOK
  <1>1. Spec => []TypeInv
    BY TypeInvInit, TypeStep, PTL DEF Spec
  <1> QED BY <1>1, PTL DEF TypeInv

-----------------------------------------------------------------------------
(* The bus: nothing is sent on a closed channel *)

\* A Publish visits subscribers only, and only while it holds the read lock; a
\* stream subscribes before its header and is subscribed until the map delete.
OnBus(w) == wpc[w] \in {"header", "snapshot", "loop", "send", "leave"}

BusInv ==
    /\ \A m \in Mutators, w \in Watchers :
          w \in left[m] => mpc[m] = "send" /\ w \in subscribers
    /\ \A w \in Watchers : w \in subscribers <=> OnBus(w)

\* At the start nobody is on the bus.
LEMMA BusInit == Init => BusInv
  BY DEF Init, BusInv, OnBus

\* The RPCs take and release the read lock.
LEMMA BusMutators ==
    ASSUME TypeInv, BusInv, NEW m \in Mutators,
           MutatorStep(m) \/ \E mu \in Mutations : Commit(m, mu)
    PROVE  BusInv'
  <1>1. subscribers' = subscribers /\ wpc' = wpc
    BY DEF MutatorStep, Commit, ReadBack, ReadFails, PublishBegin, PublishTo, PublishEnd,
           watchVars
  <1>2. CASE PublishBegin(m)
    BY <1>1, <1>2 DEF PublishBegin, TypeInv, TypeOK, BusInv, OnBus
  <1>3. CASE \E w \in Watchers : PublishTo(m, w)
    <2>1. PICK w \in Watchers : PublishTo(m, w)
      BY <1>3
    <2>2. left' = [left EXCEPT ![m] = @ \ {w}] /\ mpc' = mpc
      BY <2>1 DEF PublishTo
    <2> QED BY <1>1, <2>2 DEF TypeInv, TypeOK, BusInv, OnBus
  <1>4. CASE PublishEnd(m)
    <2>1. left' = left /\ left[m] = {}
      BY <1>4 DEF PublishEnd
    <2>2. \A n \in Mutators \ {m} : mpc'[n] = mpc[n]
      BY <1>4, NextTargetType DEF PublishEnd, TypeInv, TypeOK
    <2> QED BY <1>1, <2>1, <2>2 DEF BusInv, OnBus
  <1>5. CASE ReadBack(m) \/ ReadFails(m) \/ \E mu \in Mutations : Commit(m, mu)
    <2>1. left' = left /\ mpc[m] # "send"
      BY <1>5 DEF ReadBack, ReadFails, Commit
    <2>2. \A n \in Mutators \ {m} : mpc'[n] = mpc[n]
      BY <1>5, NextTargetType DEF ReadBack, ReadFails, Commit, TypeInv, TypeOK
    <2> QED BY <1>1, <2>1, <2>2 DEF BusInv, OnBus
  <1> QED BY <1>2, <1>3, <1>4, <1>5 DEF MutatorStep

\* The streams come and go; only Unsubscribe takes one off the bus, and it has
\* excluded every Publish.
LEMMA BusStreams ==
    ASSUME TypeInv, BusInv, NEW w \in Watchers,
           \/ Subscribe(w) \/ ServeStep(w) \/ Heartbeat(w) \/ Disconnect(w) \/ LeaveStep(w)
    PROVE  BusInv'
  <1>1. left' = left /\ mpc' = mpc
    BY DEF Subscribe, ServeStep, Heartbeat, Disconnect, LeaveStep, SendHeader, SnapshotNext,
           SnapshotComplete, Receive, Send, Unsubscribe, CloseChan, mutVars
  <1>2. CASE Subscribe(w)
    BY <1>1, <1>2 DEF Subscribe, Goto, TypeInv, TypeOK, BusInv, OnBus
  <1>3. CASE Unsubscribe(w)
    <2>1. \A m \in Mutators : left[m] = {}
      BY <1>3 DEF Unsubscribe, WriteLock, Readers, BusInv, TypeInv, TypeOK
    <2> QED BY <1>1, <1>3, <2>1 DEF Unsubscribe, Goto, TypeInv, TypeOK, BusInv, OnBus
  <1>4. CASE CloseChan(w)
    BY <1>1, <1>4 DEF CloseChan, Goto, TypeInv, TypeOK, BusInv, OnBus
  <1>5. CASE ServeStep(w) \/ Heartbeat(w) \/ Disconnect(w)
    <2>1. subscribers' = subscribers
      BY <1>5 DEF ServeStep, Heartbeat, Disconnect, SendHeader, SnapshotNext,
                  SnapshotComplete, Receive, Send
    <2>2. \/ wpc' = wpc
          \/ \E next \in {"snapshot", "loop", "send", "leave"} :
                OnBus(w) /\ wpc' = [wpc EXCEPT ![w] = next]
      BY <1>5 DEF ServeStep, Heartbeat, Disconnect, SendHeader, SnapshotNext,
                  SnapshotComplete, Receive, Send, Goto, OnBus
    <2> QED BY <1>1, <2>1, <2>2 DEF TypeInv, TypeOK, BusInv, OnBus
  <1> QED BY <1>2, <1>3, <1>4, <1>5 DEF LeaveStep

\* Every step keeps the bus's books.
LEMMA BusStep == TypeInv /\ BusInv /\ [Next]_vars => BusInv'
  <1> SUFFICES ASSUME TypeInv, BusInv, [Next]_vars PROVE BusInv'
    OBVIOUS
  <1>1. CASE UNCHANGED vars
    BY <1>1 DEF vars, BusInv, OnBus
  <1> QED BY <1>1, BusMutators, BusStreams DEF Next

\* Publish never sends on a closed channel, however many RPCs publish and
\* however many streams come and go: close comes after the map delete, the
\* delete waits for every Publish, and a Publish visits subscribers only.
THEOREM NeverSendsOnClosed == Spec => []NoSendOnClosed
  <1>1. Spec => [](TypeInv /\ BusInv)
    BY TypeInvInit, TypeStep, BusInit, BusStep, PTL DEF Spec
  <1>2. BusInv => NoSendOnClosed
    BY DEF BusInv, OnBus, NoSendOnClosed
  <1> QED BY <1>1, <1>2, PTL

-----------------------------------------------------------------------------
(* Sequence numbers *)

\* The event objects are shared, and a stream numbers an event in the object
\* itself.  Streams that ask for different tasks share no event.
Disjoint == \A v, w \in Watchers : v # w => Filter[v] \cap Filter[w] = {}

\* A stream holds events of its filter only; its counter is the number of the
\* messages it has delivered, one ahead while it sends, and what it sends
\* still carries that number.
Wanted(w, e) == matchesFilter(w, events[e])

Counted(w) ==
    /\ wpc[w] \in {"idle", "header", "snapshot", "loop"} => Len(stream[w]) = seq[w]
    /\ wpc[w] = "send" => /\ Len(stream[w]) + 1 = seq[w]
                          /\ events[current[w]].sequence = seq[w]

SeqOK(w) ==
    /\ \A k \in DOMAIN chan[w] : Wanted(w, chan[w][k])
    /\ wpc[w] = "send" => Wanted(w, current[w])
    /\ Counted(w)
    /\ \A k \in DOMAIN stream[w] : stream[w][k].sequence = k

SeqInv == \A w \in Watchers : SeqOK(w)

\* At the start nothing is sent.
LEMMA SeqInit == Init => SeqInv
  <1> SUFFICES ASSUME Init, NEW w \in Watchers PROVE SeqOK(w)
    BY DEF SeqInv
  <1>1. chan[w] = <<>> /\ stream[w] = <<>> /\ wpc[w] = "idle" /\ seq[w] = 0
    BY DEF Init
  <1>2. DOMAIN chan[w] = {} /\ DOMAIN stream[w] = {} /\ Len(stream[w]) = 0
    BY <1>1
  <1> QED BY <1>1, <1>2 DEF SeqOK, Counted

\* A stream that is left alone keeps its numbers if its events keep theirs.
LEMMA SeqAlone ==
    ASSUME TypeInv, NEW w \in Watchers, SeqOK(w),
           chan'[w] = chan[w], wpc'[w] = wpc[w] \/ wpc'[w] \in {"leave", "close", "ended"},
           seq'[w] = seq[w], current'[w] = current[w], stream'[w] = stream[w],
           \A e \in DOMAIN events : events'[e].phase = events[e].phase,
           wpc[w] = "send" => events'[current[w]].sequence = events[current[w]].sequence
    PROVE  SeqOK(w)'
  <1>1. \A k \in DOMAIN chan[w] : chan[w][k] \in DOMAIN events
    BY ElementOfSeq, LenProperties DEF TypeInv, TypeOK
  <1>2. wpc[w] = "send" => current[w] \in DOMAIN events
    BY DEF TypeInv, TypeOK, StreamOK
  <1>3. \A k \in DOMAIN chan'[w] : Wanted(w, chan[w][k])'
    BY <1>1 DEF SeqOK, Wanted, matchesFilter
  <1>4. wpc'[w] = "send" => Wanted(w, current[w])'
    BY <1>2 DEF SeqOK, Wanted, matchesFilter
  <1>5. Counted(w)'
    BY DEF SeqOK, Counted
  <1> QED BY <1>3, <1>4, <1>5 DEF SeqOK, Wanted

\* A stream that delivers a message with the next number.
LEMMA SeqDeliver ==
    ASSUME TypeInv, NEW w \in Watchers, SeqOK(w), NEW msg \in Message, Deliver(w, msg),
           msg.sequence = Len(stream[w]) + 1
    PROVE  \A k \in DOMAIN stream'[w] : stream'[w][k].sequence = k
  <1>1. stream[w] \in Seq(Message) /\ stream'[w] \in Seq(Message)
    BY DeliverType DEF TypeInv, TypeOK
  <1>2. /\ DOMAIN stream[w] = 1..Len(stream[w]) /\ DOMAIN stream'[w] = 1..Len(stream'[w])
        /\ Len(stream[w]) \in Nat /\ Len(stream'[w]) = Len(stream[w]) + 1
    BY <1>1, DeliverType, LenProperties
  <1>3. ASSUME NEW k \in 1..Len(stream[w]) PROVE stream'[w][k].sequence = k
    BY <1>2, DeliverType DEF SeqOK
  <1>4. stream'[w][Len(stream[w]) + 1].sequence = Len(stream[w]) + 1
    BY DeliverType
  <1>5. DOMAIN stream'[w] = 1..Len(stream[w]) \cup {Len(stream[w]) + 1}
    BY <1>2
  <1> QED BY <1>3, <1>4, <1>5

\* An RPC numbers nothing; it may only put an event of the filter into a channel.
LEMMA SeqMutators ==
    ASSUME TypeInv, SeqInv, NEW m \in Mutators,
           MutatorStep(m) \/ \E mu \in Mutations : Commit(m, mu)
    PROVE  SeqInv'
  <1>1. wpc' = wpc /\ seq' = seq /\ current' = current /\ stream' = stream
    BY DEF MutatorStep, Commit, ReadBack, ReadFails, PublishBegin, PublishTo, PublishEnd,
           watchVars
  <1>2. \A e \in DOMAIN events : events'[e] = events[e]
    <2>1. CASE ReadBack(m)
      <3>1. PICK ev : events' = Append(events, ev)
        BY <2>1 DEF ReadBack
      <3>2. events \in Seq(Event)
        BY DEF TypeInv, TypeOK
      <3> QED BY <3>1, <3>2
    <2>2. CASE ~ReadBack(m)
      BY <2>2 DEF MutatorStep, Commit, ReadFails, PublishBegin, PublishTo, PublishEnd
    <2> QED BY <2>1, <2>2
  <1>3. SUFFICES ASSUME NEW w \in Watchers PROVE SeqOK(w)'
    BY DEF SeqInv
  <1>4. SeqOK(w)
    BY DEF SeqInv
  <1>5. wpc[w] = "send" => current[w] \in DOMAIN events
    BY DEF TypeInv, TypeOK, StreamOK
  <1>6. CASE chan'[w] = chan[w]
    BY <1>1, <1>2, <1>4, <1>5, <1>6, SeqAlone
  <1>7. CASE chan'[w] # chan[w]
    <2>1. /\ mpc[m] = "send" /\ matchesFilter(w, events[Head(ready[m])])
          /\ chan'[w] = Append(chan[w], Head(ready[m])) /\ events' = events
      BY <1>7 DEF MutatorStep, Commit, ReadBack, ReadFails, PublishBegin, PublishTo, PublishEnd,
                  TypeInv, TypeOK
    <2>2. chan[w] \in Seq(DOMAIN events) /\ Head(ready[m]) \in DOMAIN events
      BY <2>1, HeadIsEvent DEF TypeInv, TypeOK, MutatorOK
    <2>3. ASSUME NEW k \in DOMAIN chan'[w] PROVE Wanted(w, chan[w][k])'
      <3>1. /\ Len(chan[w]) \in Nat /\ DOMAIN chan[w] = 1..Len(chan[w])
            /\ DOMAIN chan'[w] = 1..Len(chan[w]) + 1
            /\ chan'[w][Len(chan[w]) + 1] = Head(ready[m])
            /\ \A j \in 1..Len(chan[w]) : chan'[w][j] = chan[w][j]
        BY <2>1, <2>2, AppendProperties, LenProperties
      <3>2. CASE k = Len(chan[w]) + 1
        BY <2>1, <3>1, <3>2 DEF Wanted, matchesFilter
      <3>3. CASE k \in 1..Len(chan[w])
        BY <1>4, <2>1, <3>1, <3>3 DEF SeqOK, Wanted, matchesFilter
      <3> QED BY <3>1, <3>2, <3>3
    <2>4. wpc'[w] = "send" => Wanted(w, current[w])'
      BY <1>1, <1>4, <2>1 DEF SeqOK, Wanted, matchesFilter
    <2>5. Counted(w)'
      BY <1>1, <1>4, <2>1 DEF SeqOK, Counted
    <2>6. \A k \in DOMAIN stream'[w] : stream'[w][k].sequence = k
      BY <1>1, <1>4 DEF SeqOK
    <2> QED BY <2>3, <2>4, <2>5, <2>6 DEF SeqOK
  <1> QED BY <1>6, <1>7

\* What a stream does leaves the others' numbers alone: the event it numbers is
\* not one that another stream is sending.
LEMMA SeqOthers ==
    ASSUME Disjoint, TypeInv, SeqInv, NEW w \in Watchers, NEW v \in Watchers \ {w},
           Subscribe(w) \/ ServeStep(w) \/ Heartbeat(w) \/ Disconnect(w) \/ LeaveStep(w)
    PROVE  SeqOK(v)'
  <1>1. SeqOK(v) /\ SeqOK(w) /\ v \in Watchers
    BY DEF SeqInv
  <1>2. chan'[v] = chan[v] /\ wpc'[v] = wpc[v] /\ seq'[v] = seq[v] /\ current'[v] = current[v]
    BY DEF Subscribe, ServeStep, Heartbeat, Disconnect, LeaveStep, SendHeader, SnapshotNext,
           SnapshotComplete, Receive, Send, Unsubscribe, CloseChan, Goto, TypeInv, TypeOK
  <1>3. stream'[v] = stream[v]
    BY DEF Subscribe, ServeStep, Heartbeat, Disconnect, LeaveStep, SendHeader, SnapshotNext,
           SnapshotComplete, Receive, Send, Unsubscribe, CloseChan, Deliver, TypeInv, TypeOK
  <1>4. CASE Receive(w)
    <2>1. chan[w] # <<>>
      BY <1>4 DEF Receive
    <2>2. 1 \in DOMAIN chan[w] /\ Head(chan[w]) = chan[w][1]
      BY <2>1, HeadOfChan, LenProperties DEF TypeInv, TypeOK
    <2>3. wpc[v] = "send" => current[v] # Head(chan[w])
      BY <1>1, <2>2 DEF SeqOK, Wanted, matchesFilter, Disjoint
    <2>4. wpc[v] = "send" => current[v] \in DOMAIN events
      BY DEF TypeInv, TypeOK, StreamOK
    <2>5. \A e \in DOMAIN events : /\ events'[e].phase = events[e].phase
                                   /\ e # Head(chan[w]) => events'[e] = events[e]
      BY <1>4, NumberedEvents
    <2> QED BY <1>1, <1>2, <1>3, <2>3, <2>4, <2>5, SeqAlone
  <1>5. CASE ~Receive(w)
    <2>1. events' = events
      BY <1>5 DEF Subscribe, ServeStep, Heartbeat, Disconnect, LeaveStep, SendHeader,
             SnapshotNext, SnapshotComplete, Send, Unsubscribe, CloseChan
    <2> QED BY <1>1, <1>2, <1>3, <2>1, SeqAlone
  <1> QED BY <1>4, <1>5

\* What a stream delivers or takes off its channel gets the next number.
LEMMA SeqOwn ==
    ASSUME TypeInv, SeqInv, NEW w \in Watchers,
           Subscribe(w) \/ ServeStep(w) \/ Heartbeat(w) \/ Disconnect(w) \/ LeaveStep(w)
    PROVE  SeqOK(w)'
  <1> DEFINE quiet == /\ chan'[w] = chan[w] /\ events' = events
                      /\ current' = current /\ wpc'[w] # "send"
  <1>1. SeqOK(w)
    BY DEF SeqInv
  <1>2. ASSUME quiet, NEW msg \in Message, Deliver(w, msg), seq' = [seq EXCEPT ![w] = @ + 1],
               msg.sequence = seq[w] + 1, wpc[w] \in {"idle", "header", "snapshot", "loop"}
        PROVE  SeqOK(w)'
    <2>1. Len(stream[w]) = seq[w] /\ seq'[w] = seq[w] + 1
      BY <1>1, <1>2 DEF SeqOK, Counted, TypeInv, TypeOK
    <2>2. \A k \in DOMAIN stream'[w] : stream'[w][k].sequence = k
      BY <1>1, <1>2, <2>1, SeqDeliver
    <2>3. Len(stream'[w]) = seq'[w]
      BY <1>2, <2>1, DeliverType
    <2>4. Counted(w)'
      BY <1>2, <2>3 DEF Counted
    <2> QED BY <1>1, <1>2, <2>2, <2>4 DEF SeqOK, Wanted
  <1>3. ASSUME quiet, stream' = stream, seq' = seq,
               wpc'[w] \in {"idle", "header", "snapshot", "loop"} =>
                   wpc[w] \in {"idle", "header", "snapshot", "loop"}
        PROVE  SeqOK(w)'
    BY <1>1, <1>3 DEF SeqOK, Counted, Wanted
  <1>4. CASE Subscribe(w) \/ SendHeader(w) \/ Disconnect(w) \/ LeaveStep(w)
    BY <1>3, <1>4 DEF Subscribe, SendHeader, Disconnect, LeaveStep, Unsubscribe, CloseChan,
                      Goto, TypeInv, TypeOK
  <1>5. CASE SnapshotNext(w)
    <2>1. PICK t \in unlisted[w] :
            IF matchesFilter(w, rows[t])
            THEN /\ seq' = [seq EXCEPT ![w] = @ + 1]
                 /\ Deliver(w, [kind |-> "initial", task |-> t,
                                version |-> rows[t].version, sequence |-> seq[w] + 1])
            ELSE UNCHANGED <<seq, stream>>
      BY <1>5 DEF SnapshotNext
    <2>2. t \in Tasks /\ rows[t].version \in Nat /\ seq[w] + 1 \in Nat
      BY DEF TypeInv, TypeOK, TaskRow
    <2>3. quiet /\ wpc' = wpc /\ wpc[w] = "snapshot"
      BY <1>5 DEF SnapshotNext
    <2>4. CASE matchesFilter(w, rows[t])
      <3> DEFINE msg == [kind |-> "initial", task |-> t, version |-> rows[t].version,
                         sequence |-> seq[w] + 1]
      <3>1. msg \in Message /\ msg.sequence = seq[w] + 1
        BY <2>2, MessageKinds
      <3>2. Deliver(w, msg) /\ seq' = [seq EXCEPT ![w] = @ + 1]
        BY <2>1, <2>4
      <3> HIDE DEF msg, quiet
      <3> QED BY <1>2, <2>3, <3>1, <3>2
    <2>5. CASE ~matchesFilter(w, rows[t])
      BY <1>3, <2>1, <2>3, <2>5
    <2> QED BY <2>4, <2>5
  <1>6. CASE SnapshotComplete(w)
    <2> DEFINE msg == [kind |-> "snapshot_complete", sequence |-> seq[w] + 1]
    <2>1. msg \in Message /\ msg.sequence = seq[w] + 1
      BY DEF Message, TypeInv, TypeOK
    <2>2. /\ quiet /\ wpc[w] = "snapshot" /\ Deliver(w, msg)
          /\ seq' = [seq EXCEPT ![w] = @ + 1]
      BY <1>6 DEF SnapshotComplete, Goto, TypeInv, TypeOK
    <2> HIDE DEF msg, quiet
    <2> QED BY <1>2, <2>1, <2>2
  <1>7. CASE Heartbeat(w)
    <2> DEFINE msg == [kind |-> "heartbeat", sequence |-> seq[w] + 1]
    <2>1. msg \in Message /\ msg.sequence = seq[w] + 1
      BY DEF Message, TypeInv, TypeOK
    <2>2. /\ quiet /\ wpc[w] = "loop" /\ Deliver(w, msg)
          /\ seq' = [seq EXCEPT ![w] = @ + 1]
      BY <1>7 DEF Heartbeat
    <2> HIDE DEF msg, quiet
    <2> QED BY <1>2, <2>1, <2>2
  <1>8. CASE Receive(w)
    <2>1. /\ wpc[w] = "loop" /\ wpc'[w] = "send" /\ stream' = stream /\ chan[w] # <<>>
          /\ seq'[w] = seq[w] + 1 /\ current'[w] = Head(chan[w])
          /\ chan'[w] = Tail(chan[w])
      BY <1>8 DEF Receive, Goto, TypeInv, TypeOK
    <2>2. /\ \A e \in DOMAIN events : events'[e].phase = events[e].phase
          /\ events'[Head(chan[w])].sequence = seq[w] + 1
      BY <1>8, NumberedEvents
    <2>3. /\ Head(chan[w]) \in DOMAIN events /\ Head(chan[w]) = chan[w][1]
          /\ \A k \in 1..Len(chan[w]) - 1 : chan'[w][k] = chan[w][k + 1]
          /\ Len(chan[w]) \in Nat \ {0} /\ DOMAIN chan[w] = 1..Len(chan[w])
          /\ DOMAIN chan'[w] = 1..Len(chan[w]) - 1
          /\ \A k \in DOMAIN chan[w] : chan[w][k] \in DOMAIN events
      <3>1. chan[w] \in Seq(DOMAIN events)
        BY DEF TypeInv, TypeOK
      <3> QED BY <2>1, <3>1, HeadOfChan, LenProperties, ElementOfSeq
    <2>4. ASSUME NEW k \in DOMAIN chan'[w] PROVE Wanted(w, chan[w][k])'
      <3>1. k + 1 \in DOMAIN chan[w] /\ chan'[w][k] = chan[w][k + 1]
        BY <2>3
      <3>2. Wanted(w, chan[w][k + 1]) /\ chan[w][k + 1] \in DOMAIN events
        BY <1>1, <2>3, <3>1 DEF SeqOK
      <3> QED BY <2>2, <3>1, <3>2 DEF Wanted, matchesFilter
    <2>5. Wanted(w, current[w])'
      BY <1>1, <2>1, <2>2, <2>3 DEF SeqOK, Wanted, matchesFilter
    <2>6. Counted(w)'
      BY <1>1, <2>1, <2>2 DEF SeqOK, Counted
    <2> QED BY <1>1, <2>1, <2>4, <2>5, <2>6 DEF SeqOK
  <1>9. CASE Send(w)
    <2> DEFINE e == events[current[w]]
               msg == [kind |-> "event", task |-> e.task, version |-> e.version,
                       sequence |-> e.sequence]
    <2>1. e \in Event
      BY <1>9, ElementOfSeq, LenProperties DEF Send, TypeInv, TypeOK, StreamOK
    <2>2. msg \in Message /\ msg.sequence = e.sequence
      BY <2>1, MessageKinds DEF Event
    <2>3. Deliver(w, msg) /\ wpc[w] = "send" /\ wpc'[w] = "loop" /\ seq' = seq
          /\ chan' = chan /\ events' = events
      BY <1>9 DEF Send, Goto, TypeInv, TypeOK
    <2>4. e.sequence = seq[w] /\ Len(stream[w]) + 1 = seq[w]
      BY <1>1, <2>3 DEF SeqOK, Counted
    <2> HIDE DEF msg, e
    <2>5. \A k \in DOMAIN stream'[w] : stream'[w][k].sequence = k
      BY <1>1, <2>2, <2>3, <2>4, SeqDeliver
    <2>6. Len(stream'[w]) = seq'[w]
      BY <2>2, <2>3, <2>4, DeliverType
    <2> QED BY <1>1, <2>3, <2>5, <2>6 DEF SeqOK, Counted, Wanted
  <1> QED BY <1>4, <1>5, <1>6, <1>7, <1>8, <1>9 DEF ServeStep

\* Every step keeps the numbers of every stream.
LEMMA SeqStep == Disjoint /\ TypeInv /\ SeqInv /\ [Next]_vars => SeqInv'
  <1> SUFFICES ASSUME Disjoint, TypeInv, SeqInv, [Next]_vars PROVE SeqInv'
    OBVIOUS
  <1>1. CASE UNCHANGED vars
    BY <1>1 DEF vars, SeqInv, SeqOK, Counted, Wanted
  <1>2. ASSUME NEW w \in Watchers,
               \/ Subscribe(w) \/ ServeStep(w) \/ Heartbeat(w) \/ Disconnect(w)
               \/ LeaveStep(w)
        PROVE  SeqInv'
    BY <1>2, SeqOwn, SeqOthers DEF SeqInv
  <1> QED BY <1>1, <1>2, SeqMutators DEF Next

\* The k-th message of every stream carries number k, whatever the RPCs do and
\* however the streams interleave, if no two streams ask for the same task.
\* The condition is needed: two streams of one task number one object, and each
\* may send the other's number.
THEOREM NumbersHaveNoGap == ASSUME Disjoint PROVE Spec => []SequenceGapless
  <1>1. Disjoint
    OBVIOUS
  <1>2. Init => TypeInv /\ SeqInv
    BY TypeInvInit, SeqInit
  <1>3. TypeInv /\ SeqInv /\ [Next]_vars => (TypeInv /\ SeqInv)'
    BY <1>1, TypeStep, SeqStep
  <1>4. TypeInv /\ SeqInv => SequenceGapless
    BY DEF SeqInv, SeqOK, SequenceGapless
  <1> QED BY <1>2, <1>3, <1>4, PTL DEF Spec

-----------------------------------------------------------------------------
(* Delivery: nothing falls between the snapshot and the events *)

\* An event object says what the stored row says, or something older; of the
\* same version it also has the row's phase.
EventsInv ==
    \A e \in DOMAIN events :
        /\ events[e].version <= rows[events[e].task].version
        /\ events[e].version = rows[events[e].task].version =>
              events[e].phase = rows[events[e].task].phase

\* An RPC that reads its rows back has built an event from each row so far, of
\* the version it has written or of a later one.
ReadInv(m) ==
    mpc[m] = "read" =>
        /\ \A k \in DOMAIN reading[m] :
              reading[m][k][2] <= rows[reading[m][k][1]].version
        /\ \A k \in DOMAIN ready[m] :
              /\ events[ready[m][k]].task = reading[m][k][1]
              /\ events[ready[m][k]].version >= reading[m][k][2]

\* What is stored of a task, as a message or an event tells it.
SaysStored(x, t) == x.task = t /\ x.version = rows[t].version

\* The ways in which the stored version of a task reaches a stream, in the
\* order in which it takes them.
ToBeRead(m, t) == mpc[m] = "read" /\ <<t, rows[t].version>> \in Range(reading[m])

ToBePublished(m, w, t) ==
    \E k \in DOMAIN ready[m] :
        /\ SaysStored(events[ready[m][k]], t)
        /\ mpc[m] = "lock" \/ (mpc[m] = "send" /\ (k = 1 => w \in left[m]))

InChan(w, t) == \E k \in DOMAIN chan[w] : SaysStored(events[chan[w][k]], t)

InHand(w, t) == wpc[w] = "send" /\ SaysStored(events[current[w]], t)

InStream(w, t) == \E k \in DOMAIN stream[w] :
                      /\ stream[w][k].kind \in {"initial", "event"}
                      /\ SaysStored(stream[w][k], t)

ToBeListed(w, t) == wpc[w] = "snapshot" /\ t \in unlisted[w]

Coming(m, w, t) == ToBeRead(m, t) \/ ToBePublished(m, w, t)

AtStream(w, t) == InChan(w, t) \/ InHand(w, t) \/ InStream(w, t) \/ ToBeListed(w, t)

OnItsWay(w, t) == (\E m \in Mutators : Coming(m, w, t)) \/ AtStream(w, t)

\* A stream with a snapshot is owed every stored task of its filter, unless it
\* has lost an event or the version could not be read back.
OwedTo(w, t) ==
    /\ w \in IncludeInitial /\ wpc[w] \in {"snapshot", "loop", "send"} /\ dropped[w] = {}
    /\ Exists(t) /\ matchesFilter(w, rows[t]) /\ <<t, rows[t].version>> \notin unpublished

DebtInv == \A w \in Watchers, t \in Tasks : OwedTo(w, t) => OnItsWay(w, t)

RowsInv == EventsInv /\ \A m \in Mutators : ReadInv(m)

DeliveryInv == RowsInv /\ DebtInv

\* At the start no stream is owed anything.
LEMMA DeliveryInit == Init => DeliveryInv
  <1> SUFFICES ASSUME Init PROVE DeliveryInv
    OBVIOUS
  <1>1. DOMAIN events = {}
    BY DEF Init
  <1>2. \A m \in Mutators : mpc[m] = "idle"
    BY DEF Init
  <1>3. \A w \in Watchers : wpc[w] = "idle"
    BY DEF Init
  <1> QED BY <1>1, <1>2, <1>3 DEF DeliveryInv, RowsInv, DebtInv, EventsInv, ReadInv, OwedTo

\* An event object keeps its task, its version and its phase.
EventsKept ==
    /\ DOMAIN events \subseteq DOMAIN events'
    /\ \A e \in DOMAIN events : /\ events'[e].task = events[e].task
                                /\ events'[e].version = events[e].version
                                /\ events'[e].phase = events[e].phase

\* No step takes away or rewrites what an event object says of a task.
LEMMA EventsAreKept == TypeInv /\ [Next]_vars => EventsKept
  <1> SUFFICES ASSUME TypeInv, [Next]_vars PROVE EventsKept
    OBVIOUS
  <1>1. CASE events' = events
    BY <1>1 DEF EventsKept
  <1>2. ASSUME NEW m \in Mutators, ReadBack(m) PROVE EventsKept
    <2>1. PICK ev : events' = Append(events, ev)
      BY <1>2 DEF ReadBack
    <2>2. events \in Seq(Event)
      BY DEF TypeInv, TypeOK
    <2> QED BY <2>1, <2>2 DEF EventsKept
  <1>3. ASSUME NEW w \in Watchers, Receive(w) PROVE EventsKept
    BY <1>3, NumberedEvents DEF EventsKept
  <1>4. \/ events' = events
        \/ \E m \in Mutators : ReadBack(m)
        \/ \E w \in Watchers : Receive(w)
    BY DEF Next, MutatorStep, Commit, ReadFails, PublishBegin, PublishTo, PublishEnd,
           Subscribe, ServeStep, Heartbeat, Disconnect, LeaveStep, SendHeader, SnapshotNext,
           SnapshotComplete, Send, Unsubscribe, CloseChan, vars
  <1> QED BY <1>1, <1>2, <1>3, <1>4

\* The facts about sequences of event objects that the steps below use.
LEMMA EventIndices ==
    ASSUME TypeInv
    PROVE  /\ \A e \in DOMAIN events : events[e] \in Event
           /\ \A w \in Watchers : \A k \in DOMAIN chan[w] : chan[w][k] \in DOMAIN events
           /\ \A m \in Mutators : \A k \in DOMAIN ready[m] : ready[m][k] \in DOMAIN events
           /\ \A m \in Mutators : \A k \in DOMAIN reading[m] : reading[m][k] \in Tasks \X Nat
           /\ \A w \in Watchers : wpc[w] = "send" => current[w] \in DOMAIN events
  <1>1. \A e \in DOMAIN events : events[e] \in Event
    BY ElementOfSeq, LenProperties DEF TypeInv, TypeOK
  <1>2. \A w \in Watchers : \A k \in DOMAIN chan[w] : chan[w][k] \in DOMAIN events
    BY ElementOfSeq, LenProperties DEF TypeInv, TypeOK
  <1>3. \A m \in Mutators : \A k \in DOMAIN ready[m] : ready[m][k] \in DOMAIN events
    BY ElementOfSeq, LenProperties DEF TypeInv, TypeOK
  <1>4. \A m \in Mutators : \A k \in DOMAIN reading[m] : reading[m][k] \in Tasks \X Nat
    BY ElementOfSeq, LenProperties DEF TypeInv, TypeOK
  <1>5. \A w \in Watchers : wpc[w] = "send" => current[w] \in DOMAIN events
    BY DEF TypeInv, TypeOK, StreamOK
  <1> QED BY <1>1, <1>2, <1>3, <1>4, <1>5

\* A commit only makes rows newer.
LEMMA CommitRows ==
    ASSUME TypeInv, NEW m \in Mutators, NEW mu \in Mutations, Commit(m, mu), NEW t \in Tasks
    PROVE  /\ rows[t].version \in Nat /\ rows'[t].version \in Nat
           /\ \/ rows'[t] = rows[t] /\ t \notin Range(mu.creates \o mu.updates)
              \/ rows'[t].version = rows[t].version + 1 /\ ToBeRead(m, t)'
  <1> DEFINE written == mu.creates \o mu.updates
  <1>1. rows[t].version \in Nat
    BY DEF TypeInv, TypeOK, TaskRow
  <1>2. CASE t \notin Range(written)
    BY <1>1, <1>2 DEF Commit
  <1>3. CASE t \in Range(written)
    <2>1. PICK k \in DOMAIN written : written[k] = t
      BY <1>3 DEF Range
    <2>2. rows'[t].version = rows[t].version + 1
      BY <1>3 DEF Commit
    <2>3. reading'[m] = [j \in DOMAIN written |-> <<written[j], rows'[written[j]].version>>]
      BY DEF Commit, TypeInv, TypeOK
    <2>4. mpc'[m] = "read"
      BY DEF Commit, TypeInv, TypeOK
    <2> HIDE DEF written
    <2>5. k \in DOMAIN reading'[m] /\ reading'[m][k] = <<t, rows'[t].version>>
      BY <2>1, <2>3
    <2>6. <<t, rows'[t].version>> \in {reading'[m][j] : j \in DOMAIN reading'[m]}
      BY <2>5
    <2>7. ToBeRead(m, t)'
      BY <2>4, <2>6 DEF ToBeRead, Range
    <2> QED BY <1>1, <2>2, <2>7
  <1> QED BY <1>2, <1>3

-----------------------------------------------------------------------------
(* Event objects and the rows they were built from *)

\* Each step keeps the events apart and built from the rows.
LEMMA EventsStep == TypeInv /\ EventsInv /\ [Next]_vars => EventsInv'
  <1> SUFFICES ASSUME TypeInv, EventsInv, [Next]_vars PROVE EventsInv'
    OBVIOUS
  <1>1. EventsKept /\ \A e \in DOMAIN events : events[e] \in Event
    BY EventsAreKept, EventIndices
  <1>2. CASE rows' = rows /\ DOMAIN events' = DOMAIN events
    BY <1>1, <1>2 DEF EventsKept, EventsInv
  <1>3. ASSUME NEW m \in Mutators, NEW mu \in Mutations, Commit(m, mu) PROVE EventsInv'
    <2>1. events' = events
      BY <1>3 DEF Commit
    <2>2. SUFFICES ASSUME NEW e \in DOMAIN events
                   PROVE  /\ events[e].version <= rows'[events[e].task].version
                          /\ events[e].version = rows'[events[e].task].version =>
                                events[e].phase = rows'[events[e].task].phase
      BY <2>1 DEF EventsInv
    <2> DEFINE t == events[e].task
    <2>3. t \in Tasks /\ events[e].version \in Nat
      BY <1>1 DEF Event
    <2>4. /\ rows[t].version \in Nat /\ rows'[t].version \in Nat
          /\ rows'[t] = rows[t] \/ rows'[t].version = rows[t].version + 1
      BY <1>3, <2>3, CommitRows
    <2>5. /\ events[e].version <= rows[t].version
          /\ events[e].version = rows[t].version => events[e].phase = rows[t].phase
      BY DEF EventsInv
    <2> HIDE DEF t
    <2> QED BY <2>3, <2>4, <2>5 DEF t
  <1>4. ASSUME NEW m \in Mutators, ReadBack(m) PROVE EventsInv'
    <2> DEFINE t == reading[m][Len(ready[m]) + 1][1]
               ev == [task |-> t, version |-> rows[t].version,
                      phase |-> rows[t].phase, sequence |-> 0]
    <2>1. events' = Append(events, ev) /\ rows' = rows
      BY <1>4 DEF ReadBack, storeVars
    <2>2. /\ ev.version = rows[ev.task].version /\ ev.phase = rows[ev.task].phase
          /\ rows[ev.task].version \in Nat
      <3>1. Len(ready[m]) + 1 \in DOMAIN reading[m]
        BY <1>4, LenProperties DEF ReadBack, TypeInv, TypeOK, MutatorOK
      <3>2. reading[m][Len(ready[m]) + 1] \in Tasks \X Nat
        BY <3>1, EventIndices
      <3>3. t \in Tasks
        BY <3>2
      <3> QED BY <3>3 DEF TypeInv, TypeOK, TaskRow
    <2> HIDE DEF ev
    <2>3. events \in Seq(Event)
      BY DEF TypeInv, TypeOK
    <2>4. /\ DOMAIN events' = DOMAIN events \cup {Len(events) + 1}
          /\ events'[Len(events) + 1] = ev
          /\ \A e \in DOMAIN events : events'[e] = events[e]
      BY <2>1, <2>3
    <2> QED BY <2>1, <2>2, <2>4 DEF EventsInv
  <1>5. ASSUME NEW w \in Watchers, Receive(w) PROVE EventsInv'
    BY <1>2, <1>5, NumberedEvents DEF Receive, storeVars
  <1>6. \/ rows' = rows /\ events' = events
        \/ \E m \in Mutators, mu \in Mutations : Commit(m, mu)
        \/ \E m \in Mutators : ReadBack(m)
        \/ \E w \in Watchers : Receive(w)
    BY DEF Next, MutatorStep, ReadFails, PublishBegin, PublishTo, PublishEnd,
           Subscribe, ServeStep, Heartbeat, Disconnect, LeaveStep, SendHeader, SnapshotNext,
           SnapshotComplete, Send, Unsubscribe, CloseChan, vars, storeVars
  <1> QED BY <1>2, <1>3, <1>4, <1>5, <1>6

\* An RPC that is left alone, while rows only get newer, keeps what it has read.
LEMMA ReadAlone ==
    ASSUME TypeInv, EventsKept, NEW m \in Mutators, ReadInv(m),
           mpc'[m] = mpc[m], reading'[m] = reading[m], ready'[m] = ready[m],
           \A t \in Tasks : rows[t].version <= rows'[t].version /\ rows'[t].version \in Nat
    PROVE  ReadInv(m)'
  <1> SUFFICES ASSUME mpc[m] = "read"
               PROVE  /\ \A k \in DOMAIN reading[m] :
                            reading[m][k][2] <= rows'[reading[m][k][1]].version
                      /\ \A k \in DOMAIN ready[m] :
                            /\ events'[ready[m][k]].task = reading[m][k][1]
                            /\ events'[ready[m][k]].version >= reading[m][k][2]
    BY DEF ReadInv
  <1>1. ASSUME NEW k \in DOMAIN reading[m]
        PROVE  reading[m][k][2] <= rows'[reading[m][k][1]].version
    <2>1. reading[m][k] \in Tasks \X Nat
      BY EventIndices
    <2>2. reading[m][k][1] \in Tasks /\ reading[m][k][2] \in Nat
      BY <2>1
    <2>3. reading[m][k][2] <= rows[reading[m][k][1]].version
      BY DEF ReadInv
    <2>4. rows[reading[m][k][1]].version \in Nat
      BY <2>2 DEF TypeInv, TypeOK, TaskRow
    <2> QED BY <2>2, <2>3, <2>4
  <1>2. \A k \in DOMAIN ready[m] : ready[m][k] \in DOMAIN events
    BY EventIndices
  <1> QED BY <1>1, <1>2 DEF ReadInv, EventsKept

\* The target that is read next was written by nobody: version 0 stands for it.
LEMMA ReadNextTarget ==
    ASSUME TypeInv, NEW m \in Mutators, NextTarget(m), ready'[m] = <<>>, rows' = rows
    PROVE  ReadInv(m)'
  <1> SUFFICES ASSUME mpc'[m] = "read" PROVE ReadInv(m)'
    BY DEF ReadInv
  <1>1. targets[m] # <<>>
    BY DEF NextTarget, TypeInv, TypeOK
  <1>2. Head(targets[m]) \in Tasks
    BY <1>1, HeadTailProperties DEF TypeInv, TypeOK
  <1> DEFINE rs == <<<<Head(targets[m]), 0>>>>
  <1>3. reading'[m] = rs
    BY <1>1 DEF NextTarget, TypeInv, TypeOK
  <1>4. DOMAIN rs = {1} /\ rs[1][1] \in Tasks /\ rs[1][2] = 0
    BY <1>2
  <1>5. rows[rs[1][1]].version \in Nat
    BY <1>4 DEF TypeInv, TypeOK, TaskRow
  <1>6. DOMAIN ready'[m] = {}
    OBVIOUS
  <1> HIDE DEF rs
  <1> QED BY <1>3, <1>4, <1>5, <1>6 DEF ReadInv

\* The RPC's own steps: what it has read back fits what it was to read.
LEMMA ReadMutators ==
    ASSUME TypeInv, EventsKept, \A n \in Mutators : ReadInv(n), NEW m \in Mutators,
           MutatorStep(m)
    PROVE  \A n \in Mutators : ReadInv(n)'
  <1>1. rows' = rows /\ \A t \in Tasks : rows[t].version \in Nat
    BY DEF MutatorStep, ReadBack, ReadFails, PublishBegin, PublishTo, PublishEnd, storeVars,
           TypeInv, TypeOK, TaskRow
  <1>2. ASSUME NEW n \in Mutators \ {m} PROVE ReadInv(n)'
    <2>1. mpc'[n] = mpc[n] /\ reading'[n] = reading[n] /\ ready'[n] = ready[n]
      BY NextTargetType DEF MutatorStep, ReadBack, ReadFails, PublishBegin, PublishTo, PublishEnd,
             TypeInv, TypeOK
    <2> QED BY <1>1, <2>1, ReadAlone
  <1>3. CASE mpc'[m] # "read"
    BY <1>2, <1>3 DEF ReadInv
  <1>4. CASE ReadBack(m) /\ mpc'[m] = "read"
    <2> DEFINE k == Len(ready[m]) + 1
               t == reading[m][k][1]
               ev == [task |-> t, version |-> rows[t].version,
                      phase |-> rows[t].phase, sequence |-> 0]
    <2>1. k < Len(reading[m]) /\ reading' = reading /\ mpc[m] = "read"
      BY <1>4 DEF ReadBack, TypeInv, TypeOK
    <2>2. ready'[m] = Append(ready[m], Len(events')) /\ events' = Append(events, ev)
      BY <1>4 DEF ReadBack, TypeInv, TypeOK
    <2>3. /\ ready[m] \in Seq(DOMAIN events) /\ reading[m] \in Seq(Tasks \X Nat)
          /\ events \in Seq(Event)
      BY DEF TypeInv, TypeOK
    <2>4. k \in DOMAIN reading[m] /\ k \in Nat /\ DOMAIN ready[m] = 1..Len(ready[m])
      BY <2>1, <2>3, LenProperties
    <2>5. /\ events'[Len(events')].task = t
          /\ events'[Len(events')].version = rows[t].version
      <3>1. Len(events') = Len(events) + 1 /\ events'[Len(events) + 1] = ev
        BY <2>2, <2>3
      <3>2. ev.task = t /\ ev.version = rows[t].version
        OBVIOUS
      <3> HIDE DEF ev
      <3> QED BY <3>1, <3>2
    <2>6. rows[t].version >= reading[m][k][2]
      <3>1. reading[m][k][2] <= rows[t].version
        BY <2>1, <2>4 DEF ReadInv
      <3>2. reading[m][k] \in Tasks \X Nat
        BY <2>4, EventIndices
      <3> QED BY <1>1, <3>1, <3>2
    <2>7. DOMAIN ready'[m] = DOMAIN ready[m] \cup {k} /\ ready'[m][k] = Len(events')
          /\ \A j \in DOMAIN ready[m] : ready'[m][j] = ready[m][j]
      <3> DEFINE q == ready[m]
                 x == Len(events')
      <3>1. q \in Seq(Nat) /\ ready'[m] = Append(q, x) /\ k = Len(q) + 1
        BY <2>2, <2>3
      <3> HIDE DEF q, x, k
      <3>2. /\ DOMAIN Append(q, x) = DOMAIN q \cup {Len(q) + 1} /\ Append(q, x)[Len(q) + 1] = x
            /\ \A j \in DOMAIN q : Append(q, x)[j] = q[j]
        BY <3>1, AppendElements
      <3>3. DOMAIN ready'[m] = DOMAIN q \cup {k} /\ ready'[m][k] = x
            /\ \A j \in DOMAIN q : ready'[m][j] = q[j]
        BY <3>1, <3>2
      <3> QED BY <3>3 DEF q, x
    <2>8. \A j \in DOMAIN ready[m] :
              /\ events'[ready[m][j]].task = reading[m][j][1]
              /\ events'[ready[m][j]].version >= reading[m][j][2]
      BY <2>1, EventIndices DEF ReadInv, EventsKept
    <2> HIDE DEF k
    <2>9. ASSUME NEW j \in DOMAIN ready'[m]
          PROVE  /\ events'[ready'[m][j]].task = reading[m][j][1]
                 /\ events'[ready'[m][j]].version >= reading[m][j][2]
      BY <2>5, <2>6, <2>7, <2>8, <2>9
    <2>10. ReadInv(m)'
      BY <1>1, <2>1, <2>9 DEF ReadInv
    <2> QED BY <1>2, <2>10
  <1>5. CASE ReadFails(m) /\ mpc'[m] = "read"
    <2>1. reading[m][1][2] = 0 /\ NextTarget(m) /\ ready' = ready
      BY <1>5 DEF ReadFails, TypeInv, TypeOK
    <2>2. ready[m] = <<>>
      <3>1. ready[m] \in Seq(DOMAIN events) /\ Len(ready[m]) < 1
        BY <1>5, <2>1 DEF ReadFails, TypeInv, TypeOK, MutatorOK
      <3> QED BY <3>1, EmptySeq, LenProperties
    <2> QED BY <1>1, <1>2, <2>1, <2>2, ReadNextTarget
  <1>6. CASE PublishEnd(m) /\ mpc'[m] = "read"
    <2>1. Len(ready[m]) \in Nat \ {0} /\ Tail(ready[m]) \in Seq(DOMAIN events)
          /\ Len(Tail(ready[m])) = Len(ready[m]) - 1
      BY <1>6, HeadIsEvent DEF PublishEnd, TypeInv, MutatorOK
    <2>2. ~(Len(ready[m]) > 1) /\ NextTarget(m)
      BY <1>6 DEF PublishEnd, TypeInv, TypeOK
    <2>3. ready'[m] = Tail(ready[m])
      BY <1>6 DEF PublishEnd, TypeInv, TypeOK
    <2>4. ready'[m] = <<>>
      BY <2>1, <2>2, <2>3, EmptySeq
    <2> QED BY <1>1, <1>2, <2>2, <2>4, ReadNextTarget
  <1>7. CASE PublishBegin(m) \/ \E w \in Watchers : PublishTo(m, w)
    <2>1. mpc'[m] # "read"
      BY <1>7 DEF PublishBegin, PublishTo, TypeInv, TypeOK
    <2> QED BY <1>3, <2>1
  <1> QED BY <1>3, <1>4, <1>5, <1>6, <1>7 DEF MutatorStep

\* Every step keeps what every RPC has read back.
LEMMA ReadStep ==
    ASSUME TypeInv, \A n \in Mutators : ReadInv(n), [Next]_vars
    PROVE  \A n \in Mutators : ReadInv(n)'
  <1>1. EventsKept
    BY EventsAreKept
  <1>2. \A t \in Tasks : rows[t].version \in Nat
    BY DEF TypeInv, TypeOK, TaskRow
  <1>3. ASSUME NEW m \in Mutators, MutatorStep(m) PROVE \A n \in Mutators : ReadInv(n)'
    BY <1>1, <1>3, ReadMutators
  <1>4. ASSUME NEW m \in Mutators, NEW mu \in Mutations, Commit(m, mu)
        PROVE  \A n \in Mutators : ReadInv(n)'
    <2>1. \A t \in Tasks : rows[t].version <= rows'[t].version /\ rows'[t].version \in Nat
      <3> SUFFICES ASSUME NEW t \in Tasks
                   PROVE  rows[t].version <= rows'[t].version /\ rows'[t].version \in Nat
        OBVIOUS
      <3>1. /\ rows[t].version \in Nat /\ rows'[t].version \in Nat
            /\ rows'[t] = rows[t] \/ rows'[t].version = rows[t].version + 1
        BY <1>4, CommitRows
      <3> QED BY <3>1
    <2>2. ASSUME NEW n \in Mutators \ {m} PROVE ReadInv(n)'
      <3>1. mpc'[n] = mpc[n] /\ reading'[n] = reading[n] /\ ready'[n] = ready[n]
        BY <1>4 DEF Commit, TypeInv, TypeOK
      <3> QED BY <1>1, <2>1, <3>1, ReadAlone
    <2>3. ReadInv(m)'
      <3> DEFINE written == mu.creates \o mu.updates
      <3>1. reading'[m] = [k \in DOMAIN written |-> <<written[k], rows'[written[k]].version>>]
        BY <1>4 DEF Commit, TypeInv, TypeOK
      <3>2. ready'[m] = <<>>
        BY <1>4 DEF Commit, TypeInv, TypeOK, MutatorOK
      <3>3. \A k \in DOMAIN written : written[k] \in Tasks
        <4>1. mu.creates \in Seq(Tasks) /\ mu.updates \in Seq(Tasks)
          BY ConstantsAssumption DEF Mutation
        <4>2. written \in Seq(Tasks)
          BY <4>1, ConcatProperties
        <4> HIDE DEF written
        <4> QED BY <4>2, ElementOfSeq, LenProperties
      <3> HIDE DEF written
      <3>4. \A k \in DOMAIN reading'[m] :
               reading'[m][k][2] <= rows'[reading'[m][k][1]].version
        BY <2>1, <3>1, <3>3
      <3>5. DOMAIN ready'[m] = {}
        BY <3>2
      <3> QED BY <3>4, <3>5 DEF ReadInv
    <2> QED BY <2>2, <2>3
  <1>5. ASSUME UNCHANGED <<rows, mpc, reading, ready>> PROVE \A n \in Mutators : ReadInv(n)'
    BY <1>1, <1>2, <1>5, ReadAlone
  <1>6. \/ UNCHANGED <<rows, mpc, reading, ready>>
        \/ \E m \in Mutators : MutatorStep(m) \/ \E mu \in Mutations : Commit(m, mu)
    BY DEF Next, Subscribe, ServeStep, Heartbeat, Disconnect, LeaveStep, SendHeader,
           SnapshotNext, SnapshotComplete, Receive, Send, Unsubscribe, CloseChan, vars,
           storeVars, mutVars
  <1> QED BY <1>3, <1>4, <1>5, <1>6

-----------------------------------------------------------------------------
(* What is owed to a stream stays on its way *)

\* What an RPC is about to publish stays so while the RPC is left alone.
LEMMA ComingStays ==
    ASSUME TypeInv, EventsKept, NEW n \in Mutators, NEW w \in Watchers, NEW t \in Tasks,
           Coming(n, w, t), rows'[t] = rows[t], mpc'[n] = mpc[n], reading'[n] = reading[n],
           ready'[n] = ready[n], w \in left[n] => w \in left'[n]
    PROVE  Coming(n, w, t)'
  <1>1. CASE ToBeRead(n, t)
    <2>1. ToBeRead(n, t)'
      BY <1>1 DEF ToBeRead, Range
    <2> QED BY <2>1 DEF Coming
  <1>2. CASE ToBePublished(n, w, t)
    <2>1. PICK k \in DOMAIN ready[n] :
             /\ SaysStored(events[ready[n][k]], t)
             /\ mpc[n] = "lock" \/ (mpc[n] = "send" /\ (k = 1 => w \in left[n]))
      BY <1>2 DEF ToBePublished
    <2>2. SaysStored(events[ready[n][k]], t)'
      BY <2>1, EventIndices DEF SaysStored, EventsKept
    <2>3. ToBePublished(n, w, t)'
      BY <2>1, <2>2 DEF ToBePublished
    <2> QED BY <2>3 DEF Coming
  <1> QED BY <1>1, <1>2 DEF Coming

\* What a stream holds or has sent stays so, while its channel and its messages
\* only get longer.
LEMMA InChanStays ==
    ASSUME TypeInv, EventsKept, NEW w \in Watchers, NEW t \in Tasks,
           InChan(w, t), rows'[t] = rows[t],
           \A k \in DOMAIN chan[w] : k \in DOMAIN chan'[w] /\ chan'[w][k] = chan[w][k]
    PROVE  InChan(w, t)'
  <1>1. PICK k \in DOMAIN chan[w] : SaysStored(events[chan[w][k]], t)
    BY DEF InChan
  <1>2. k \in DOMAIN chan'[w] /\ chan'[w][k] = chan[w][k] /\ chan[w][k] \in DOMAIN events
    BY EventIndices
  <1>3. SaysStored(events[chan[w][k]], t)'
    BY <1>1, <1>2 DEF SaysStored, EventsKept
  <1> QED BY <1>2, <1>3 DEF InChan

\* What a stream is sending.
LEMMA InHandStays ==
    ASSUME TypeInv, EventsKept, NEW w \in Watchers, NEW t \in Tasks,
           InHand(w, t), rows'[t] = rows[t], wpc'[w] = wpc[w], current'[w] = current[w]
    PROVE  InHand(w, t)'
  <1>1. current[w] \in DOMAIN events
    BY EventIndices DEF InHand
  <1> QED BY <1>1 DEF InHand, SaysStored, EventsKept

\* What a stream has sent.
LEMMA InStreamStays ==
    ASSUME NEW w \in Watchers, NEW t \in Tasks, InStream(w, t), rows'[t] = rows[t],
           \A k \in DOMAIN stream[w] : k \in DOMAIN stream'[w] /\ stream'[w][k] = stream[w][k]
    PROVE  InStream(w, t)'
  <1>1. PICK k \in DOMAIN stream[w] : /\ stream[w][k].kind \in {"initial", "event"}
                                      /\ SaysStored(stream[w][k], t)
    BY DEF InStream
  <1>2. k \in DOMAIN stream'[w] /\ stream'[w][k] = stream[w][k]
    OBVIOUS
  <1>3. SaysStored(stream[w][k], t)'
    BY <1>1, <1>2 DEF SaysStored
  <1> QED BY <1>1, <1>2, <1>3 DEF InStream

\* All of it together.
LEMMA StreamStays ==
    ASSUME TypeInv, EventsKept, NEW w \in Watchers, NEW t \in Tasks,
           AtStream(w, t), rows'[t] = rows[t],
           \A k \in DOMAIN chan[w] : k \in DOMAIN chan'[w] /\ chan'[w][k] = chan[w][k],
           wpc'[w] = wpc[w], current'[w] = current[w], unlisted'[w] = unlisted[w],
           stream'[w] = stream[w]
    PROVE  AtStream(w, t)'
  <1>1. InChan(w, t) => InChan(w, t)'
    BY InChanStays
  <1>2. InHand(w, t) => InHand(w, t)'
    BY InHandStays
  <1>3. InStream(w, t) => InStream(w, t)'
    BY InStreamStays
  <1>4. ToBeListed(w, t) => ToBeListed(w, t)'
    BY DEF ToBeListed
  <1> QED BY <1>1, <1>2, <1>3, <1>4 DEF AtStream

\* What is delivered is told.
LEMMA DeliveredIsTold ==
    ASSUME TypeInv, NEW w \in Watchers, NEW t \in Tasks, NEW msg \in Message,
           Deliver(w, msg), msg.kind \in {"initial", "event"}, SaysStored(msg, t),
           rows'[t] = rows[t]
    PROVE  InStream(w, t)'
  <1>1. PICK n \in DOMAIN stream'[w] : stream'[w][n] = msg
    <2>1. /\ stream'[w][Len(stream[w]) + 1] = msg /\ stream'[w] \in Seq(Message)
          /\ Len(stream'[w]) = Len(stream[w]) + 1 /\ Len(stream[w]) \in Nat
      BY DeliverType
    <2>2. Len(stream[w]) + 1 \in DOMAIN stream'[w]
      BY <2>1, LenProperties
    <2> QED BY <2>1, <2>2
  <1>2. SaysStored(stream[w][n], t)'
    BY <1>1 DEF SaysStored
  <1>3. stream'[w][n].kind \in {"initial", "event"}
    BY <1>1
  <1> QED BY <1>2, <1>3 DEF InStream

\* What a stream has told stays told when more is delivered.
LEMMA StillTold ==
    ASSUME TypeInv, NEW w \in Watchers, NEW t \in Tasks, NEW msg \in Message,
           Deliver(w, msg), InStream(w, t), rows'[t] = rows[t]
    PROVE  InStream(w, t)'
  <1>1. \A k \in 1..Len(stream[w]) : stream'[w][k] = stream[w][k]
    BY DeliverType
  <1>2. stream[w] \in Seq(Message) /\ stream'[w] \in Seq(Message)
    BY DeliverType DEF TypeInv, TypeOK
  <1>3. Len(stream'[w]) = Len(stream[w]) + 1 /\ Len(stream[w]) \in Nat
    BY DeliverType
  <1>4. \A k \in DOMAIN stream[w] : k \in DOMAIN stream'[w] /\ stream'[w][k] = stream[w][k]
    BY <1>1, <1>2, <1>3, LenProperties
  <1> QED BY <1>4, InStreamStays

\* What is owed after a step was owed before it, if the row is the same and the
\* stream has not just begun.
LEMMA OwedBefore ==
    ASSUME TypeInv, NEW w \in Watchers, NEW t \in Tasks, OwedTo(w, t)', rows'[t] = rows[t],
           dropped[w] \subseteq dropped'[w], unpublished \subseteq unpublished',
           wpc'[w] \in {"snapshot", "loop", "send"} => wpc[w] \in {"snapshot", "loop", "send"}
    PROVE  OwedTo(w, t)
  BY DEF OwedTo, Exists, matchesFilter

\* A commit owes the new version to the streams, and it will read it back.
LEMMA DebtCommit ==
    ASSUME TypeInv, DeliveryInv, EventsKept, NEW m \in Mutators, NEW mu \in Mutations,
           Commit(m, mu)
    PROVE  DebtInv'
  <1> SUFFICES ASSUME NEW w \in Watchers, NEW t \in Tasks, OwedTo(w, t)'
               PROVE  OnItsWay(w, t)'
    BY DEF DebtInv
  <1>1. CASE ToBeRead(m, t)'
    BY <1>1 DEF OnItsWay, Coming
  <1>2. CASE rows'[t] = rows[t]
    <2>1. UNCHANGED <<chan, wpc, current, unlisted, stream, dropped, unpublished>>
      BY DEF Commit, watchVars, histVars
    <2>2. OwedTo(w, t)
      BY <1>2, <2>1, OwedBefore
    <2>3. OnItsWay(w, t)
      BY <2>2 DEF DeliveryInv, DebtInv
    <2>4. CASE AtStream(w, t)
      <3>1. AtStream(w, t)'
        BY <1>2, <2>1, <2>4, StreamStays
      <3> QED BY <3>1 DEF OnItsWay
    <2>5. CASE \E n \in Mutators : Coming(n, w, t)
      <3>1. PICK n \in Mutators : Coming(n, w, t)
        BY <2>5
      <3>2. n # m
        BY <3>1 DEF Commit, Coming, ToBeRead, ToBePublished
      <3>3. mpc'[n] = mpc[n] /\ reading'[n] = reading[n] /\ ready'[n] = ready[n] /\ left'[n] = left[n]
        BY <3>2 DEF Commit, TypeInv, TypeOK
      <3>4. Coming(n, w, t)'
        BY <1>2, <3>1, <3>3, ComingStays
      <3> QED BY <3>4 DEF OnItsWay
    <2> QED BY <2>3, <2>4, <2>5 DEF OnItsWay
  <1> QED BY <1>1, <1>2, CommitRows

\* The version an RPC was to read back is in the event it has built for it.
LEMMA ReadBackBuilds ==
    ASSUME TypeInv, RowsInv, EventsKept, NEW m \in Mutators, ReadBack(m),
           NEW w \in Watchers, NEW t \in Tasks, ToBeRead(m, t)
    PROVE  Coming(m, w, t)'
  <1> DEFINE n == Len(ready[m]) + 1
             ev == [task |-> reading[m][n][1], version |-> rows[reading[m][n][1]].version,
                    phase |-> rows[reading[m][n][1]].phase, sequence |-> 0]
  <1>1. rows' = rows /\ rows[t].version \in Nat
    BY DEF ReadBack, storeVars, TypeInv, TypeOK, TaskRow
  <1>2. CASE n < Len(reading[m])
    <2>1. mpc' = mpc /\ reading' = reading
      BY <1>2 DEF ReadBack
    <2> QED BY <1>1, <2>1 DEF Coming, ToBeRead, Range
  <1>3. CASE ~(n < Len(reading[m]))
    <2>1. PICK k \in DOMAIN reading[m] : reading[m][k] = <<t, rows[t].version>>
      BY DEF ToBeRead, Range
    <2>2. /\ ready[m] \in Seq(DOMAIN events) /\ events \in Seq(Event)
          /\ reading[m] \in Seq(Tasks \X Nat) /\ Len(ready[m]) < Len(reading[m])
      BY DEF ReadBack, TypeInv, TypeOK, MutatorOK
    <2>3. k \in DOMAIN ready[m] \/ k = n
      <3> DEFINE a == Len(ready[m])
                 b == Len(reading[m])
      <3>1. a \in Nat /\ b \in Nat /\ DOMAIN ready[m] = 1..a /\ DOMAIN reading[m] = 1..b
        BY <2>2, LenProperties
      <3>2. k \in 1..b /\ a < b /\ ~(a + 1 < b) /\ n = a + 1
        BY <1>3, <2>2, <3>1
      <3> HIDE DEF a, b, n
      <3> QED BY <3>1, <3>2
    <2>4. /\ ready'[m] = Append(ready[m], Len(events')) /\ events' = Append(events, ev)
          /\ mpc'[m] = "lock" /\ mpc[m] = "read"
      BY <1>3 DEF ReadBack, TypeInv, TypeOK
    <2> HIDE DEF ev
    <2>5. /\ DOMAIN ready'[m] = DOMAIN ready[m] \cup {n}
          /\ \A j \in DOMAIN ready[m] : ready'[m][j] = ready[m][j]
          /\ ready'[m][n] = Len(events') /\ events'[Len(events')] = ev
      <3>1. Len(events') = Len(events) + 1 /\ events'[Len(events) + 1] = ev
        BY <2>2, <2>4, AppendElements
      <3>2. /\ DOMAIN ready'[m] = DOMAIN ready[m] \cup {n} /\ ready'[m][n] = Len(events')
            /\ \A j \in DOMAIN ready[m] : ready'[m][j] = ready[m][j]
        <4> DEFINE q == ready[m]
                   x == Len(events')
        <4>1. q \in Seq(Nat) /\ ready'[m] = Append(q, x) /\ n = Len(q) + 1
          BY <2>2, <2>4
        <4> HIDE DEF q, x, n
        <4>2. /\ DOMAIN Append(q, x) = DOMAIN q \cup {Len(q) + 1} /\ Append(q, x)[Len(q) + 1] = x
              /\ \A j \in DOMAIN q : Append(q, x)[j] = q[j]
          BY <4>1, AppendElements
        <4>3. DOMAIN ready'[m] = DOMAIN q \cup {n} /\ ready'[m][n] = x
              /\ \A j \in DOMAIN q : ready'[m][j] = q[j]
          BY <4>1, <4>2
        <4> QED BY <4>3 DEF q, x
      <3> QED BY <3>1, <3>2
    <2>6. /\ k \in DOMAIN ready'[m]
          /\ events'[ready'[m][k]].task = t /\ events'[ready'[m][k]].version = rows[t].version
      <3>1. CASE k = n
        <4>1. ev.task = t /\ ev.version = rows[t].version
          BY <2>1, <3>1 DEF ev
        <4> QED BY <2>5, <3>1, <4>1
      <3>2. CASE k \in DOMAIN ready[m]
        <4> DEFINE e == ready[m][k]
        <4>1. /\ e \in DOMAIN events /\ events[e] \in Event
              /\ events'[e].task = events[e].task /\ events'[e].version = events[e].version
          BY <3>2, EventIndices DEF EventsKept
        <4>2. events[e].task = t /\ events[e].version >= rows[t].version
          BY <2>1, <2>4, <3>2 DEF RowsInv, ReadInv
        <4>3. events[e].version <= rows[t].version
          BY <4>1, <4>2 DEF RowsInv, EventsInv
        <4>4. events[e].version \in Nat
          BY <4>1 DEF Event
        <4>5. events[e].version = rows[t].version
          BY <1>1, <4>2, <4>3, <4>4
        <4>6. ready'[m][k] = e /\ k \in DOMAIN ready'[m]
          BY <2>5, <3>2
        <4> HIDE DEF e
        <4> QED BY <4>1, <4>2, <4>5, <4>6
      <3> QED BY <2>3, <3>1, <3>2
    <2>7. SaysStored(events[ready[m][k]], t)'
      BY <1>1, <2>6 DEF SaysStored
    <2>8. ToBePublished(m, w, t)'
      BY <2>4, <2>6, <2>7 DEF ToBePublished
    <2> QED BY <2>8 DEF Coming
  <1> QED BY <1>2, <1>3

\* Publish goes on to the next event.
LEMMA PublishEndGoesOn ==
    ASSUME TypeInv, EventsKept, NEW m \in Mutators, PublishEnd(m),
           NEW w \in Watchers, NEW t \in Tasks, ToBePublished(m, w, t)
    PROVE  Coming(m, w, t)'
  <1>1. PICK k \in DOMAIN ready[m] :
           /\ SaysStored(events[ready[m][k]], t)
           /\ mpc[m] = "lock" \/ (mpc[m] = "send" /\ (k = 1 => w \in left[m]))
    BY DEF ToBePublished
  <1>2. k # 1
    BY <1>1 DEF PublishEnd
  <1>3. ready[m] # <<>>
    BY DEF PublishEnd, TypeInv, MutatorOK
  <1>4. /\ Tail(ready[m]) \in Seq(DOMAIN events) /\ Len(ready[m]) \in Nat \ {0}
        /\ Len(Tail(ready[m])) = Len(ready[m]) - 1
        /\ \A j \in 1..Len(ready[m]) - 1 : Tail(ready[m])[j] = ready[m][j + 1]
    BY <1>3, HeadIsEvent
  <1>5. k \in 2..Len(ready[m])
    BY <1>2, LenProperties DEF TypeInv, TypeOK
  <1>6. PICK j \in 1..Len(ready[m]) - 1 : k = j + 1
    <2>1. k - 1 \in 1..Len(ready[m]) - 1 /\ k = (k - 1) + 1
      BY <1>4, <1>5
    <2> QED BY <2>1
  <1>7. /\ ready'[m] = Tail(ready[m]) /\ mpc'[m] = "lock" /\ rows' = rows
    BY <1>4, <1>5 DEF PublishEnd, storeVars, TypeInv, TypeOK
  <1>8. j \in DOMAIN ready'[m] /\ ready'[m][j] = ready[m][k]
    BY <1>4, <1>6, <1>7, LenProperties
  <1>9. SaysStored(events[ready[m][j]], t)'
    BY <1>1, <1>7, <1>8, EventIndices DEF SaysStored, EventsKept
  <1>10. ToBePublished(m, w, t)'
    BY <1>7, <1>8, <1>9 DEF ToBePublished
  <1> QED BY <1>10 DEF Coming

\* A stream that loses no event finds it in its channel: an event with the
\* stored version has the stored phase, so its filter lets it pass.
LEMMA PublishToHandsOver ==
    ASSUME TypeInv, RowsInv, EventsKept, NEW m \in Mutators, NEW w \in Watchers,
           PublishTo(m, w), NEW t \in Tasks, ToBePublished(m, w, t),
           matchesFilter(w, rows[t]), dropped'[w] = {}
    PROVE  Coming(m, w, t)' \/ InChan(w, t)'
  <1> DEFINE e == Head(ready[m])
  <1>1. PICK k \in DOMAIN ready[m] :
           /\ SaysStored(events[ready[m][k]], t)
           /\ mpc[m] = "lock" \/ (mpc[m] = "send" /\ (k = 1 => w \in left[m]))
    BY DEF ToBePublished
  <1>2. /\ ready' = ready /\ mpc' = mpc /\ mpc[m] = "send" /\ events' = events /\ rows' = rows
    BY DEF PublishTo, storeVars
  <1>3. CASE k # 1
    <2>1. SaysStored(events[ready[m][k]], t)'
      BY <1>1, <1>2 DEF SaysStored
    <2>2. ToBePublished(m, w, t)'
      BY <1>2, <1>3, <2>1 DEF ToBePublished
    <2> QED BY <2>2 DEF Coming
  <1>4. CASE k = 1
    <2>1. e = ready[m][1] /\ e \in DOMAIN events
      BY <1>2, HeadIsEvent DEF TypeInv, MutatorOK
    <2>2. events[e].task = t /\ events[e].version = rows[t].version
      BY <1>1, <1>4, <2>1 DEF SaysStored
    <2>3. events[e].phase = rows[t].phase
      BY <2>1, <2>2 DEF RowsInv, EventsInv
    <2>4. matchesFilter(w, events[e])
      BY <2>3 DEF matchesFilter
    <2>5. dropped[w] \in SUBSET DOMAIN events /\ chan[w] \in Seq(DOMAIN events)
      BY DEF TypeInv, TypeOK
    <2>6. chan'[w] = Append(chan[w], e)
      <3>1. chan' = [chan EXCEPT ![w] = Append(@, e)] \/ dropped' = [dropped EXCEPT ![w] = @ \cup {e}]
        BY <2>4 DEF PublishTo
      <3>2. dropped' # [dropped EXCEPT ![w] = @ \cup {e}]
        BY DEF TypeInv, TypeOK
      <3> QED BY <3>1, <3>2 DEF TypeInv, TypeOK
    <2>7. PICK n \in DOMAIN chan'[w] : chan'[w][n] = e
      <3>1. Len(chan[w]) + 1 \in DOMAIN chan'[w] /\ chan'[w][Len(chan[w]) + 1] = e
        BY <2>1, <2>5, <2>6
      <3> QED BY <3>1
    <2>8. SaysStored(events[chan[w][n]], t)'
      BY <1>2, <2>2, <2>7 DEF SaysStored
    <2> QED BY <2>7, <2>8 DEF InChan
  <1> QED BY <1>3, <1>4

\* What the steps of an RPC after its commit owe stays on its way.
LEMMA DebtMutators ==
    ASSUME TypeInv, BusInv, DeliveryInv, EventsKept, NEW m \in Mutators, MutatorStep(m)
    PROVE  DebtInv'
  <1> SUFFICES ASSUME NEW w \in Watchers, NEW t \in Tasks, OwedTo(w, t)'
               PROVE  OnItsWay(w, t)'
    BY DEF DebtInv
  <1>1. rows' = rows /\ UNCHANGED <<wpc, current, unlisted, stream>>
    BY DEF MutatorStep, ReadBack, ReadFails, PublishBegin, PublishTo, PublishEnd, storeVars,
           watchVars
  <1>2. dropped[w] \subseteq dropped'[w] /\ unpublished \subseteq unpublished'
    <2>1. unpublished \subseteq unpublished'
      BY DEF MutatorStep, ReadBack, ReadFails, PublishBegin, PublishTo, PublishEnd, histVars
    <2>2. \/ dropped' = dropped
          \/ \E v \in Watchers, e \in {Head(ready[m])} : dropped' = [dropped EXCEPT ![v] = @ \cup {e}]
      BY DEF MutatorStep, ReadBack, ReadFails, PublishBegin, PublishTo, PublishEnd, histVars
    <2> QED BY <2>1, <2>2 DEF TypeInv, TypeOK
  <1>3. OwedTo(w, t)
    BY <1>1, <1>2, OwedBefore
  <1>4. OnItsWay(w, t)
    BY <1>3 DEF DeliveryInv, DebtInv
  <1>5. CASE AtStream(w, t)
    <2>1. \A k \in DOMAIN chan[w] : k \in DOMAIN chan'[w] /\ chan'[w][k] = chan[w][k]
      <3>1. chan'[w] = chan[w] \/ chan'[w] = Append(chan[w], Head(ready[m]))
        BY DEF MutatorStep, ReadBack, ReadFails, PublishBegin, PublishTo, PublishEnd,
               TypeInv, TypeOK
      <3>2. chan[w] \in Seq(DOMAIN events)
        BY DEF TypeInv, TypeOK
      <3> QED BY <3>1, <3>2
    <2>2. AtStream(w, t)'
      BY <1>1, <1>5, <2>1, StreamStays
    <2> QED BY <2>2 DEF OnItsWay
  <1>6. ASSUME NEW n \in Mutators \ {m}, Coming(n, w, t) PROVE OnItsWay(w, t)'
    <2>1. mpc'[n] = mpc[n] /\ reading'[n] = reading[n] /\ ready'[n] = ready[n]
      BY NextTargetType DEF MutatorStep, ReadBack, ReadFails, PublishBegin, PublishTo, PublishEnd,
             TypeInv, TypeOK
    <2>2. left'[n] = left[n]
      BY DEF MutatorStep, ReadBack, ReadFails, PublishBegin, PublishTo, PublishEnd,
             TypeInv, TypeOK
    <2>3. Coming(n, w, t)'
      BY <1>1, <1>6, <2>1, <2>2, ComingStays
    <2> QED BY <2>3 DEF OnItsWay
  <1>7. ASSUME ToBeRead(m, t) PROVE OnItsWay(w, t)'
    <2>1. ReadBack(m) \/ ReadFails(m)
      BY <1>7 DEF ToBeRead, MutatorStep, PublishBegin, PublishTo, PublishEnd
    <2>2. CASE ReadBack(m)
      <3>1. Coming(m, w, t)'
        BY <1>7, <2>2, ReadBackBuilds DEF DeliveryInv
      <3> QED BY <3>1 DEF OnItsWay
    <2>3. CASE ReadFails(m)
      <3>1. reading[m][1][2] = 0
        BY <1>1, <1>7, <2>3 DEF ReadFails, ToBeRead, OwedTo
      <3>2. PICK k \in DOMAIN reading[m] : reading[m][k] = <<t, rows[t].version>>
        BY <1>7 DEF ToBeRead, Range
      <3>3. k = 1
        BY <3>1, <3>2, <1>7, LenProperties DEF ToBeRead, TypeInv, TypeOK, MutatorOK
      <3>4. rows[t].version = 0
        BY <3>1, <3>2, <3>3
      <3> QED BY <1>3, <3>4 DEF OwedTo, Exists
    <2> QED BY <2>1, <2>2, <2>3
  <1>8. ASSUME ToBePublished(m, w, t) PROVE OnItsWay(w, t)'
    <2>1. mpc[m] \in {"lock", "send"}
      BY <1>8 DEF ToBePublished
    <2>2. CASE PublishBegin(m)
      <3>1. w \in left'[m] /\ ready' = ready /\ mpc'[m] = "send" /\ events' = events
        BY <1>3, <2>2 DEF PublishBegin, TypeInv, TypeOK, BusInv, OnBus, OwedTo
      <3>2. PICK k \in DOMAIN ready[m] : SaysStored(events[ready[m][k]], t)
        BY <1>8 DEF ToBePublished
      <3>3. SaysStored(events[ready[m][k]], t)'
        BY <1>1, <3>1, <3>2 DEF SaysStored
      <3>4. ToBePublished(m, w, t)'
        BY <3>1, <3>2, <3>3 DEF ToBePublished
      <3> QED BY <3>4 DEF OnItsWay, Coming
    <2>3. CASE PublishTo(m, w)
      <3>1. matchesFilter(w, rows[t]) /\ dropped'[w] = {}
        BY <1>3 DEF OwedTo
      <3>2. Coming(m, w, t)' \/ InChan(w, t)'
        BY <1>8, <2>3, <3>1, PublishToHandsOver DEF DeliveryInv
      <3> QED BY <3>2 DEF OnItsWay, AtStream
    <2>4. ASSUME NEW v \in Watchers \ {w}, PublishTo(m, v) PROVE OnItsWay(w, t)'
      <3>1. w \in left[m] => w \in left'[m]
        BY <2>4 DEF PublishTo, TypeInv, TypeOK
      <3>2. mpc' = mpc /\ reading' = reading /\ ready' = ready
        BY <2>4 DEF PublishTo
      <3>3. Coming(m, w, t)
        BY <1>8 DEF Coming
      <3>4. Coming(m, w, t)'
        BY <1>1, <3>1, <3>2, <3>3, ComingStays
      <3> QED BY <3>4 DEF OnItsWay
    <2>5. CASE PublishEnd(m)
      <3>1. Coming(m, w, t)'
        BY <1>8, <2>5, PublishEndGoesOn
      <3> QED BY <3>1 DEF OnItsWay
    <2>6. ~ReadBack(m) /\ ~ReadFails(m)
      BY <2>1 DEF ReadBack, ReadFails
    <2> QED BY <2>2, <2>3, <2>4, <2>5, <2>6 DEF MutatorStep
  <1> QED BY <1>4, <1>5, <1>6, <1>7, <1>8 DEF OnItsWay, Coming

\* A stream takes what is on its way: from the list, from its channel, and on to
\* its client.
LEMMA TakesFromList ==
    ASSUME TypeInv, EventsKept, NEW w \in Watchers, NEW t \in Tasks, SnapshotNext(w),
           AtStream(w, t), matchesFilter(w, rows[t])
    PROVE  AtStream(w, t)'
  <1>1. PICK u \in unlisted[w] :
           /\ unlisted' = [unlisted EXCEPT ![w] = @ \ {u}]
           /\ IF matchesFilter(w, rows[u])
              THEN /\ seq' = [seq EXCEPT ![w] = @ + 1]
                   /\ Deliver(w, [kind |-> "initial", task |-> u,
                                  version |-> rows[u].version, sequence |-> seq[w] + 1])
              ELSE UNCHANGED <<seq, stream>>
    BY DEF SnapshotNext
  <1>2. rows' = rows /\ chan' = chan /\ current' = current /\ wpc' = wpc /\ wpc[w] = "snapshot"
    BY DEF SnapshotNext, storeVars
  <1> DEFINE msg == [kind |-> "initial", task |-> u, version |-> rows[u].version,
                     sequence |-> seq[w] + 1]
  <1>3. msg \in Message /\ msg.kind = "initial" /\ msg.task = u /\ msg.version = rows[u].version
    <2>1. u \in Tasks /\ rows[u].version \in Nat /\ seq[w] + 1 \in Nat
      BY DEF TypeInv, TypeOK, TaskRow
    <2> QED BY <2>1, MessageKinds
  <1>4. stream' = stream \/ Deliver(w, msg)
    BY <1>1
  <1>5. matchesFilter(w, rows[u]) => Deliver(w, msg)
    BY <1>1
  <1> HIDE DEF msg
  <1>6. CASE InStream(w, t)
    <2>1. InStream(w, t)'
      BY <1>2, <1>3, <1>4, <1>6, StillTold, InStreamStays
    <2> QED BY <2>1 DEF AtStream
  <1>7. CASE InChan(w, t)
    <2>1. InChan(w, t)'
      BY <1>2, <1>7, InChanStays
    <2> QED BY <2>1 DEF AtStream
  <1>8. CASE ToBeListed(w, t) /\ u # t
    <2>1. t \in unlisted'[w]
      BY <1>1, <1>8 DEF ToBeListed, TypeInv, TypeOK
    <2> QED BY <1>2, <2>1 DEF AtStream, ToBeListed
  <1>9. CASE u = t
    <2>1. Deliver(w, msg) /\ SaysStored(msg, t)
      BY <1>3, <1>5, <1>9 DEF SaysStored
    <2>2. InStream(w, t)'
      BY <1>2, <1>3, <2>1, DeliveredIsTold
    <2> QED BY <2>2 DEF AtStream
  <1>10. ~InHand(w, t)
    BY <1>2 DEF InHand
  <1> QED BY <1>6, <1>7, <1>8, <1>9, <1>10 DEF AtStream

\* A stream takes an event off its channel and holds it.
LEMMA TakesFromChan ==
    ASSUME TypeInv, EventsKept, NEW w \in Watchers, NEW t \in Tasks, Receive(w),
           AtStream(w, t)
    PROVE  AtStream(w, t)'
  <1>1. /\ rows' = rows /\ stream' = stream /\ wpc[w] = "loop" /\ wpc'[w] = "send"
        /\ chan[w] # <<>> /\ chan'[w] = Tail(chan[w]) /\ current'[w] = Head(chan[w])
    BY DEF Receive, Goto, storeVars, TypeInv, TypeOK
  <1>2. CASE InStream(w, t)
    <2>1. InStream(w, t)'
      BY <1>1, <1>2, InStreamStays
    <2> QED BY <2>1 DEF AtStream
  <1>3. CASE InChan(w, t)
    <2>1. PICK k \in DOMAIN chan[w] : SaysStored(events[chan[w][k]], t)
      BY <1>3 DEF InChan
    <2>2. /\ Head(chan[w]) = chan[w][1] /\ Len(chan[w]) \in Nat \ {0}
          /\ \A j \in 1..Len(chan[w]) - 1 : chan'[w][j] = chan[w][j + 1]
          /\ DOMAIN chan[w] = 1..Len(chan[w]) /\ DOMAIN chan'[w] = 1..Len(chan[w]) - 1
      <3>1. chan[w] \in Seq(DOMAIN events)
        BY DEF TypeInv, TypeOK
      <3> QED BY <1>1, <3>1, HeadOfChan, LenProperties
    <2>3. /\ events'[chan[w][k]].task = t /\ events'[chan[w][k]].version = rows'[t].version
      BY <1>1, <2>1, EventIndices DEF SaysStored, EventsKept
    <2>4. CASE k = 1
      <3>1. SaysStored(events[current[w]], t)'
        BY <1>1, <2>2, <2>3, <2>4 DEF SaysStored
      <3> QED BY <1>1, <3>1 DEF AtStream, InHand
    <2>5. CASE k # 1
      <3>1. PICK j \in 1..Len(chan[w]) - 1 : k = j + 1
        <4>1. k - 1 \in 1..Len(chan[w]) - 1 /\ k = (k - 1) + 1
          BY <2>2, <2>5
        <4> QED BY <4>1
      <3>2. j \in DOMAIN chan'[w] /\ chan'[w][j] = chan[w][k]
        BY <2>2, <3>1
      <3>3. SaysStored(events[chan[w][j]], t)'
        BY <2>3, <3>2 DEF SaysStored
      <3> QED BY <3>2, <3>3 DEF AtStream, InChan
    <2> QED BY <2>4, <2>5
  <1>4. ~InHand(w, t) /\ ~ToBeListed(w, t)
    BY <1>1 DEF InHand, ToBeListed
  <1> QED BY <1>2, <1>3, <1>4 DEF AtStream

\* A stream sends the event it holds.
LEMMA HandsOn ==
    ASSUME TypeInv, EventsKept, NEW w \in Watchers, NEW t \in Tasks, Send(w),
           AtStream(w, t)
    PROVE  AtStream(w, t)'
  <1> DEFINE e == events[current[w]]
             msg == [kind |-> "event", task |-> e.task, version |-> e.version,
                     sequence |-> e.sequence]
  <1>1. rows' = rows /\ chan' = chan /\ wpc[w] = "send" /\ Deliver(w, msg)
    BY DEF Send, storeVars
  <1>2. e \in Event
    BY <1>1, EventIndices
  <1>3. msg \in Message /\ msg.kind = "event" /\ msg.task = e.task /\ msg.version = e.version
    BY <1>2, MessageKinds DEF Event
  <1>4. CASE InHand(w, t)
    <2>1. SaysStored(msg, t)
      BY <1>3, <1>4 DEF InHand, SaysStored
    <2> HIDE DEF msg
    <2>2. InStream(w, t)'
      BY <1>1, <1>3, <2>1, DeliveredIsTold
    <2> QED BY <2>2 DEF AtStream
  <1> HIDE DEF msg
  <1>5. CASE InStream(w, t)
    <2>1. InStream(w, t)'
      BY <1>1, <1>3, <1>5, StillTold
    <2> QED BY <2>1 DEF AtStream
  <1>6. CASE InChan(w, t)
    <2>1. InChan(w, t)'
      BY <1>1, <1>6, InChanStays
    <2> QED BY <2>1 DEF AtStream
  <1>7. ~ToBeListed(w, t)
    BY <1>1 DEF ToBeListed
  <1> QED BY <1>4, <1>5, <1>6, <1>7 DEF AtStream

\* The end of the snapshot and a heartbeat are messages that say nothing of a
\* task; when the snapshot ends no task is left to be listed.
LEMMA TellsNothing ==
    ASSUME TypeInv, EventsKept, NEW w \in Watchers, NEW t \in Tasks,
           SnapshotComplete(w) \/ Heartbeat(w), AtStream(w, t)
    PROVE  AtStream(w, t)'
  <1>1. /\ rows' = rows /\ chan' = chan /\ wpc[w] # "send"
        /\ wpc[w] = "snapshot" => unlisted[w] = {}
    BY DEF SnapshotComplete, Heartbeat, storeVars
  <1>2. CASE InStream(w, t)
    <2>1. PICK msg \in Message : Deliver(w, msg)
      <3>1. seq[w] + 1 \in Nat
        BY DEF TypeInv, TypeOK
      <3>2. /\ [kind |-> "snapshot_complete", sequence |-> seq[w] + 1] \in Message
            /\ [kind |-> "heartbeat", sequence |-> seq[w] + 1] \in Message
        BY <3>1 DEF Message
      <3> QED BY <3>2 DEF SnapshotComplete, Heartbeat
    <2>2. InStream(w, t)'
      BY <1>1, <1>2, <2>1, StillTold
    <2> QED BY <2>2 DEF AtStream
  <1>3. CASE InChan(w, t)
    <2>1. InChan(w, t)'
      BY <1>1, <1>3, InChanStays
    <2> QED BY <2>1 DEF AtStream
  <1>4. ~ToBeListed(w, t) /\ ~InHand(w, t)
    BY <1>1 DEF ToBeListed, InHand
  <1> QED BY <1>2, <1>3, <1>4 DEF AtStream

\* What the streams' own steps do leaves what is owed on its way.
LEMMA DebtStreams ==
    ASSUME TypeInv, DeliveryInv, EventsKept, NEW v \in Watchers,
           Subscribe(v) \/ ServeStep(v) \/ Heartbeat(v) \/ Disconnect(v) \/ LeaveStep(v)
    PROVE  DebtInv'
  <1> SUFFICES ASSUME NEW w \in Watchers, NEW t \in Tasks, OwedTo(w, t)'
               PROVE  OnItsWay(w, t)'
    BY DEF DebtInv
  <1>1. UNCHANGED <<rows, mpc, reading, ready, left, dropped, unpublished>>
    BY DEF Subscribe, ServeStep, Heartbeat, Disconnect, LeaveStep, SendHeader, SnapshotNext,
           SnapshotComplete, Receive, Send, Unsubscribe, CloseChan, storeVars, mutVars, histVars
  <1>2. CASE SendHeader(v) /\ v = w
    <2>1. w \in IncludeInitial /\ Exists(t)
      BY <1>1 DEF OwedTo, Exists
    <2>2. wpc'[w] = "snapshot" /\ t \in unlisted'[w]
      BY <1>2, <2>1 DEF SendHeader, Goto, TypeInv, TypeOK
    <2> QED BY <2>2 DEF OnItsWay, AtStream, ToBeListed
  <1>3. CASE ~(SendHeader(v) /\ v = w)
    <2>1. wpc'[w] \in {"snapshot", "loop", "send"} => wpc[w] \in {"snapshot", "loop", "send"}
      BY <1>3 DEF Subscribe, ServeStep, Heartbeat, Disconnect, LeaveStep, SendHeader,
             SnapshotNext, SnapshotComplete, Receive, Send, Unsubscribe, CloseChan, Goto,
             TypeInv, TypeOK
    <2>2. OwedTo(w, t)
      BY <1>1, <2>1, OwedBefore
    <2>3. OnItsWay(w, t)
      BY <2>2 DEF DeliveryInv, DebtInv
    <2>4. ASSUME NEW n \in Mutators, Coming(n, w, t) PROVE OnItsWay(w, t)'
      <3>1. Coming(n, w, t)'
        BY <1>1, <2>4, ComingStays
      <3> QED BY <3>1 DEF OnItsWay
    <2>5. ASSUME AtStream(w, t), v # w PROVE AtStream(w, t)'
      <3>1. chan'[w] = chan[w] /\ wpc'[w] = wpc[w] /\ current'[w] = current[w]
            /\ unlisted'[w] = unlisted[w]
        BY <2>5 DEF Subscribe, ServeStep, Heartbeat, Disconnect, LeaveStep, SendHeader,
             SnapshotNext, SnapshotComplete, Receive, Send, Unsubscribe, CloseChan, Goto,
             TypeInv, TypeOK
      <3>2. stream'[w] = stream[w]
        <4>1. stream' = stream \/ \E msg : Deliver(v, msg)
          BY DEF Subscribe, ServeStep, Heartbeat, Disconnect, LeaveStep, SendHeader,
             SnapshotNext, SnapshotComplete, Receive, Send, Unsubscribe, CloseChan
        <4> QED BY <2>5, <4>1 DEF Deliver, TypeInv, TypeOK
      <3> QED BY <1>1, <2>5, <3>1, <3>2, StreamStays
    <2>6. ASSUME AtStream(w, t), v = w PROVE AtStream(w, t)'
      <3>1. ~Subscribe(w) /\ ~SendHeader(w) /\ ~LeaveStep(w)
        BY <2>2 DEF OwedTo, Subscribe, SendHeader, LeaveStep, Unsubscribe, CloseChan
      <3>2. ~Disconnect(w)
        <4>1. wpc'[w] # "leave"
          BY DEF OwedTo
        <4> QED BY <4>1 DEF Disconnect, Goto, TypeInv, TypeOK
      <3>3. matchesFilter(w, rows[t])
        BY <2>2 DEF OwedTo
      <3> QED BY <2>6, <3>1, <3>2, <3>3, TakesFromList, TakesFromChan, HandsOn, TellsNothing
              DEF ServeStep
    <2> QED BY <2>3, <2>4, <2>5, <2>6 DEF OnItsWay
  <1> QED BY <1>2, <1>3

\* Every step keeps what is owed on its way.
LEMMA DeliveryStep == TypeInv /\ BusInv /\ DeliveryInv /\ [Next]_vars => DeliveryInv'
  <1> SUFFICES ASSUME TypeInv, BusInv, DeliveryInv, [Next]_vars PROVE DeliveryInv'
    OBVIOUS
  <1>1. EventsKept
    BY EventsAreKept
  <1>2. RowsInv'
    BY EventsStep, ReadStep DEF DeliveryInv, RowsInv
  <1>3. ASSUME UNCHANGED vars PROVE DebtInv'
    BY <1>3 DEF vars, DeliveryInv, DebtInv, OwedTo, OnItsWay, Coming, ToBeRead, ToBePublished,
                AtStream, InChan, InHand, InStream, ToBeListed, SaysStored, Exists,
                matchesFilter, Range
  <1>4. DebtInv'
    BY <1>1, <1>3, DebtCommit, DebtMutators, DebtStreams DEF Next
  <1> QED BY <1>2, <1>4 DEF DeliveryInv

\* When nothing is in progress any more, a stream with a snapshot that lost no
\* event has told its client the stored version of every task it asked for: a
\* change is in the snapshot or in an event, however the listing, the commits,
\* the read-backs and the publishing of any number of RPCs interleave.
THEOREM StreamsUpToDate == Spec => []UpToDate
  <1>1. Spec => [](TypeInv /\ BusInv /\ DeliveryInv)
    BY TypeInvInit, TypeStep, BusInit, BusStep, DeliveryInit, DeliveryStep, PTL DEF Spec
  <1>2. TypeInv /\ DeliveryInv => UpToDate
    <2> SUFFICES ASSUME TypeInv, DeliveryInv, NEW w \in IncludeInitial,
                        Quiet(w), dropped[w] = {}, NEW t \in Tasks,
                        Exists(t), matchesFilter(w, rows[t]),
                        <<t, rows[t].version>> \notin unpublished
                 PROVE  \E k \in DOMAIN stream[w] :
                            /\ stream[w][k].kind \in {"initial", "event"}
                            /\ stream[w][k].task = t
                            /\ stream[w][k].version = rows[t].version
      BY DEF UpToDate
    <2>1. w \in Watchers /\ wpc[w] = "loop" /\ chan[w] = <<>>
      BY ConstantsAssumption DEF Quiet
    <2>2. OwedTo(w, t)
      BY <2>1 DEF OwedTo
    <2>3. OnItsWay(w, t)
      BY <2>1, <2>2 DEF DeliveryInv, DebtInv
    <2>4. \A m \in Mutators : ~Coming(m, w, t)
      BY DEF Quiet, Coming, ToBeRead, ToBePublished
    <2>5. DOMAIN chan[w] = {}
      BY <2>1
    <2>6. ~InChan(w, t) /\ ~InHand(w, t) /\ ~ToBeListed(w, t)
      BY <2>1, <2>5 DEF InChan, InHand, ToBeListed
    <2>7. InStream(w, t)
      BY <2>3, <2>4, <2>6 DEF OnItsWay, AtStream
    <2> QED BY <2>7 DEF InStream, SaysStored
  <1> QED BY <1>1, <1>2, PTL
=============================================================================
