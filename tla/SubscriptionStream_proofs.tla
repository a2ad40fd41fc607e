--------------------- MODULE SubscriptionStream_proofs ---------------------
(***************************************************************************)
(* What one subscription handle guarantees for every buffer size, policy   *)
(* and number of goroutines that try to end it.                            *)
(***************************************************************************)
EXTENDS SubscriptionStream, SequenceTheorems, TLAPS

StateEvent == [seq : Nat, state : LiveStates \cup Endings]

---------------------------------------------------------------------------
(* The queue helpers.                                                      *)

\* enqueueSubscriptionState keeps the queue within its capacity.
LEMMA EnqueueStateType ==
    ASSUME NEW queue \in Seq(StateEvent), Len(queue) <= StateBuffer,
           NEW event \in StateEvent
    PROVE  /\ EnqueueState(queue, event) \in Seq(StateEvent)
           /\ Len(EnqueueState(queue, event)) <= StateBuffer
           /\ Len(EnqueueState(queue, event)) =
                Len(queue) + (IF Len(queue) < StateBuffer THEN 1 ELSE 0)
           /\ EnqueueState(queue, event)[Len(EnqueueState(queue, event))] = event
           /\ \A i \in 1..(Len(EnqueueState(queue, event)) - 1) :
                EnqueueState(queue, event)[i] =
                  queue[IF Len(queue) < StateBuffer THEN i ELSE i + 1]
<1>1. CASE Len(queue) < StateBuffer
  BY <1>1, ConfigAssumption DEF EnqueueState
<1>2. CASE ~(Len(queue) < StateBuffer)
  <2>1. Len(queue) = StateBuffer /\ queue # <<>>
    BY <1>2, ConfigAssumption
  <2>2. /\ Tail(queue) \in Seq(StateEvent) /\ Len(Tail(queue)) = StateBuffer - 1
        /\ \A i \in 1..(StateBuffer - 1) : Tail(queue)[i] = queue[i + 1]
    BY <2>1, HeadTailProperties
  <2>3. EnqueueState(queue, event) = Append(Tail(queue), event)
    BY <1>2 DEF EnqueueState
  <2> QED BY <2>1, <2>2, <2>3, ConfigAssumption
<1> QED BY <1>1, <1>2

\* The non-blocking send on the error channel keeps it within its capacity.
LEMMA ReportToType ==
    ASSUME NEW queue \in Seq({"dropped", "error"}), Len(queue) <= ErrorBuffer,
           NEW err \in {"dropped", "error"}
    PROVE  /\ ReportTo(queue, err) \in Seq({"dropped", "error"})
           /\ Len(ReportTo(queue, err)) <= ErrorBuffer
BY DEF ReportTo, ErrorBuffer

\* Receiving from a channel removes its oldest element.
LEMMA TailType ==
    ASSUME NEW S, NEW queue \in Seq(S), queue # <<>>
    PROVE  /\ Head(queue) \in S /\ Head(queue) = queue[1]
           /\ Tail(queue) \in Seq(S) /\ Len(Tail(queue)) = Len(queue) - 1
           /\ \A i \in 1..(Len(queue) - 1) : Tail(queue)[i] = queue[i + 1]
           /\ Len(queue) \in Nat \ {0}
BY HeadTailProperties, EmptySeq, LenProperties
---------------------------------------------------------------------------
(* Type correctness.                                                       *)

\* A state event keeps the states channel and its counters well typed.
LEMMA EmitStateType ==
    ASSUME TypeOK, NEW state \in LiveStates \cup Endings, EmitState(state)
    PROVE  /\ states' \in Seq(StateEvent) /\ Len(states') <= StateBuffer
           /\ stateSeq' \in Nat /\ coalesced' \in Nat
<1>1. [seq |-> stateSeq + 1, state |-> state] \in StateEvent
  BY DEF TypeOK, StateEvent
<1>2. states \in Seq(StateEvent) /\ Len(states) <= StateBuffer
  BY DEF TypeOK, StateEvent
<1>3. states' \in Seq(StateEvent) /\ Len(states') <= StateBuffer
  BY <1>1, <1>2, EnqueueStateType DEF EmitState
<1> QED BY <1>3 DEF EmitState, TypeOK

\* Every step of the manager, of a closer and of the application keeps the
\* state well typed.
LEMMA TypeStep == TypeOK /\ [Next]_vars => TypeOK'
<1> SUFFICES ASSUME TypeOK, [Next]_vars PROVE TypeOK'
  OBVIOUS
<1> USE ConfigAssumption DEF queues, eventLog, stateLog, closing, NoEvent, NoState,
                             NoCloser
<1>1. CASE DeliverBegin BY <1>1 DEF TypeOK, DeliverBegin
<1>2. CASE DeliverUndecodable
  BY <1>2, ReportToType DEF TypeOK, DeliverUndecodable
<1>3. CASE DeliverSend
  <2>1. inflight \in 1..MaxEvents BY <1>3 DEF DeliverSend, TypeOK
  <2>2. events' \in Seq(1..MaxEvents) /\ Len(events') <= EventBuffer
    BY <1>3, <2>1, AppendProperties DEF DeliverSend, TypeOK
  <2>3. evicted' \in BOOLEAN BY <1>3, Zenon DEF DeliverSend
  <2> QED BY <1>3, <2>2, <2>3 DEF TypeOK, DeliverSend
<1>4. CASE DeliverEvictOldest
  <2>1. events # <<>> BY <1>4 DEF DeliverEvictOldest, TypeOK
  <2>2. events \in Seq(1..MaxEvents) /\ Len(events) <= EventBuffer BY DEF TypeOK
  <2>3. events' \in Seq(1..MaxEvents) /\ Len(events') <= EventBuffer
    BY <1>4, <2>1, <2>2, TailType DEF DeliverEvictOldest
  <2> QED BY <1>4, <2>3 DEF TypeOK, DeliverEvictOldest
<1>5. CASE DeliverDrop
  <2>1. errors' \in Seq({"dropped", "error"}) /\ Len(errors') <= ErrorBuffer
    BY <1>5, ReportToType DEF DeliverDrop, TypeOK
  <2>2. evicted' \in BOOLEAN BY <1>5, Zenon DEF DeliverDrop
  <2> QED BY <1>5, <2>1, <2>2 DEF TypeOK, DeliverDrop
<1>6. CASE DeliverAbandon BY <1>6 DEF TypeOK, DeliverAbandon
<1>7. CASE Report BY <1>7, ReportToType DEF TypeOK, Report
<1>8. ASSUME NEW state \in LiveStates, StateChange(state) PROVE TypeOK'
  BY <1>8, EmitStateType DEF TypeOK, StateChange, StateEvent
<1>9. CASE CancelContext BY <1>9 DEF TypeOK, CancelContext
<1>10. ASSUME NEW c \in Closers, NEW how \in Endings, EnterOnce(c, how) PROVE TypeOK'
  BY <1>10 DEF TypeOK, EnterOnce
<1>11. ASSUME NEW c \in Closers, LeaveRegistry(c) PROVE TypeOK'
  BY <1>11 DEF TypeOK, LeaveRegistry
<1>12. ASSUME NEW c \in Closers, Finish(c) PROVE TypeOK'
  <2>1. ending \in LiveStates \cup Endings BY DEF TypeOK
  <2>2. /\ states' \in Seq(StateEvent) /\ Len(states') <= StateBuffer
        /\ stateSeq' \in Nat /\ coalesced' \in Nat
    BY <1>12, <2>1, EmitStateType DEF Finish
  <2>3. errors' \in Seq({"dropped", "error"}) /\ Len(errors') <= ErrorBuffer
    BY <1>12, ReportToType DEF Finish, TypeOK
  <2> QED BY <1>12, <2>2, <2>3 DEF TypeOK, Finish, StateEvent
<1>13. ASSUME NEW c \in Closers, LoseOnce(c) PROVE TypeOK'
  BY <1>13 DEF TypeOK, LoseOnce
<1>14. CASE TakeEvent BY <1>14, TailType DEF TypeOK, TakeEvent
<1>15. CASE TakeError
  <2>1. Tail(errors) \in Seq({"dropped", "error"}) /\ Len(Tail(errors)) <= ErrorBuffer
    BY <1>15, TailType DEF TypeOK, TakeError, ErrorBuffer
  <2> QED BY <1>15, <2>1 DEF TypeOK, TakeError
<1>16. CASE TakeState
  <2>1. Head(states).seq \in Nat
    <3>1. states \in Seq(StateEvent) /\ states # <<>>
      BY <1>16 DEF TypeOK, TakeState, StateEvent
    <3>2. Head(states) \in StateEvent BY <3>1, TailType
    <3> QED BY <3>2 DEF StateEvent
  <2>2. /\ Tail(states) \in Seq(StateEvent) /\ Len(Tail(states)) <= StateBuffer
    BY <1>16, TailType DEF TypeOK, TakeState, StateEvent
  <2> QED BY <1>16, <2>1, <2>2 DEF TypeOK, TakeState, StateEvent
<1>17. CASE UNCHANGED vars BY <1>17 DEF TypeOK, vars
<1> QED BY <1>1, <1>2, <1>3, <1>4, <1>5, <1>6, <1>7, <1>8, <1>9, <1>10, <1>11, <1>12,
           <1>13, <1>14, <1>15, <1>16, <1>17 DEF Next, Deliver, Closing

\* The three channels never exceed their capacity and every counter of a
\* handle is well typed in every reachable state.
THEOREM TypeCorrect == Spec => []TypeOK
<1>1. Init => TypeOK
  <2> SUFFICES ASSUME Init PROVE TypeOK
    OBVIOUS
  <2>1. /\ events \in Seq(1..MaxEvents) /\ Len(events) <= EventBuffer
        /\ errors \in Seq({"dropped", "error"}) /\ Len(errors) <= ErrorBuffer
        /\ states \in Seq([seq : Nat, state : LiveStates \cup Endings])
        /\ Len(states) <= StateBuffer
    BY ConfigAssumption, EmptySeq DEF Init, ErrorBuffer
  <2>2. /\ closed \in BOOLEAN /\ done \in BOOLEAN /\ ctxDone \in BOOLEAN
        /\ evicted \in BOOLEAN
    BY Zenon DEF Init
  <2> QED BY <2>1, <2>2, ConfigAssumption
          DEF Init, TypeOK, NoEvent, NoState, NoCloser, Endings
<1> QED BY <1>1, TypeStep, PTL DEF Spec
---------------------------------------------------------------------------
(* The end of a handle.                                                    *)

\* once.Do has one winner, the channels are closed by it as its last step, and
\* nobody is inside a delivery from then on.
Lifecycle ==
    /\ winner # NoCloser => done
    /\ \A c \in Closers : c # winner => pc[c] \in {"idle", "returned"}
    /\ \A c \in Closers : pc[c] = "returned" => closed
    /\ closed => winner # NoCloser /\ pc[winner] = "returned" /\ inflight = NoEvent

\* Every step keeps the order in which a handle ends.
LEMMA LifecycleStep == TypeOK /\ Lifecycle /\ [Next]_vars => Lifecycle'
<1> SUFFICES ASSUME TypeOK, Lifecycle, [Next]_vars PROVE Lifecycle'
  OBVIOUS
<1> USE CloserAssumption DEF queues, eventLog, stateLog, closing
<1>1. CASE DeliverBegin
  <2>1. closed => Stopped BY DEF Lifecycle, Stopped
  <2> QED BY <1>1, <2>1 DEF Lifecycle, DeliverBegin
<1>2. CASE Deliver
  BY <1>2 DEF Lifecycle, Deliver, DeliverSend, DeliverEvictOldest, DeliverDrop,
              DeliverAbandon
<1>3. ASSUME NEW c \in Closers, NEW how \in Endings, EnterOnce(c, how)
      PROVE  Lifecycle'
  <2>1. winner = NoCloser /\ winner' = c /\ done' /\ ~closed /\ closed' = closed
    BY <1>3 DEF Lifecycle, EnterOnce
  <2>2. pc' = [pc EXCEPT ![c] = "entered"] BY <1>3 DEF EnterOnce
  <2>3. \A d \in Closers : pc[d] = "idle" BY <2>1 DEF Lifecycle
  <2> QED BY <2>1, <2>2, <2>3 DEF Lifecycle, TypeOK
<1>4. ASSUME NEW c \in Closers, LeaveRegistry(c) PROVE Lifecycle'
  <2>1. c = winner /\ ~closed BY <1>4 DEF Lifecycle, LeaveRegistry
  <2> QED BY <1>4, <2>1 DEF Lifecycle, LeaveRegistry, TypeOK
<1>5. ASSUME NEW c \in Closers, Finish(c) PROVE Lifecycle'
  <2>1. c = winner BY <1>5 DEF Lifecycle, Finish
  <2>2. closed' /\ pc' = [pc EXCEPT ![c] = "returned"] /\ inflight' = NoEvent
    BY <1>5 DEF Finish, LockFree
  <2>3. winner' = winner /\ done' = done BY <1>5 DEF Finish
  <2> QED BY <2>1, <2>2, <2>3 DEF Lifecycle, TypeOK
<1>6. ASSUME NEW c \in Closers, LoseOnce(c) PROVE Lifecycle'
  <2>1. closed /\ c # winner BY <1>6 DEF Lifecycle, LoseOnce, TypeOK
  <2> QED BY <1>6, <2>1 DEF Lifecycle, LoseOnce, TypeOK
<1>7. CASE UNCHANGED <<winner, done, pc, closed, inflight>>
  BY <1>7 DEF Lifecycle
<1>8. ASSUME NEW state \in LiveStates, StateChange(state)
      PROVE  UNCHANGED <<winner, done, pc, closed, inflight>>
  BY <1>8 DEF StateChange
<1>9. DeliverUndecodable \/ Report \/ CancelContext \/ TakeEvent \/ TakeError
        \/ TakeState \/ UNCHANGED vars
      => UNCHANGED <<winner, done, pc, closed, inflight>>
  BY DEF DeliverUndecodable, Report, CancelContext, TakeEvent, TakeError, TakeState,
         vars
<1> QED BY <1>1, <1>2, <1>3, <1>4, <1>5, <1>6, <1>7, <1>8, <1>9 DEF Next, Closing

\* The handle's life cycle is an invariant of the specification.
LEMMA LifecycleHolds == Spec => [](TypeOK /\ Lifecycle)
<1>1. Init => Lifecycle
  BY CloserAssumption DEF Init, Lifecycle
<1>2. TypeOK /\ Lifecycle /\ [Next]_vars => Lifecycle'
  BY LifecycleStep
<1> QED BY <1>1, <1>2, TypeCorrect, PTL DEF Spec

\* No goroutine ever sends on a channel that Close or terminate has closed:
\* deliveries, reports and state changes stop before, for every policy, every
\* buffer size and every number of goroutines ending the handle.
THEOREM ClosedChannelsStayClosed == Spec => NoSendOnClosed
<1> DEFINE Quiet == closed => /\ Len(events') <= Len(events)
                              /\ Len(errors') <= Len(errors)
                              /\ Len(states') <= Len(states)
<1>1. ASSUME TypeOK, Lifecycle, [Next]_vars PROVE [Quiet]_vars
  <2> SUFFICES ASSUME closed, ~UNCHANGED vars
               PROVE  /\ Len(events') <= Len(events)
                      /\ Len(errors') <= Len(errors)
                      /\ Len(states') <= Len(states)
    OBVIOUS
  <2> USE DEF queues, eventLog, stateLog, closing
  <2>0. /\ Len(events) \in Nat /\ Len(errors) \in Nat /\ Len(states) \in Nat
        /\ done /\ Stopped /\ inflight = NoEvent
        /\ \A c \in Closers : pc[c] \notin {"entered", "removed"}
    <3>1. Len(events) \in Nat /\ Len(errors) \in Nat /\ Len(states) \in Nat BY <1>1 DEF TypeOK
    <3>2. done /\ winner # NoCloser /\ pc[winner] = "returned" /\ inflight = NoEvent BY <1>1 DEF Lifecycle
    <3>3. \A c \in Closers : pc[c] \notin {"entered", "removed"} BY <1>1, <3>2 DEF Lifecycle
    <3> QED BY <3>1, <3>2, <3>3 DEF Stopped
  <2>1. CASE UNCHANGED <<events, errors, states>>
    BY <2>0, <2>1
  <2>2. DeliverBegin => UNCHANGED <<events, errors, states>>
    BY DEF DeliverBegin
  <2>3. ~DeliverUndecodable /\ ~Deliver /\ ~Report
    BY <2>0 DEF DeliverUndecodable, Deliver, DeliverSend, DeliverEvictOldest,
                DeliverDrop, DeliverAbandon, Report
  <2>4. \A state \in LiveStates : ~StateChange(state)
    BY <2>0 DEF StateChange
  <2>5. CancelContext => UNCHANGED <<events, errors, states>>
    BY DEF CancelContext
  <2>6. ASSUME NEW c \in Closers, Closing(c)
        PROVE  UNCHANGED <<events, errors, states>>
    BY <2>0, <2>6 DEF Closing, EnterOnce, LeaveRegistry, Finish, LoseOnce
  <2>7. CASE TakeEvent
    <3>1. Len(Tail(events)) = Len(events) - 1
      BY <1>1, <2>7, TailType DEF TakeEvent, TypeOK
    <3> QED BY <2>0, <2>7, <3>1 DEF TakeEvent
  <2>8. CASE TakeError
    <3>1. Len(Tail(errors)) = Len(errors) - 1
      BY <1>1, <2>8, TailType DEF TakeError, TypeOK
    <3> QED BY <2>0, <2>8, <3>1 DEF TakeError
  <2>9. CASE TakeState
    <3>1. Len(Tail(states)) = Len(states) - 1
      BY <1>1, <2>9, TailType DEF TakeState, TypeOK
    <3> QED BY <2>0, <2>9, <3>1 DEF TakeState
  <2> QED BY <1>1, <2>1, <2>2, <2>3, <2>4, <2>5, <2>6, <2>7, <2>8, <2>9 DEF Next
<1> QED BY <1>1, LifecycleHolds, PTL DEF Spec, NoSendOnClosed
---------------------------------------------------------------------------
(* The states channel.                                                     *)

\* Emitting a state event moves the window on, whether or not the channel is
\* full.
LEMMA EmitStateWindow ==
    ASSUME TypeOK, StateWindow, NEW state \in LiveStates \cup Endings,
           EmitState(state), UNCHANGED <<seenSeq, seen>>
    PROVE  /\ StateWindow'
           /\ states' # <<>>
           /\ states'[Len(states')] = [seq |-> stateSeq', state |-> state]
<1> DEFINE event == [seq |-> stateSeq + 1, state |-> state]
<1>0. stateSeq \in Nat /\ seenSeq \in Nat /\ seen \in Nat /\ coalesced \in Nat
  BY DEF TypeOK
<1>1. event \in StateEvent /\ states \in Seq(StateEvent) /\ Len(states) <= StateBuffer
      /\ Len(states) \in Nat
  BY DEF TypeOK, StateEvent
<1>2. /\ states' = EnqueueState(states, event) /\ stateSeq' = stateSeq + 1
      /\ coalesced' = coalesced + (IF Len(states) < StateBuffer THEN 0 ELSE 1)
  BY DEF EmitState
<1>2a. stateSeq' = stateSeq + 1
  BY <1>2
<1>3. /\ states' \in Seq(StateEvent)
      /\ Len(states') = Len(states) + (IF Len(states) < StateBuffer THEN 1 ELSE 0)
      /\ states'[Len(states')] = event
      /\ \A i \in 1..(Len(states') - 1) :
           states'[i] = states[IF Len(states) < StateBuffer THEN i ELSE i + 1]
  BY <1>1, <1>2, EnqueueStateType
<1>4. Len(states') \in Nat \ {0}
  BY <1>1, <1>3, ConfigAssumption
<1>5. states' # <<>>
  BY <1>4
<1>6. \A i \in 1..Len(states') : states'[i].seq = (stateSeq' - Len(states')) + i
  <2> SUFFICES ASSUME NEW i \in 1..Len(states')
               PROVE  states'[i].seq = (stateSeq' - Len(states')) + i
    OBVIOUS
  <2>1. CASE i = Len(states')
    <3>1. states'[i].seq = stateSeq + 1 BY <1>3, <2>1
    <3> QED BY <1>0, <1>2a, <1>4, <2>1, <3>1
  <2>2. CASE i # Len(states')
    <3>1. i \in 1..(Len(states') - 1) BY <1>4, <2>2
    <3>2. \A j \in 1..Len(states) : states[j].seq = (stateSeq - Len(states)) + j
      BY DEF StateWindow
    <3>3. CASE Len(states) < StateBuffer
      <4>1. states'[i] = states[i] /\ Len(states') = Len(states) + 1
        BY <1>1, <1>3, <3>1, <3>3
      <4>2. i \in 1..Len(states) BY <1>1, <3>1, <4>1
      <4>3. states'[i].seq = (stateSeq - Len(states)) + i BY <3>2, <4>1, <4>2
      <4>4. Len(states') = Len(states) + 1 /\ Len(states) \in Nat BY <1>1, <4>1
      <4> QED BY <1>0, <1>2a, <4>3, <4>4
    <3>4. CASE ~(Len(states) < StateBuffer)
      <4>1. states'[i] = states[i + 1] /\ Len(states') = Len(states)
        BY <1>1, <1>3, <3>1, <3>4
      <4>2. i + 1 \in 1..Len(states) BY <1>1, <3>1, <4>1
      <4>3. states'[i].seq = (stateSeq - Len(states)) + (i + 1)
        BY <3>2, <4>1, <4>2
      <4>4. Len(states') = Len(states) /\ Len(states) \in Nat BY <1>1, <4>1
      <4> QED BY <1>0, <1>2a, <4>3, <4>4
    <3> QED BY <3>3, <3>4
  <2> QED BY <2>1, <2>2
<1>7. seenSeq' <= stateSeq' - Len(states') /\ stateSeq' = seen' + Len(states') + coalesced'
  <2>1. /\ seenSeq <= stateSeq - Len(states)
        /\ stateSeq = seen + Len(states) + coalesced
    BY DEF StateWindow
  <2>2. seenSeq' = seenSeq /\ seen' = seen OBVIOUS
  <2>3. CASE Len(states) < StateBuffer
    <3>1. Len(states') = Len(states) + 1 /\ coalesced' = coalesced
      BY <1>0, <1>2, <1>3, <2>3
    <3>2. Len(states) \in Nat BY <1>1
    <3> QED BY <1>0, <1>2a, <2>1, <2>2, <3>1, <3>2
  <2>4. CASE ~(Len(states) < StateBuffer)
    <3>1. Len(states') = Len(states) /\ coalesced' = coalesced + 1
      BY <1>1, <1>2, <1>3, <2>4
    <3>2. Len(states) \in Nat BY <1>1
    <3> QED BY <1>0, <1>2a, <2>1, <2>2, <3>1, <3>2
  <2> QED BY <2>3, <2>4
<1> QED BY <1>2, <1>3, <1>5, <1>6, <1>7 DEF StateWindow

\* Receiving a state event moves the window on at its old end.
LEMMA TakeStateWindow ==
    ASSUME TypeOK, StateWindow, TakeState
    PROVE  /\ StateWindow'
           /\ states' = <<>> => seenSeq' = stateSeq'
           /\ states' # <<>> => states'[Len(states')] = states[Len(states)]
<1>1. states \in Seq(StateEvent) /\ states # <<>>
  BY DEF TypeOK, StateEvent, TakeState
<1>2. /\ seenSeq' = Head(states).seq /\ states' = Tail(states) /\ seen' = seen + 1
      /\ stateSeq' = stateSeq /\ coalesced' = coalesced
  BY DEF TakeState
<1>3. /\ Head(states) = states[1] /\ Len(states) \in Nat \ {0}
      /\ Len(states') = Len(states) - 1 /\ states' \in Seq(StateEvent)
      /\ \A i \in 1..(Len(states) - 1) : states'[i] = states[i + 1]
  BY <1>1, <1>2, TailType
<1>t. stateSeq \in Nat /\ seen \in Nat /\ coalesced \in Nat
  BY DEF TypeOK
<1>w. \A j \in 1..Len(states) : states[j].seq = (stateSeq - Len(states)) + j
  BY DEF StateWindow
<1>4. seenSeq' = stateSeq' - Len(states')
  <2>1. 1 \in 1..Len(states) BY <1>3
  <2> QED BY <1>t, <1>w, <1>2, <1>3, <2>1
<1>5. \A i \in 1..Len(states') : states'[i].seq = (stateSeq' - Len(states')) + i
  <2> SUFFICES ASSUME NEW i \in 1..Len(states')
               PROVE  states'[i].seq = (stateSeq' - Len(states')) + i
    OBVIOUS
  <2>1. i + 1 \in 1..Len(states) /\ states'[i] = states[i + 1] BY <1>3
  <2> QED BY <1>t, <1>w, <1>2, <1>3, <2>1
<1>6. stateSeq' = seen' + Len(states') + coalesced'
  BY <1>t, <1>2, <1>3 DEF StateWindow
<1>7. states' = <<>> => seenSeq' = stateSeq'
  <2>1. states' = <<>> => Len(states') = 0 OBVIOUS
  <2> QED BY <1>t, <1>2, <1>4, <2>1
<1>8. states' # <<>> => states'[Len(states')] = states[Len(states)]
  <2> SUFFICES ASSUME states' # <<>> PROVE states'[Len(states')] = states[Len(states)]
    OBVIOUS
  <2>1. Len(states') # 0 BY <1>3, EmptySeq
  <2>2. Len(states) - 1 \in 1..(Len(states) - 1) BY <1>3, <2>1
  <2> QED BY <1>3, <2>2
<1>9. seenSeq' <= stateSeq' - Len(states')
  BY <1>t, <1>2, <1>3, <1>4
<1> QED BY <1>5, <1>6, <1>7, <1>8, <1>9 DEF StateWindow

\* Every step keeps the window and, after the close, the terminal event.
LEMMA StatesStep ==
    TypeOK /\ Lifecycle /\ StateWindow /\ TerminalStateLast /\ [Next]_vars
      => StateWindow' /\ TerminalStateLast'
<1> SUFFICES ASSUME TypeOK, Lifecycle, StateWindow, TerminalStateLast, [Next]_vars
             PROVE  StateWindow' /\ TerminalStateLast'
  OBVIOUS
<1> USE DEF queues, eventLog, stateLog, closing
<1>1. ASSUME NEW state \in LiveStates, StateChange(state)
      PROVE  StateWindow' /\ TerminalStateLast'
  <2>1. ~closed /\ closed' = closed
    BY <1>1 DEF StateChange, Lifecycle
  <2>2. StateWindow' BY <1>1, EmitStateWindow DEF StateChange
  <2> QED BY <2>1, <2>2 DEF TerminalStateLast
<1>2. ASSUME NEW c \in Closers, Finish(c)
      PROVE  StateWindow' /\ TerminalStateLast'
  <2>1. ending \in LiveStates \cup Endings /\ ending' = ending
    BY <1>2 DEF TypeOK, Finish
  <2>2. /\ StateWindow' /\ states' # <<>>
        /\ states'[Len(states')] = [seq |-> stateSeq', state |-> ending]
    BY <1>2, <2>1, EmitStateWindow DEF Finish
  <2> QED BY <2>1, <2>2 DEF TerminalStateLast
<1>3. CASE TakeState
  <2>1. /\ StateWindow' /\ (states' = <<>> => seenSeq' = stateSeq')
        /\ (states' # <<>> => states'[Len(states')] = states[Len(states)])
    BY <1>3, TakeStateWindow
  <2>2. /\ closed' = closed /\ ending' = ending /\ stateSeq' = stateSeq /\ states # <<>>
    BY <1>3 DEF TakeState
  <2> QED BY <2>1, <2>2 DEF TerminalStateLast
<1>4. ASSUME NEW c \in Closers, NEW how \in Endings, EnterOnce(c, how)
      PROVE  StateWindow' /\ TerminalStateLast'
  <2>1. ~closed /\ closed' = closed BY <1>4 DEF EnterOnce, Lifecycle
  <2>2. UNCHANGED <<states, stateSeq, seenSeq, seen, coalesced>>
    BY <1>4 DEF EnterOnce
  <2> QED BY <2>1, <2>2 DEF StateWindow, TerminalStateLast
<1>5. CASE UNCHANGED <<states, closed, stateSeq, seenSeq, seen, coalesced, ending>>
  BY <1>5 DEF StateWindow, TerminalStateLast
<1>6. ASSUME NEW c \in Closers, LeaveRegistry(c) \/ LoseOnce(c)
      PROVE  UNCHANGED <<states, closed, stateSeq, seenSeq, seen, coalesced, ending>>
  BY <1>6 DEF LeaveRegistry, LoseOnce
<1>7. DeliverBegin \/ DeliverUndecodable \/ Deliver \/ Report \/ CancelContext
        \/ TakeEvent \/ TakeError \/ UNCHANGED vars
      => UNCHANGED <<states, closed, stateSeq, seenSeq, seen, coalesced, ending>>
  BY DEF DeliverBegin, DeliverUndecodable, Deliver, DeliverSend, DeliverEvictOldest,
         DeliverDrop, DeliverAbandon, Report, CancelContext, TakeEvent, TakeError,
         vars
<1> QED BY <1>1, <1>2, <1>3, <1>4, <1>5, <1>6, <1>7 DEF Next, Closing

\* However small the states channel and however slow its reader, what it holds
\* is a contiguous window of the numbering that ends at the newest event, and
\* after the close the terminal event is the last one an observer gets.
THEOREM StatesAreOrdered == Spec => []StatesOrdered
<1>1. Init => StateWindow /\ TerminalStateLast
  BY DEF Init, StateWindow, TerminalStateLast
<1> QED BY <1>1, LifecycleHolds, StatesStep, PTL DEF Spec, StatesOrdered
---------------------------------------------------------------------------
(* The events channel.                                                     *)

\* EventAccounting made inductive: the event in flight is the newest one and
\* newer than all that are queued, and DropOldest leaves room after evicting.
EventOrder ==
    /\ EventAccounting
    /\ taken <= arrived
    /\ \A i \in 1..Len(events) : events[i] <= arrived
    /\ inflight # NoEvent => /\ inflight = arrived /\ taken < inflight
                             /\ \A i \in 1..Len(events) : events[i] < inflight
    /\ evicted => /\ policy = DropOldest /\ inflight # NoEvent
                  /\ Len(events) < EventBuffer

\* A delivery begins: the event is the newest, or given up by a stopped handle.
LEMMA BeginEventOrder ==
    ASSUME TypeOK, EventOrder, DeliverBegin PROVE EventOrder'
<1> USE DEF NoEvent, queues, closing, stateLog
<1>1. /\ inflight = 0 /\ arrived' = arrived + 1 /\ events' = events /\ taken' = taken
      /\ received' = received /\ dropped' = dropped /\ evicted' = evicted
      /\ policy' = policy /\ Stopped' = Stopped
  BY DEF DeliverBegin, LockFree, Stopped
<1>2. /\ arrived \in Nat /\ taken \in Nat /\ received \in Nat /\ dropped \in Nat
      /\ abandoned \in Nat /\ Len(events) \in Nat
      /\ \A i \in 1..Len(events) : events[i] \in Nat
  BY ConfigAssumption DEF TypeOK
<1>e. ~evicted BY <1>1, Zenon DEF EventOrder
<1>3. /\ arrived = received + Len(events) + dropped + abandoned
      /\ taken <= arrived /\ \A i \in 1..Len(events) : events[i] <= arrived
      /\ abandoned > 0 => Stopped
  BY <1>1, <1>2 DEF EventOrder, EventAccounting
<1>4. \/ Stopped /\ abandoned' = abandoned + 1 /\ inflight' = 0
      \/ abandoned' = abandoned /\ inflight' = arrived + 1
  BY <1>1 DEF DeliverBegin
<1>5. \A i \in 1..Len(events) : events[i] > taken
  BY DEF EventOrder, EventAccounting
<1>6. \A i, j \in 1..Len(events) : i < j => events[i] < events[j]
  BY DEF EventOrder, EventAccounting
<1>7. EventAccounting'
  BY <1>1, <1>2, <1>3, <1>4, <1>5, <1>6 DEF EventAccounting
<1> QED BY <1>1, <1>2, <1>3, <1>4, <1>7, <1>e DEF EventOrder

\* The event in flight joins the queue behind all older ones.
LEMMA SendEventOrder ==
    ASSUME TypeOK, EventOrder, DeliverSend PROVE EventOrder'
<1> USE DEF NoEvent, closing, stateLog
<1>1. /\ inflight # 0 /\ inflight' = 0 /\ events' = Append(events, inflight)
      /\ arrived' = arrived /\ taken' = taken /\ received' = received
      /\ dropped' = dropped /\ abandoned' = abandoned /\ ~evicted'
      /\ Stopped' = Stopped
  BY DEF DeliverSend, Stopped
<1>2. /\ arrived \in Nat /\ taken \in Nat /\ received \in Nat /\ dropped \in Nat
      /\ abandoned \in Nat /\ Len(events) \in Nat /\ events \in Seq(Nat)
      /\ inflight \in Nat
  BY ConfigAssumption DEF TypeOK
<1>3. /\ Len(events') = Len(events) + 1 /\ events'[Len(events) + 1] = inflight
      /\ \A i \in 1..Len(events) : events'[i] = events[i]
  BY <1>1, <1>2
<1>4. /\ inflight = arrived /\ taken < inflight
      /\ arrived = received + Len(events) + dropped + abandoned + 1
      /\ abandoned > 0 => Stopped
      /\ \A i \in 1..Len(events) : events[i] < inflight /\ events[i] > taken
      /\ \A i, j \in 1..Len(events) : i < j => events[i] < events[j]
  BY <1>1 DEF EventOrder, EventAccounting
<1>5. \A i \in 1..Len(events') : events'[i] > taken /\ events'[i] <= arrived
  <2> TAKE i \in 1..Len(events')
  <2>1. CASE i = Len(events) + 1 BY <1>2, <1>3, <1>4, <2>1
  <2>2. CASE i \in 1..Len(events)
    <3>1. events'[i] = events[i] /\ events[i] \in Nat BY <1>2, <1>3, <2>2
    <3> QED BY <1>2, <1>4, <2>2, <3>1
  <2> QED BY <1>2, <1>3, <2>1, <2>2
<1>6. \A i, j \in 1..Len(events') : i < j => events'[i] < events'[j]
  <2> SUFFICES ASSUME NEW i \in 1..Len(events'), NEW j \in 1..Len(events'), i < j
               PROVE  events'[i] < events'[j]
    OBVIOUS
  <2>1. i \in 1..Len(events) /\ events'[i] = events[i] BY <1>2, <1>3
  <2>2. CASE j = Len(events) + 1 BY <1>3, <1>4, <2>1, <2>2
  <2>3. CASE j \in 1..Len(events) BY <1>3, <1>4, <2>1, <2>3
  <2> QED BY <1>2, <1>3, <2>2, <2>3
<1>7. EventAccounting'
  BY <1>1, <1>2, <1>3, <1>4, <1>5, <1>6 DEF EventAccounting
<1> QED BY <1>1, <1>2, <1>4, <1>5, <1>7 DEF EventOrder

\* Removing the oldest event keeps the queue in order.
LEMMA TailEventOrder ==
    ASSUME NEW queue \in Seq(Nat), queue # <<>>,
           \A i, j \in 1..Len(queue) : i < j => queue[i] < queue[j]
    PROVE  /\ Len(queue) \in Nat \ {0} /\ queue[1] \in Nat /\ Head(queue) = queue[1]
           /\ Len(Tail(queue)) = Len(queue) - 1
           /\ \A i \in 1..Len(Tail(queue)) :
                /\ i + 1 \in 1..Len(queue) /\ Tail(queue)[i] = queue[i + 1]
                /\ queue[1] < Tail(queue)[i]
           /\ \A i, j \in 1..Len(Tail(queue)) : i < j => Tail(queue)[i] < Tail(queue)[j]
<1>1. /\ Head(queue) = queue[1] /\ Len(Tail(queue)) = Len(queue) - 1
      /\ \A i \in 1..(Len(queue) - 1) : Tail(queue)[i] = queue[i + 1]
      /\ Len(queue) \in Nat \ {0} /\ Head(queue) \in Nat
  BY TailType
<1>2. \A i \in 1..Len(Tail(queue)) :
        /\ i + 1 \in 1..Len(queue) /\ Tail(queue)[i] = queue[i + 1]
        /\ queue[1] < Tail(queue)[i]
  <2> TAKE i \in 1..Len(Tail(queue))
  <2>1. /\ i + 1 \in 1..Len(queue) /\ 1 \in 1..Len(queue) /\ 1 < i + 1
        /\ Tail(queue)[i] = queue[i + 1]
    BY <1>1
  <2> QED BY <2>1
<1>3. \A i, j \in 1..Len(Tail(queue)) : i < j => Tail(queue)[i] < Tail(queue)[j]
  <2> SUFFICES ASSUME NEW i \in 1..Len(Tail(queue)), NEW j \in 1..Len(Tail(queue)), i < j
               PROVE  Tail(queue)[i] < Tail(queue)[j]
    OBVIOUS
  <2>1. i + 1 \in 1..Len(queue) /\ j + 1 \in 1..Len(queue) /\ i + 1 < j + 1
    BY <1>1
  <2> QED BY <1>2, <2>1
<1> QED BY <1>1, <1>2, <1>3

\* The application receives the oldest event, or DropOldest evicts it.
LEMMA RemoveEventOrder ==
    ASSUME TypeOK, EventOrder, TakeEvent \/ DeliverEvictOldest PROVE EventOrder'
<1> USE DEF NoEvent, closing, stateLog, eventLog
<1>1. /\ inflight' = inflight /\ events' = Tail(events) /\ arrived' = arrived
      /\ abandoned' = abandoned /\ policy' = policy /\ Stopped' = Stopped
      /\ events # <<>>
      /\ \/ /\ taken' = Head(events) /\ received' = received + 1 /\ dropped' = dropped
            /\ evicted' = evicted
         \/ /\ taken' = taken /\ received' = received /\ dropped' = dropped + 1
            /\ evicted' /\ policy = DropOldest /\ inflight # 0
  BY ConfigAssumption DEF TakeEvent, DeliverEvictOldest, Stopped
<1>2. /\ arrived \in Nat /\ taken \in Nat /\ received \in Nat /\ dropped \in Nat
      /\ abandoned \in Nat /\ Len(events) \in Nat /\ events \in Seq(Nat)
      /\ inflight \in Nat /\ Len(events) <= EventBuffer
  BY ConfigAssumption DEF TypeOK
<1>3. /\ arrived = received + Len(events) + dropped + abandoned
                   + (IF inflight = 0 THEN 0 ELSE 1)
      /\ (abandoned > 0 => Stopped) /\ taken <= arrived
      /\ \A i \in 1..Len(events) : events[i] > taken /\ events[i] <= arrived
      /\ \A i, j \in 1..Len(events) : i < j => events[i] < events[j]
      /\ inflight # 0 => /\ inflight = arrived /\ taken < inflight
                         /\ \A i \in 1..Len(events) : events[i] < inflight
  BY DEF EventOrder, EventAccounting
<1>4. /\ Len(events) \in Nat \ {0} /\ events[1] \in Nat /\ Head(events) = events[1]
      /\ Len(events') = Len(events) - 1
      /\ \A i \in 1..Len(events') :
           /\ i + 1 \in 1..Len(events) /\ events'[i] = events[i + 1]
           /\ events[1] < events'[i]
      /\ \A i, j \in 1..Len(events') : i < j => events'[i] < events'[j]
  BY <1>1, <1>2, <1>3, TailEventOrder
<1>5. 1 \in 1..Len(events) BY <1>4
<1>6. /\ taken' \in {taken, events[1]} /\ taken' <= arrived
      /\ inflight # 0 => taken' < inflight
  BY <1>1, <1>2, <1>3, <1>4, <1>5
<1>7. \A i \in 1..Len(events') : /\ events'[i] > taken' /\ events'[i] <= arrived
                                 /\ inflight # 0 => events'[i] < inflight
  <2> TAKE i \in 1..Len(events')
  <2>1. /\ i + 1 \in 1..Len(events) /\ events'[i] = events[i + 1]
        /\ events[1] < events'[i]
    BY <1>4
  <2>2. events'[i] \in Nat BY <1>2, <2>1
  <2> QED BY <1>2, <1>3, <1>4, <1>6, <2>1, <2>2
<1>8. EventAccounting'
  <2>1. arrived' = received' + Len(events') + dropped' + abandoned'
                   + (IF inflight' = 0 THEN 0 ELSE 1)
    <3>1. \/ received' = received + 1 /\ dropped' = dropped
          \/ received' = received /\ dropped' = dropped + 1
      BY <1>1, Zenon
    <3>2. Len(events') = Len(events) - 1 /\ abandoned' = abandoned /\ arrived' = arrived
          /\ inflight' = inflight
      BY <1>1, <1>4, Zenon
    <3>3. /\ received \in Nat /\ dropped \in Nat /\ abandoned \in Nat
          /\ Len(events) \in Nat
      BY <1>2, Zenon
    <3>4. arrived = received + Len(events) + dropped + abandoned
                    + (IF inflight = 0 THEN 0 ELSE 1)
      BY <1>3, Zenon
    <3> DEFINE held == IF inflight = 0 THEN 0 ELSE 1
    <3>5. held \in 0..1 OBVIOUS
    <3>6. arrived = received + Len(events) + dropped + abandoned + held BY <3>4
    <3>7. (IF inflight' = 0 THEN 0 ELSE 1) = held BY <3>2
    <3> HIDE DEF held
    <3>8. arrived' = received' + Len(events') + dropped' + abandoned' + held BY <3>1, <3>2, <3>3, <3>5, <3>6
    <3> QED BY <3>7, <3>8
  <2>2. abandoned' > 0 => Stopped' BY <1>1, <1>3
  <2>3. \A i \in 1..Len(events') : events'[i] > taken' BY <1>7
  <2> QED BY <1>4, <2>1, <2>2, <2>3 DEF EventAccounting
<1>9. evicted' => policy' = DropOldest /\ inflight' # 0 /\ Len(events') < EventBuffer
  <2>1. Len(events') < EventBuffer BY <1>2, <1>4, ConfigAssumption
  <2>2. CASE evicted' = evicted /\ inflight' = inflight /\ policy' = policy
    <3>1. evicted' => policy' = DropOldest /\ inflight' # 0
      BY <2>2, Zenon DEF EventOrder
    <3> QED BY <2>1, <3>1, Zenon
  <2>3. CASE policy' = DropOldest /\ inflight' # 0 BY <2>1, <2>3, Zenon
  <2> QED BY <1>1, <2>2, <2>3, Zenon
<1>10. inflight' # 0 => /\ inflight' = arrived' /\ taken' < inflight'
                        /\ \A i \in 1..Len(events') : events'[i] < inflight'
  BY <1>1, <1>3, <1>6, <1>7
<1>11. taken' <= arrived' /\ \A i \in 1..Len(events') : events'[i] <= arrived'
  BY <1>1, <1>6, <1>7
<1> QED BY <1>8, <1>9, <1>10, <1>11, Zenon DEF EventOrder

\* Every step keeps the order of the events and accounts for them.
LEMMA EventOrderStep == TypeOK /\ EventOrder /\ [Next]_vars => EventOrder'
<1> SUFFICES ASSUME TypeOK, EventOrder, [Next]_vars PROVE EventOrder'
  OBVIOUS
<1> USE DEF queues, eventLog, stateLog, closing
<1>1. CASE DeliverBegin BY <1>1, BeginEventOrder
<1>2. CASE DeliverSend BY <1>2, SendEventOrder
<1>3. CASE TakeEvent \/ DeliverEvictOldest BY <1>3, RemoveEventOrder
<1>4. CASE DeliverDrop \/ DeliverAbandon
  <2>1. /\ inflight # NoEvent /\ inflight' = NoEvent /\ events' = events
        /\ arrived' = arrived /\ taken' = taken /\ received' = received
        /\ policy' = policy /\ Stopped' = Stopped /\ ~evicted'
        /\ \/ dropped' = dropped + 1 /\ abandoned' = abandoned
           \/ dropped' = dropped /\ abandoned' = abandoned + 1 /\ Stopped
    BY <1>4 DEF DeliverDrop, DeliverAbandon, Stopped
  <2>2. /\ received \in Nat /\ dropped \in Nat /\ abandoned \in Nat
        /\ Len(events) \in Nat
    BY DEF TypeOK
  <2> QED BY <2>1, <2>2 DEF EventOrder, EventAccounting
<1>5. CASE /\ UNCHANGED <<policy, events, arrived, inflight, evicted, taken, received,
                          dropped, abandoned>>
           /\ Stopped => Stopped'
  BY <1>5 DEF EventOrder, EventAccounting
<1>6. ASSUME NEW state \in LiveStates, StateChange(state) PROVE EventOrder'
  BY <1>5, <1>6 DEF StateChange, Stopped
<1>7. ASSUME NEW c \in Closers, Closing(c) PROVE EventOrder'
  BY <1>5, <1>7 DEF Closing, EnterOnce, LeaveRegistry, Finish, LoseOnce, Stopped
<1>8. CASE DeliverUndecodable \/ Report \/ CancelContext \/ TakeError \/ TakeState
             \/ UNCHANGED vars
  BY <1>5, <1>8 DEF DeliverUndecodable, Report, CancelContext, TakeError, TakeState,
                    Stopped, vars
<1> QED BY <1>1, <1>2, <1>3, <1>4, <1>6, <1>7, <1>8 DEF Next, Deliver

\* The order of events is an invariant of the specification.
LEMMA EventOrderHolds == Spec => []EventOrder
<1>1. Init => EventOrder
  BY DEF Init, EventOrder, EventAccounting, NoEvent
<1> QED BY <1>1, TypeCorrect, EventOrderStep, PTL DEF Spec

\* For every buffer size, policy and number of closers, every message that
\* reached deliverRaw is received, queued, in flight, dropped by the policy or
\* abandoned by an ending handle, exactly once, and they come out in order.
THEOREM EventsAccounted == Spec => []EventAccounting
<1>1. EventOrder => EventAccounting BY DEF EventOrder
<1> QED BY <1>1, EventOrderHolds, PTL
---------------------------------------------------------------------------
(* The handle implements its contract.                                     *)

\* What the mapped handle shows and a step of its locks, errors or closers
\* may leave alone.
LEMMA ContractStutters ==
    ASSUME UNCHANGED <<policy, events, inflight, arrived, taken, ctxDone, stateSeq,
                       seenSeq, closed, done>>
    PROVE  UNCHANGED Handle!contractVars
<1>1. Pool' = Pool /\ Phase' = Phase /\ Kept' = Kept BY DEF Pool, Phase, Kept
<1> QED BY <1>1 DEF Handle!contractVars

\* Arrival of a message.
LEMMA BeginArrives ==
    ASSUME TypeOK, Lifecycle, EventOrder, DeliverBegin PROVE Handle!Arrive
<1> USE DEF queues, closing, stateLog, NoEvent
<1>1. /\ Phase' = Phase /\ Kept' = Kept /\ UNCHANGED <<ctxDone, taken, stateSeq, seenSeq>>
      /\ arrived' = arrived + 1
  BY DEF DeliverBegin, Phase, Kept
<1>2. CASE Stopped
  <2>1. Pool' = Pool BY <1>2 DEF DeliverBegin, Pool
  <2>2. Phase # "open" \/ ctxDone BY <1>2 DEF Stopped, Phase
  <2> QED BY <1>1, <2>1, <2>2 DEF Handle!Arrive
<1>3. CASE ~Stopped
  <2>1. inflight = 0 /\ inflight' = arrived + 1 /\ events' = events
    BY <1>3 DEF DeliverBegin, LockFree
  <2>2. arrived + 1 # 0 BY DEF TypeOK
  <2>3. Pool' = Pool \cup {arrived + 1} BY <2>1, <2>2 DEF Pool
  <2>4. Phase # "closed" BY <1>3 DEF Phase, Stopped, Lifecycle
  <2> QED BY <1>1, <2>3, <2>4 DEF Handle!Arrive
<1> QED BY <1>2, <1>3

\* A send moves the event from the goroutine into the queue.
LEMMA SendStutters ==
    ASSUME TypeOK, DeliverSend PROVE UNCHANGED Handle!contractVars
<1> USE DEF closing, stateLog, NoEvent
<1>1. /\ events' = Append(events, inflight) /\ inflight' = 0 /\ inflight # 0
      /\ events \in Seq(1..MaxEvents)
  BY DEF DeliverSend, TypeOK
<1>2. /\ Len(events) \in Nat /\ Len(events') = Len(events) + 1
      /\ events'[Len(events) + 1] = inflight
      /\ \A i \in 1..Len(events) : events'[i] = events[i]
  BY <1>1, AppendProperties
<1>3. Pool' = Pool
  <2>1. Pool' = {events'[i] : i \in 1..Len(events')} BY <1>1 DEF Pool
  <2>2. Pool = {events[i] : i \in 1..Len(events)} \cup {inflight} BY <1>1 DEF Pool
  <2>3. 1..Len(events') = (1..Len(events)) \cup {Len(events) + 1} BY <1>2
  <2> QED BY <1>2, <2>1, <2>2, <2>3
<1>4. /\ Phase' = Phase /\ Kept' = Kept
      /\ UNCHANGED <<arrived, ctxDone, taken, stateSeq, seenSeq>>
  BY DEF DeliverSend, Phase, Kept
<1> QED BY <1>3, <1>4 DEF Handle!contractVars

\* Removing the oldest event from the queue removes it from the pool, and it
\* was the smallest there.
LEMMA PoolTail ==
    ASSUME TypeOK, EventOrder, events # <<>>, events' = Tail(events),
           inflight' = inflight
    PROVE  /\ Pool' = Pool \ {events[1]} /\ events[1] \in Pool
           /\ \A m \in Pool : events[1] <= m
           /\ events[1] \in Nat /\ Head(events) = events[1] /\ events[1] > taken
           /\ inflight # NoEvent => events[1] < arrived
<1> USE DEF NoEvent
<1>1. /\ events \in Seq(Nat) /\ inflight \in Nat /\ taken \in Nat
  BY ConfigAssumption DEF TypeOK
<1>2. /\ \A i \in 1..Len(events) : events[i] > taken
      /\ \A i, j \in 1..Len(events) : i < j => events[i] < events[j]
      /\ inflight # 0 => /\ inflight = arrived
                         /\ \A i \in 1..Len(events) : events[i] < inflight
  BY DEF EventOrder, EventAccounting
<1>3. /\ Len(events) \in Nat \ {0} /\ events[1] \in Nat /\ Head(events) = events[1]
      /\ Len(events') = Len(events) - 1
      /\ \A i \in 1..Len(events') :
           /\ i + 1 \in 1..Len(events) /\ events'[i] = events[i + 1]
           /\ events[1] < events'[i]
  BY <1>1, <1>2, TailEventOrder
<1>4. 1 \in 1..Len(events) BY <1>3
<1>5. events[1] \in Pool BY <1>4 DEF Pool
<1>6. \A m \in Pool : m = events[1] \/ m \in Pool'
  <2> SUFFICES ASSUME NEW m \in Pool, m # events[1] PROVE m \in Pool'
    OBVIOUS
  <2>1. CASE m = inflight /\ inflight # 0 BY <2>1 DEF Pool
  <2>2. ASSUME NEW i \in 1..Len(events), m = events[i] PROVE m \in Pool'
    <3>1. i - 1 \in 1..Len(events') /\ (i - 1) + 1 = i BY <1>3, <2>2
    <3>2. events'[i - 1] = events[i] BY <1>3, <3>1
    <3> QED BY <2>2, <3>1, <3>2 DEF Pool
  <2> QED BY <2>1, <2>2 DEF Pool
<1>7. \A m \in Pool' : m \in Pool /\ events[1] < m
  <2> TAKE m \in Pool'
  <2>1. CASE m = inflight /\ inflight # 0 BY <1>2, <1>4, <2>1 DEF Pool
  <2>2. ASSUME NEW i \in 1..Len(events'), m = events'[i]
        PROVE  m \in Pool /\ events[1] < m
    <3>1. /\ i + 1 \in 1..Len(events) /\ m = events[i + 1] /\ events[1] < m
      BY <1>3, <2>2
    <3> QED BY <3>1 DEF Pool
  <2> QED BY <2>1, <2>2 DEF Pool
<1>8. \A m \in Pool : m \in Nat
  BY <1>1 DEF Pool
<1>9. ~(events[1] \in Pool') BY <1>3, <1>7
<1>10. Pool' = Pool \ {events[1]} BY <1>6, <1>7, <1>9
<1>11. \A m \in Pool : events[1] <= m BY <1>3, <1>6, <1>7, <1>8
<1>12. events[1] > taken /\ (inflight # 0 => events[1] < arrived) BY <1>2, <1>4
<1> QED BY <1>3, <1>5, <1>10, <1>11, <1>12

\* Eviction under DropOldest gives up an event that is not the newest.
LEMMA EvictLoses ==
    ASSUME TypeOK, Lifecycle, EventOrder, DeliverEvictOldest PROVE Handle!Lose
<1> USE DEF closing, stateLog, NoEvent
<1>1. /\ events' = Tail(events) /\ inflight' = inflight /\ inflight # 0 /\ events # <<>>
      /\ policy = DropOldest
  BY ConfigAssumption DEF DeliverEvictOldest
<1>2. /\ Pool' = Pool \ {events[1]} /\ events[1] \in Pool
      /\ events[1] < arrived /\ events[1] \in Nat
  BY <1>1, PoolTail
<1>3. /\ Phase' = Phase /\ Kept' = Kept
      /\ UNCHANGED <<arrived, ctxDone, taken, stateSeq, seenSeq>>
  BY DEF DeliverEvictOldest, Phase, Kept
<1>4. Phase # "closed" BY <1>1 DEF Phase, Lifecycle
<1>5. Kept = "newest" BY <1>1 DEF Kept, DropOldest, Block
<1>6. arrived \in Nat BY DEF TypeOK
<1>7. Handle!Droppable(events[1]) BY <1>2, <1>5, <1>6 DEF Handle!Droppable
<1> QED BY <1>2, <1>3, <1>4, <1>7 DEF Handle!Lose

\* The event in flight is dropped by DropNewest, or given up by an ending
\* handle; DropOldest never gets there, since only the holder of deliveryMu
\* could fill the room its eviction made.
LEMMA DropLoses ==
    ASSUME TypeOK, Lifecycle, EventOrder, DeliverDrop \/ DeliverAbandon
    PROVE  Handle!Lose
<1> USE DEF closing, stateLog, NoEvent, queues
<1>1. /\ inflight # 0 /\ inflight' = 0 /\ events' = events /\ inflight = arrived
      /\ \A i \in 1..Len(events) : events[i] < inflight
      /\ inflight \in Nat
  BY DEF DeliverDrop, DeliverAbandon, EventOrder, TypeOK
<1>2. \A i \in 1..Len(events) : events[i] # inflight
  <2>1. \A i \in 1..Len(events) : events[i] \in 1..MaxEvents
    <3>1. events \in Seq(1..MaxEvents) BY DEF TypeOK
    <3> QED BY <3>1, ElementOfSeq
  <2> QED BY <1>1, <2>1, ConfigAssumption
<1>3. Pool' = Pool \ {inflight} /\ inflight \in Pool
  BY <1>1, <1>2 DEF Pool
<1>4. /\ Phase' = Phase /\ Kept' = Kept
      /\ UNCHANGED <<arrived, ctxDone, taken, stateSeq, seenSeq>>
  BY DEF DeliverDrop, DeliverAbandon, Phase, Kept
<1>5. Phase # "closed" BY <1>1 DEF Phase, Lifecycle
<1>6. Phase = "ending" \/ ctxDone \/ Handle!Droppable(inflight)
  <2>1. CASE DeliverDrop
    <3>1. policy = DropNewest
      <4>1. ~(Len(events) < EventBuffer) BY <2>1, ConfigAssumption DEF DeliverDrop
      <4>2. ~evicted BY <4>1, Zenon DEF EventOrder
      <4> QED BY <2>1, <4>2, Zenon DEF DeliverDrop, LosesIncoming
    <3>2. Kept = "oldest" BY <3>1 DEF Kept, DropNewest, DropOldest, Block
    <3> QED BY <1>1, <3>2 DEF Handle!Droppable
  <2>2. CASE DeliverAbandon
    BY <1>5, <2>2 DEF DeliverAbandon, Stopped, Phase
  <2> QED BY <2>1, <2>2
<1> QED BY <1>3, <1>4, <1>5, <1>6 DEF Handle!Lose

\* Every step of the handle is a step of the contract, or invisible in it.
LEMMA ContractStep ==
    TypeOK /\ Lifecycle /\ StateWindow /\ EventOrder /\ [Next]_vars
      => [Handle!ContractNext]_Handle!contractVars
<1> SUFFICES ASSUME TypeOK, Lifecycle, StateWindow, EventOrder, [Next]_vars
             PROVE  Handle!ContractNext \/ UNCHANGED Handle!contractVars
  OBVIOUS
<1> USE DEF queues, eventLog, stateLog, closing
<1>1. CASE DeliverBegin BY <1>1, BeginArrives DEF Handle!ContractNext
<1>2. CASE DeliverSend BY <1>2, SendStutters
<1>3. CASE DeliverEvictOldest BY <1>3, EvictLoses DEF Handle!ContractNext
<1>4. CASE DeliverDrop \/ DeliverAbandon BY <1>4, DropLoses DEF Handle!ContractNext
<1>5. CASE TakeEvent
  <2>1. /\ events # <<>> /\ events' = Tail(events) /\ inflight' = inflight
        /\ taken' = Head(events)
    BY <1>5 DEF TakeEvent
  <2>2. /\ Pool' = Pool \ {events[1]} /\ events[1] \in Pool
        /\ \A m \in Pool : events[1] <= m
        /\ Head(events) = events[1] /\ events[1] > taken
    BY <2>1, PoolTail
  <2>3. /\ Phase' = Phase /\ Kept' = Kept
        /\ UNCHANGED <<arrived, ctxDone, stateSeq, seenSeq>>
    BY <1>5 DEF TakeEvent, Phase, Kept
  <2>4. Handle!Receive BY <2>1, <2>2, <2>3 DEF Handle!Receive
  <2> QED BY <2>4 DEF Handle!ContractNext
<1>6. ASSUME NEW state \in LiveStates, StateChange(state) PROVE Handle!Announce
  <2>1. Phase = "open" BY <1>6 DEF StateChange, Phase, Lifecycle
  <2>2. /\ Phase' = Phase /\ Kept' = Kept /\ Pool' = Pool
        /\ UNCHANGED <<arrived, ctxDone, taken, seenSeq>> /\ stateSeq' = stateSeq + 1
    BY <1>6 DEF StateChange, EmitState, Phase, Kept, Pool
  <2> QED BY <2>1, <2>2 DEF Handle!Announce
<1>7. CASE TakeState
  <2>1. states \in Seq(StateEvent) /\ states # <<>>
    BY <1>7 DEF TypeOK, StateEvent, TakeState
  <2>2. Head(states) = states[1] /\ Len(states) \in Nat \ {0} BY <2>1, TailType
  <2>3. 1 \in 1..Len(states) BY <2>2
  <2>4. /\ states[1].seq = (stateSeq - Len(states)) + 1
        /\ seenSeq <= stateSeq - Len(states)
    BY <2>3 DEF StateWindow
  <2>5. stateSeq \in Nat /\ seenSeq \in Nat BY DEF TypeOK
  <2>6. seenSeq' = states[1].seq BY <1>7, <2>2 DEF TakeState
  <2>7. seenSeq' \in 1..stateSeq /\ seenSeq < seenSeq' BY <2>2, <2>4, <2>5, <2>6
  <2>8. /\ Phase' = Phase /\ Kept' = Kept /\ Pool' = Pool
        /\ UNCHANGED <<arrived, ctxDone, taken, stateSeq>>
    BY <1>7 DEF TakeState, Phase, Kept, Pool
  <2>9. Handle!Observe BY <2>7, <2>8 DEF Handle!Observe
  <2> QED BY <2>9 DEF Handle!ContractNext
<1>8. CASE CancelContext
  <2>1. /\ Phase' = Phase /\ Kept' = Kept /\ Pool' = Pool /\ ~ctxDone /\ ctxDone' = TRUE
        /\ UNCHANGED <<arrived, taken, stateSeq, seenSeq>>
    BY <1>8 DEF CancelContext, Phase, Kept, Pool
  <2>2. Handle!CancelIt BY <2>1 DEF Handle!CancelIt
  <2> QED BY <2>2 DEF Handle!ContractNext
<1>9. ASSUME NEW c \in Closers, NEW how \in Endings, EnterOnce(c, how)
      PROVE  Handle!ContractNext \/ UNCHANGED Handle!contractVars
  <2>1. /\ ~closed /\ closed' = closed /\ done' = TRUE
        /\ UNCHANGED <<policy, events, inflight, arrived, taken, ctxDone, stateSeq, seenSeq>>
    BY <1>9 DEF EnterOnce, Lifecycle
  <2>2. Kept' = Kept /\ Pool' = Pool BY <2>1 DEF Kept, Pool
  <2>3. CASE done
    <3>1. Phase' = Phase BY <2>1, <2>3 DEF Phase
    <3> QED BY <2>1, <2>2, <3>1 DEF Handle!contractVars
  <2>4. CASE ~done
    <3>1. Phase = "open" /\ Phase' = "ending" BY <2>1, <2>4 DEF Phase
    <3>2. Handle!End BY <2>1, <2>2, <3>1 DEF Handle!End
    <3> QED BY <3>2 DEF Handle!ContractNext
  <2> QED BY <2>3, <2>4
<1>10. ASSUME NEW c \in Closers, Finish(c) PROVE Handle!Close
  <2>1. winner # NoCloser /\ ~closed
    <3>1. c = winner BY <1>10 DEF Lifecycle, Finish
    <3> QED BY <1>10, <3>1, CloserAssumption DEF Lifecycle, Finish
  <2>2. Phase = "ending" BY <2>1 DEF Lifecycle, Phase
  <2>3. Phase' = "closed" BY <1>10 DEF Finish, Phase
  <2>4. /\ Kept' = Kept /\ Pool' = Pool /\ stateSeq' = stateSeq + 1
        /\ UNCHANGED <<arrived, ctxDone, taken, seenSeq>>
    BY <1>10 DEF Finish, EmitState, Kept, Pool
  <2> QED BY <2>2, <2>3, <2>4 DEF Handle!Close
<1>11. ASSUME NEW c \in Closers, LeaveRegistry(c) \/ LoseOnce(c)
       PROVE  UNCHANGED Handle!contractVars
  BY <1>11, ContractStutters DEF LeaveRegistry, LoseOnce
<1>12. CASE DeliverUndecodable \/ Report \/ TakeError \/ UNCHANGED vars
  BY <1>12, ContractStutters DEF DeliverUndecodable, Report, TakeError, vars
<1> QED BY <1>1, <1>2, <1>3, <1>4, <1>5, <1>6, <1>7, <1>8, <1>9, <1>10, <1>11, <1>12
        DEF Next, Deliver, Closing, Handle!ContractNext

\* For every buffer size, policy and number of closers the handle implements
\* the safety part of HandleContract: events are delivered in arrival order and
\* at most once, an open handle loses only what its policy gives up, states are
\* observed in order, and a closed handle takes nothing in.
THEOREM ImplementsContract == Spec => Handle!ContractSafety
<1>1. Init => Handle!ContractInit
  <2> SUFFICES ASSUME Init PROVE Handle!ContractInit
    OBVIOUS
  <2>1. Pool = {} BY DEF Init, Pool, NoEvent
  <2>2. Phase = "open" /\ Kept \in {"all", "newest", "oldest"} BY DEF Init, Phase, Kept
  <2> QED BY <2>1, <2>2 DEF Init, Handle!ContractInit
<1>2. Spec => []StateWindow
  BY StatesAreOrdered, PTL DEF StatesOrdered
<1> QED BY <1>1, <1>2, LifecycleHolds, EventOrderHolds, ContractStep, PTL
        DEF Spec, Handle!ContractSafety
===========================================================================
