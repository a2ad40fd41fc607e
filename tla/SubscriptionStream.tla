------------------------ MODULE SubscriptionStream ------------------------
(***************************************************************************)
(* One logical subscription handle: streamSubscription[T] and its twin     *)
(* L2BookSubscription (websocket/market_subscription.go, subscription.go). *)
(*                                                                         *)
(* Three bounded Go channels (events, errors, states) are filled by the    *)
(* manager's goroutines and drained by the application, while any number   *)
(* of goroutines may end the handle with Close or terminate.  deliveryMu   *)
(* serialises producers and the final close; the only producer that can    *)
(* hold it across several steps is deliverRaw, in flight while             *)
(* inflight # NoEvent.  Events are numbered in arrival order.              *)
(***************************************************************************)
EXTENDS Integers, Sequences

CONSTANTS
    EventBuffer,    \* capacity of the events channel  (Config.EventBuffer)
    StateBuffer,    \* capacity of the states channel  (Config.StateBuffer)
    Policies,       \* the Config.Backpressure values under consideration
    Closers,        \* goroutines that may call Close or terminate
    MaxEvents,      \* bound: messages read from the socket
    MaxStates       \* bound: non-terminal state changes

DropNewest == "dropNewest"
DropOldest == "dropOldest"
Block      == "block"

\* Config.normalized makes both capacities positive and the policy known.
ASSUME ConfigAssumption ==
    /\ EventBuffer \in Nat \ {0}
    /\ StateBuffer \in Nat \ {0}
    /\ Policies \subseteq {DropNewest, DropOldest, Block}
    /\ MaxEvents \in Nat
    /\ MaxStates \in Nat

ErrorBuffer == 1        \* make(chan error, 1)
NoEvent == 0
NoState == "none"
NoCloser == "nobody"
ASSUME CloserAssumption == NoCloser \notin Closers

LiveStates == {"connecting", "connected", "reconnecting", "subscribed", "error"}
\* Both ways to end a handle, with the state event each one leaves behind.
Endings == {"unsubscribed", "error"}

VARIABLES
    policy,     \* client.config.Backpressure, fixed when the client is built
    events,     \* queued event numbers, oldest first
    errors,     \* queued error reports
    states,     \* queued state events [seq, state]
    closed,     \* the three channels have been closed
    done,       \* s.done is closed
    ctxDone,    \* the subscriber's context is cancelled
    arrived,    \* events read from the socket so far
    inflight,   \* event deliverRaw holds deliveryMu for, or NoEvent
    evicted,    \* DropOldest has already made room for the event in flight
    taken,      \* newest event number the application has received
    received,   \* how many events it has received
    dropped,    \* events discarded by the backpressure policy
    abandoned,  \* events given up because the handle was ending
    lastState,  \* s.lastState
    stateSeq,   \* s.stateSeq
    seenSeq,    \* sequence number of the last state event received
    seen,       \* how many state events the application has received
    coalesced,  \* state events discarded by enqueueSubscriptionState
    winner,     \* the goroutine inside once.Do, or NoCloser
    ending,     \* which ending that goroutine is performing
    pc          \* per closer: idle, entered, removed, returned

queues   == <<events, errors, states, closed>>
eventLog == <<arrived, inflight, evicted, taken, received, dropped, abandoned>>
stateLog == <<lastState, stateSeq, seenSeq, seen, coalesced>>
closing  == <<winner, ending, pc>>
vars == <<policy, queues, done, ctxDone, eventLog, stateLog, closing>>

TypeOK ==
    /\ policy \in Policies
    /\ events \in Seq(1..MaxEvents) /\ Len(events) <= EventBuffer
    /\ errors \in Seq({"dropped", "error"}) /\ Len(errors) <= ErrorBuffer
    /\ states \in Seq([seq : Nat, state : LiveStates \cup Endings])
    /\ Len(states) <= StateBuffer
    /\ closed \in BOOLEAN /\ done \in BOOLEAN /\ ctxDone \in BOOLEAN
    /\ arrived \in 0..MaxEvents /\ inflight \in 0..MaxEvents
    /\ evicted \in BOOLEAN
    /\ taken \in 0..MaxEvents
    /\ received \in Nat /\ dropped \in Nat /\ abandoned \in Nat
    /\ lastState \in LiveStates \cup {NoState}
    /\ stateSeq \in Nat /\ seenSeq \in Nat /\ seen \in Nat /\ coalesced \in Nat
    /\ winner \in Closers \cup {NoCloser}
    /\ ending \in Endings
    /\ pc \in [Closers -> {"idle", "entered", "removed", "returned"}]

Init ==
    /\ policy \in Policies
    /\ events = <<>> /\ errors = <<>> /\ states = <<>> /\ closed = FALSE
    /\ done = FALSE /\ ctxDone = FALSE
    /\ arrived = 0 /\ inflight = NoEvent /\ evicted = FALSE
    /\ taken = 0 /\ received = 0 /\ dropped = 0 /\ abandoned = 0
    /\ lastState = NoState /\ stateSeq = 0 /\ seenSeq = 0 /\ seen = 0
    /\ coalesced = 0
    /\ winner = NoCloser /\ ending = "unsubscribed"
    /\ pc = [c \in Closers |-> "idle"]

---------------------------------------------------------------------------
(* Helpers of the source.                                                  *)

\* Fault: a producer that does not take deliveryMu.
LockIgnored == TRUE

LockFree == inflight = NoEvent                    \* deliveryMu

\* Fault: stopped forgets the done channel.
StoppedByContext == ctxDone

Stopped == done \/ ctxDone                        \* stopped(ctx, done)

\* The non-blocking send on the error channel: a full channel drops it.
ReportTo(queue, err) ==
    IF Len(queue) < ErrorBuffer THEN Append(queue, err) ELSE queue

\* Fault: a full states channel refuses the newest event.
EnqueueDropNewest(queue, event) ==
    IF Len(queue) < StateBuffer THEN Append(queue, event) ELSE queue

\* enqueueSubscriptionState: append, discarding the oldest entry when full.
EnqueueState(queue, event) ==
    Append(IF Len(queue) < StateBuffer THEN queue ELSE Tail(queue), event)

\* One more state event; stateSeq is numbered before it is queued.
EmitState(state) ==
    /\ stateSeq' = stateSeq + 1
    /\ states' = EnqueueState(states, [seq |-> stateSeq + 1, state |-> state])
    /\ coalesced' = coalesced + (IF Len(states) < StateBuffer THEN 0 ELSE 1)

---------------------------------------------------------------------------
(* The manager's goroutines.                                               *)

\* deliverRaw takes deliveryMu; a stopped handle discards the message.
DeliverBegin ==
    /\ LockFree /\ arrived < MaxEvents
    /\ arrived' = arrived + 1
    /\ IF Stopped
         THEN abandoned' = abandoned + 1 /\ UNCHANGED inflight
         ELSE inflight' = arrived' /\ UNCHANGED abandoned
    /\ UNCHANGED <<policy, queues, done, ctxDone, evicted, taken, received, dropped,
                   stateLog, closing>>

\* deliverRaw on a payload that does not decode: only an error report.
DeliverUndecodable ==
    /\ LockFree /\ ~Stopped
    /\ errors' = ReportTo(errors, "error")
    /\ UNCHANGED <<policy, events, states, closed, done, ctxDone, eventLog, stateLog,
                   closing>>

\* deliver: the send succeeds, whatever the policy, when there is room.
DeliverSend ==
    /\ inflight # NoEvent
    /\ Len(events) < EventBuffer
    /\ events' = Append(events, inflight)
    /\ inflight' = NoEvent /\ evicted' = FALSE
    /\ UNCHANGED <<policy, errors, states, closed, done, ctxDone, arrived, taken,
                   received, dropped, abandoned, stateLog, closing>>

\* BackpressureDropOldest on a full queue: make room once, silently.
DeliverEvictOldest ==
    /\ inflight # NoEvent /\ policy = DropOldest /\ ~evicted
    /\ Len(events) = EventBuffer
    /\ events' = Tail(events)
    /\ dropped' = dropped + 1 /\ evicted' = TRUE
    /\ UNCHANGED <<policy, errors, states, closed, done, ctxDone, arrived, inflight,
                   taken, received, abandoned, stateLog, closing>>

\* Fault: only DropOldest ever keeps the incoming event waiting.
LosesIncomingUnlessOldest == policy # DropOldest \/ evicted

\* deliver does not wait for room: at once under BackpressureDropNewest, on
\* the second attempt under BackpressureDropOldest.
LosesIncoming == policy = DropNewest \/ evicted

\* A non-blocking send finds the queue full: the incoming event is lost and
\* ErrEventDropped is reported.
DeliverDrop ==
    /\ inflight # NoEvent /\ LosesIncoming
    /\ Len(events) = EventBuffer
    /\ dropped' = dropped + 1
    /\ errors' = IF done THEN errors ELSE ReportTo(errors, "dropped")
    /\ inflight' = NoEvent /\ evicted' = FALSE
    /\ UNCHANGED <<policy, events, states, closed, done, ctxDone, arrived, taken,
                   received, abandoned, stateLog, closing>>

\* deliver gives up when the handle ends: at its entry under every policy,
\* and inside the blocking send.  It returns closed, so nothing is reported.
DeliverAbandon ==
    /\ inflight # NoEvent /\ Stopped /\ ~evicted
    /\ abandoned' = abandoned + 1 /\ inflight' = NoEvent
    /\ UNCHANGED <<policy, queues, done, ctxDone, arrived, evicted, taken, received,
                   dropped, stateLog, closing>>

\* report: the manager's reportAll and reportSubscription.
Report ==
    /\ LockFree /\ ~done
    /\ errors' = ReportTo(errors, "error")
    /\ UNCHANGED <<policy, events, states, closed, done, ctxDone, eventLog, stateLog,
                   closing>>

\* stateChange: ignored once done, and for an unchanged non-error state.
StateChange(state) ==
    /\ LockFree /\ ~done /\ stateSeq < MaxStates
    /\ state = "error" \/ state # lastState
    /\ EmitState(state)
    /\ lastState' = state
    /\ UNCHANGED <<policy, events, errors, closed, done, ctxDone, eventLog, seenSeq,
                   seen, closing>>

---------------------------------------------------------------------------
(* Ending the handle: Close and terminate share once.Do.                   *)

\* The subscriber's context is cancelled; the watcher goroutine started by
\* subscribeStream is one of the Closers.
CancelContext ==
    /\ ~ctxDone /\ ctxDone' = TRUE
    /\ UNCHANGED <<policy, queues, done, eventLog, stateLog, closing>>

\* The first caller, of Close or of terminate, enters once.Do and closes
\* s.done before it asks for any lock.
EnterOnce(c, how) ==
    /\ pc[c] = "idle" /\ winner = NoCloser
    /\ winner' = c /\ ending' = how /\ done' = TRUE
    /\ pc' = [pc EXCEPT ![c] = "entered"]
    /\ UNCHANGED <<policy, queues, ctxDone, eventLog, stateLog>>

\* client.remove: the registry forgets the handle; see AdmissionGate and
\* ConnectionManager for what that changes there.
LeaveRegistry(c) ==
    /\ pc[c] = "entered"
    /\ pc' = [pc EXCEPT ![c] = "removed"]
    /\ UNCHANGED <<policy, queues, done, ctxDone, eventLog, stateLog, winner, ending>>

\* Under deliveryMu: the terminal state event, the terminal error of
\* terminate, then the three channels are closed.
Finish(c) ==
    /\ pc[c] = "removed" /\ LockFree
    /\ EmitState(ending)
    /\ errors' = IF ending = "error" THEN ReportTo(errors, "error") ELSE errors
    /\ closed' = TRUE
    /\ pc' = [pc EXCEPT ![c] = "returned"]
    /\ UNCHANGED <<policy, events, done, ctxDone, eventLog, lastState, seenSeq, seen,
                   winner, ending>>

\* A later caller returns once the winner has left once.Do.
LoseOnce(c) ==
    /\ pc[c] = "idle" /\ winner # NoCloser /\ pc[winner] = "returned"
    /\ pc' = [pc EXCEPT ![c] = "returned"]
    /\ UNCHANGED <<policy, queues, done, ctxDone, eventLog, stateLog, winner, ending>>

---------------------------------------------------------------------------
(* The application draining the channels.                                  *)

TakeEvent ==
    /\ events # <<>>
    /\ taken' = Head(events) /\ events' = Tail(events)
    /\ received' = received + 1
    /\ UNCHANGED <<policy, errors, states, closed, done, ctxDone, arrived, inflight,
                   evicted, dropped, abandoned, stateLog, closing>>

TakeError ==
    /\ errors # <<>> /\ errors' = Tail(errors)
    /\ UNCHANGED <<policy, events, states, closed, done, ctxDone, eventLog, stateLog,
                   closing>>

TakeState ==
    /\ states # <<>>
    /\ seenSeq' = Head(states).seq /\ states' = Tail(states)
    /\ seen' = seen + 1
    /\ UNCHANGED <<policy, events, errors, closed, done, ctxDone, eventLog, lastState,
                   stateSeq, coalesced, closing>>

Deliver == DeliverSend \/ DeliverEvictOldest \/ DeliverDrop \/ DeliverAbandon

Closing(c) ==
    \/ \E how \in Endings : EnterOnce(c, how)
    \/ LeaveRegistry(c) \/ Finish(c) \/ LoseOnce(c)

Next ==
    \/ DeliverBegin \/ DeliverUndecodable \/ Deliver \/ Report
    \/ \E state \in LiveStates : StateChange(state)
    \/ CancelContext
    \/ \E c \in Closers : Closing(c)
    \/ TakeEvent \/ TakeError \/ TakeState

\* The goroutine holding deliveryMu and the goroutines inside Close run; the
\* application may stop draining at any time, so its actions are not fair.
Fairness ==
    /\ WF_vars(Deliver)
    /\ \A c \in Closers : WF_vars(LeaveRegistry(c) \/ Finish(c) \/ LoseOnce(c))

Spec == Init /\ [][Next]_vars /\ Fairness
---------------------------------------------------------------------------
(* Properties.                                                             *)

\* No goroutine sends on a channel that Close or terminate has closed (a
\* panic in Go): after the close the queues only shrink, whichever delivery,
\* report or state change was under way when the handle ended.
NoSendOnClosed ==
    [][closed => /\ Len(events') <= Len(events)
                 /\ Len(errors') <= Len(errors)
                 /\ Len(states') <= Len(states)]_vars

\* The states channel always holds a contiguous window of the numbering that
\* ends at the newest event: coalescing in enqueueSubscriptionState only ever
\* shortens it at the old end, so events come out in order and a gap in
\* Sequence is exactly what was coalesced.
StateWindow ==
    /\ \A i \in 1..Len(states) : states[i].seq = (stateSeq - Len(states)) + i
    /\ seenSeq <= stateSeq - Len(states)
    /\ stateSeq = seen + Len(states) + coalesced

\* Once the channels are closed the terminal event of the winning ending is
\* the last one an observer gets, however full the ring was.
TerminalStateLast ==
    closed =>
      IF states = <<>> THEN seenSeq = stateSeq
                       ELSE states[Len(states)] = [seq |-> stateSeq, state |-> ending]

\* State events come out in order, with gaps only where the ring coalesced, and
\* the terminal one comes last.
StatesOrdered == StateWindow /\ TerminalStateLast

\* Every message that reached deliverRaw is received, queued, in flight,
\* dropped by the policy or abandoned because the handle was ending; none is
\* lost or duplicated and the application receives them in arrival order.
EventAccounting ==
    /\ arrived = received + Len(events) + dropped + abandoned
                 + (IF inflight = NoEvent THEN 0 ELSE 1)
    /\ abandoned > 0 => Stopped
    /\ \A i \in 1..Len(events) : events[i] > taken
    /\ \A i, j \in 1..Len(events) : i < j => events[i] < events[j]

\* The refinement mapping: the pool is what is queued or in flight, and the
\* handle is ending from the moment s.done is closed.
Pool == {events[i] : i \in 1..Len(events)} \cup ({inflight} \ {NoEvent})
Phase == IF closed THEN "closed" ELSE IF done THEN "ending" ELSE "open"
Kept == IF policy = Block THEN "all"
        ELSE IF policy = DropOldest THEN "newest" ELSE "oldest"

Handle == INSTANCE HandleContract WITH
    keeps <- Kept, phase <- Phase, cancelled <- ctxDone,
    newest <- arrived, pool <- Pool, last <- taken,
    numbered <- stateSeq, seen <- seenSeq

\* The handle keeps the contract of HandleContract under every policy of config.go:
\* Block "preserves every event", DropOldest "retain[s] the latest data", events
\* and states come out in order and at most once, and an ending that has begun
\* completes although nobody drains the channels, whichever goroutine holds
\* deliveryMu when done is closed.
KeepsContract == Handle!Contract
===========================================================================
