-------------------------- MODULE ClientShutdown --------------------------
(***************************************************************************)
(* Who waits for whom: the locks of Client, connectionManager and the      *)
(* subscription handles, and the goroutines that hold one while they wait  *)
(* for another lock, for the network or for the application.               *)
(*                                                                         *)
(*   app(h)    Subscribe*, then possibly Close, of handle h                *)
(*   reader    the manager goroutine inside serve                          *)
(*   syncer    syncSubscriptions inside writeJSON                          *)
(*   heart     the heartbeat goroutine inside writeJSON                    *)
(*   closer    Client.Close                                                *)
(*                                                                         *)
(* A critical section that cannot block is a single step guarded by its    *)
(* lock being free; the others hold their locks in the lock variable.      *)
(* What the sections compute is the subject of ConnectionManager and       *)
(* SubscriptionStream.                                                     *)
(***************************************************************************)
EXTENDS Integers

CONSTANTS
    Handle,         \* subscription handles
    EventBuffer,    \* capacity of a handle's events channel
    Blocking,       \* Config.Backpressure is BackpressureBlock
    Streaming       \* handles the exchange already streams for when they
                    \* register: a shared or a not yet closed identity

ASSUME ShutdownAssumption ==
    /\ EventBuffer \in Nat \ {0} /\ Blocking \in BOOLEAN
    /\ Streaming \subseteq Handle
    /\ Handle \cap {"reader", "syncer", "heart", "closer", "commit", "write", "protocol",
                    "nobody", "over"} = {}     \* names

\* A handle also names the goroutine using it and its deliveryMu.
App(h) == h
Delivery(h) == h
Proc == {"reader", "syncer", "heart", "closer"} \cup Handle
Locks == {"commit", "write", "protocol"} \cup Handle
Nobody == "nobody"
Over == "over"

VARIABLES
    lock,       \* holder of each lock, or Nobody
    pc,         \* where each process is
    work,       \* handle the reader or the closer is working on
    once,       \* per handle: inside once.Do, Nobody, or Over
    hdone,      \* handles whose done channel is closed
    reg,        \* registered handles
    queue,      \* events queued per handle
    snap,       \* handles Client.Close still has to close
    closed,     \* client.closed
    mdone,      \* m.done is closed
    socket,     \* the active socket is open
    cancelled   \* the generation's context is cancelled

vars == <<lock, pc, work, once, hdone, reg, queue, snap, closed, mdone,
          socket, cancelled>>

PCs == {"start", "announce", "owner", "enter", "remove", "finish", "gone",
        "loop", "sending", "rejecting", "detach", "teardown", "cancel", "join",
        "idle", "hasWrite", "hasProtocol", "writing", "close", "begin", "pick",
        "returned"}

TypeOK ==
    /\ lock \in [Locks -> Proc \cup {Nobody}]
    /\ pc \in [Proc -> PCs]
    /\ work \in [{"reader", "closer"} -> Handle]
    /\ once \in [Handle -> Proc \cup {Nobody, Over}]
    /\ hdone \subseteq Handle /\ reg \subseteq Handle /\ snap \subseteq Handle
    /\ queue \in [Handle -> 0..EventBuffer]
    /\ closed \in BOOLEAN /\ mdone \in BOOLEAN
    /\ socket \in BOOLEAN /\ cancelled \in BOOLEAN

\* A generation is being served; the handles are not registered yet.
Init ==
    /\ lock = [l \in Locks |-> Nobody]
    /\ pc = [p \in Proc |-> CASE p = "reader" -> "loop"
                              [] p \in {"syncer", "heart"} -> "idle"
                              [] p = "closer" -> "begin"
                              [] OTHER -> "start"]
    /\ work \in [{"reader", "closer"} -> {CHOOSE h \in Handle : TRUE}]
    /\ once = [h \in Handle |-> Nobody]
    /\ hdone = {} /\ reg = {} /\ snap = {}
    /\ queue = [h \in Handle |-> 0]
    /\ closed = FALSE /\ mdone = FALSE /\ socket = TRUE /\ cancelled = FALSE

---------------------------------------------------------------------------
Free(l) == lock[l] = Nobody
Goto(p, from, to) == pc[p] = from /\ pc' = [pc EXCEPT ![p] = to]
Acquire(p, l) == Free(l) /\ lock' = [lock EXCEPT ![l] = p]

\* Subscribe: commitMu and the registry; commitMu stays held.
SubscribePublish(h) ==
    /\ pc[App(h)] = "start" /\ Free("commit")
    /\ IF closed
         THEN pc' = [pc EXCEPT ![App(h)] = "gone"] /\ UNCHANGED <<lock, reg>>
         ELSE /\ pc' = [pc EXCEPT ![App(h)] = "announce"]
              /\ lock' = [lock EXCEPT !["commit"] = App(h)]
              /\ reg' = reg \cup {h}
    /\ UNCHANGED <<work, once, hdone, queue, snap, closed, mdone, socket,
                   cancelled>>

\* ... stateChange needs deliveryMu before commitMu is released.
SubscribeAnnounce(h) ==
    /\ Goto(App(h), "announce", "owner") /\ Free(Delivery(h))
    /\ lock' = [lock EXCEPT !["commit"] = Nobody]
    /\ UNCHANGED <<work, once, hdone, reg, queue, snap, closed, mdone, socket,
                   cancelled>>

\* The application drains events once Subscribe has returned the handle.
TakeEvent(h) ==
    /\ pc[App(h)] \notin {"start", "announce"} /\ queue[h] > 0
    /\ queue' = [queue EXCEPT ![h] = @ - 1]
    /\ UNCHANGED <<lock, pc, work, once, hdone, reg, snap, closed, mdone,
                   socket, cancelled>>

\* The application decides to close the handle.
AppClose(h) ==
    /\ Goto(App(h), "owner", "enter")
    /\ UNCHANGED <<lock, work, once, hdone, reg, queue, snap, closed, mdone,
                   socket, cancelled>>

---------------------------------------------------------------------------
(* Close and terminate of handle h by process p; after is where p goes on. *)

\* Fault: the done channel of the handle stays open.
CloseDoneNever(h) == hdone

CloseDone(h) == hdone \cup {h}

EndEnter(p, h, after) ==
    /\ pc[p] = "enter"
    /\ IF once[h] = Nobody
         THEN /\ once' = [once EXCEPT ![h] = p] /\ hdone' = CloseDone(h)
              /\ pc' = [pc EXCEPT ![p] = "remove"]
         ELSE /\ once[h] = Over /\ UNCHANGED <<once, hdone>>
              /\ pc' = [pc EXCEPT ![p] = after]
    /\ UNCHANGED <<lock, work, reg, queue, snap, closed, mdone, socket,
                   cancelled>>

EndRemove(p, h) ==
    /\ Goto(p, "remove", "finish") /\ Free("commit")
    /\ reg' = reg \ {h}
    /\ UNCHANGED <<lock, work, once, hdone, queue, snap, closed, mdone,
                   socket, cancelled>>

EndFinish(p, h, after) ==
    /\ Goto(p, "finish", after) /\ Free(Delivery(h))
    /\ once' = [once EXCEPT ![h] = Over]
    /\ UNCHANGED <<lock, work, hdone, reg, queue, snap, closed, mdone, socket,
                   cancelled>>

End(p, h, after) == EndEnter(p, h, after) \/ EndRemove(p, h) \/ EndFinish(p, h, after)

---------------------------------------------------------------------------
(* serve.                                                                  *)

\* Each turn of the loop passes protocolMu (ack timer, acknowledgements).
ReaderTurn == pc["reader"] = "loop" /\ Free("protocol")

\* dispatchChannel: deliverRaw takes deliveryMu of a registered handle, also
\* one whose registration has not announced it yet.  A full queue is only
\* waited for under BackpressureBlock.
ReaderDeliver(h) ==
    /\ ReaderTurn /\ ~mdone /\ h \in reg \ hdone
    /\ h \in Streaming \/ pc[App(h)] # "announce"
    /\ Free(Delivery(h))
    /\ IF queue[h] < EventBuffer
         THEN /\ queue' = [queue EXCEPT ![h] = @ + 1]
              /\ UNCHANGED <<lock, pc, work>>
         ELSE /\ Blocking
              /\ lock' = [lock EXCEPT ![Delivery(h)] = "reader"]
              /\ pc' = [pc EXCEPT !["reader"] = "sending"]
              /\ work' = [work EXCEPT !["reader"] = h]
              /\ UNCHANGED queue
    /\ UNCHANGED <<once, hdone, reg, snap, closed, mdone, socket, cancelled>>

\* The blocked send ends when there is room or the handle is done.
ReaderSent ==
    LET h == work["reader"] IN
    /\ Goto("reader", "sending", "loop")
    /\ \/ queue[h] < EventBuffer /\ queue' = [queue EXCEPT ![h] = @ + 1]
       \/ h \in hdone /\ UNCHANGED queue
    /\ lock' = [lock EXCEPT ![Delivery(h)] = Nobody]
    /\ UNCHANGED <<work, once, hdone, reg, snap, closed, mdone, socket,
                   cancelled>>

\* A rejection holds protocolMu while it detaches the group (commitMu) and
\* terminates its members.
ReaderReject(h) ==
    /\ ReaderTurn /\ h \in reg
    /\ lock' = [lock EXCEPT !["protocol"] = "reader"]
    /\ pc' = [pc EXCEPT !["reader"] = "detach"]
    /\ work' = [work EXCEPT !["reader"] = h]
    /\ UNCHANGED <<once, hdone, reg, queue, snap, closed, mdone, socket,
                   cancelled>>

ReaderDetach ==
    /\ Goto("reader", "detach", "enter") /\ Free("commit")
    /\ reg' = reg \ {work["reader"]}
    /\ UNCHANGED <<lock, work, once, hdone, queue, snap, closed, mdone,
                   socket, cancelled>>

ReaderRejected ==
    /\ Goto("reader", "rejecting", "loop")
    /\ lock' = [lock EXCEPT !["protocol"] = Nobody]
    /\ UNCHANGED <<work, once, hdone, reg, queue, snap, closed, mdone, socket,
                   cancelled>>

\* serve returns: the socket is closed before commitMu is asked for.
ReaderLeave ==
    /\ ReaderTurn /\ (mdone \/ ~socket)
    /\ pc' = [pc EXCEPT !["reader"] = "cancel"]
    /\ socket' = FALSE
    /\ UNCHANGED <<lock, work, once, hdone, reg, queue, snap, closed, mdone,
                   cancelled>>

ReaderCancel ==
    /\ Goto("reader", "cancel", "join") /\ Free("commit")
    /\ cancelled' = TRUE
    /\ UNCHANGED <<lock, work, once, hdone, reg, queue, snap, closed, mdone,
                   socket>>

\* Join the synchronizer, then the heartbeat.
ReaderJoin ==
    /\ Goto("reader", "join", "gone")
    /\ pc["syncer"] = "gone" /\ pc["heart"] = "gone"
    /\ UNCHANGED <<lock, work, once, hdone, reg, queue, snap, closed, mdone,
                   socket, cancelled>>
---------------------------------------------------------------------------
(* writeJSON.  The heartbeat passes no protocolMu.                         *)

WriteLock(p) ==
    /\ Goto(p, "idle", IF p = "heart" THEN "hasProtocol" ELSE "hasWrite")
    /\ ~cancelled /\ Acquire(p, "write")
    /\ UNCHANGED <<work, once, hdone, reg, queue, snap, closed, mdone, socket,
                   cancelled>>

WriteProtocol ==
    /\ Goto("syncer", "hasWrite", "hasProtocol") /\ Acquire("syncer", "protocol")
    /\ UNCHANGED <<work, once, hdone, reg, queue, snap, closed, mdone, socket,
                   cancelled>>

WriteCommit(p) ==
    /\ Goto(p, "hasProtocol", "writing") /\ Acquire(p, "commit")
    /\ UNCHANGED <<work, once, hdone, reg, queue, snap, closed, mdone, socket,
                   cancelled>>

\* Fault: commitMu stays locked when a write returns.
UnlockedButCommit(p) ==
    [l \in Locks |-> IF lock[l] = p /\ l # "commit" THEN Nobody ELSE lock[l]]

Unlocked(p) == [l \in Locks |-> IF lock[l] = p THEN Nobody ELSE lock[l]]

\* The write returns: it succeeds, meets its deadline, fails on a closed
\* socket, or a cancelled context was seen first.  A failure ends the pass.
WriteReturns(p) ==
    /\ pc[p] = "writing"
    /\ pc' = [pc EXCEPT ![p] = IF cancelled \/ ~socket THEN "gone" ELSE "idle"]
    /\ lock' = Unlocked(p)
    /\ UNCHANGED <<work, once, hdone, reg, queue, snap, closed, mdone, socket,
                   cancelled>>

\* A waiting writer, or an idle one, leaves when its context is cancelled.
WriterLeaves(p) ==
    /\ Goto(p, "idle", "gone") /\ cancelled
    /\ UNCHANGED <<lock, work, once, hdone, reg, queue, snap, closed, mdone,
                   socket, cancelled>>
---------------------------------------------------------------------------
(* Client.Close.                                                           *)

\* closed and the registry snapshot under client.mu; then beginClose closes
\* m.done and the active socket.
CloseBegin ==
    /\ Goto("closer", "begin", "cancel")
    /\ closed' = TRUE /\ snap' = reg /\ mdone' = TRUE /\ socket' = FALSE
    /\ UNCHANGED <<lock, work, once, hdone, reg, queue, cancelled>>

\* beginClose cancels the manager's context under commitMu.
CloseCancel ==
    /\ Goto("closer", "cancel", "pick") /\ Free("commit")
    /\ cancelled' = TRUE
    /\ UNCHANGED <<lock, work, once, hdone, reg, queue, snap, closed, mdone,
                   socket>>

\* Close of the snapshotted handles one after the other.
ClosePick(h) ==
    /\ Goto("closer", "pick", "enter") /\ h \in snap
    /\ snap' = snap \ {h} /\ work' = [work EXCEPT !["closer"] = h]
    /\ UNCHANGED <<lock, once, hdone, reg, queue, closed, mdone, socket,
                   cancelled>>

\* manager.close joins the manager goroutine.
CloseJoin ==
    /\ Goto("closer", "pick", "returned") /\ snap = {} /\ pc["reader"] = "gone"
    /\ UNCHANGED <<lock, work, once, hdone, reg, queue, snap, closed, mdone,
                   socket, cancelled>>
---------------------------------------------------------------------------
AppStep(h) == SubscribePublish(h) \/ SubscribeAnnounce(h)
              \/ End(App(h), h, "gone")
ReaderStep == ReaderSent \/ ReaderDetach \/ ReaderRejected \/ ReaderLeave
              \/ ReaderCancel \/ ReaderJoin
              \/ End("reader", work["reader"], "rejecting")
WriterStep(p) == WriteLock(p) \/ WriteCommit(p) \/ WriteReturns(p)
                 \/ WriterLeaves(p) \/ (p = "syncer" /\ WriteProtocol)
CloserStep == CloseCancel \/ CloseJoin \/ End("closer", work["closer"], "pick")
              \/ \E h \in Handle : ClosePick(h)

Next ==
    \/ \E h \in Handle : \/ AppStep(h) \/ AppClose(h) \/ TakeEvent(h)
                         \/ ReaderDeliver(h) \/ ReaderReject(h)
    \/ ReaderStep
    \/ \E p \in {"syncer", "heart"} : WriterStep(p)
    \/ CloseBegin \/ CloserStep
    \/ pc["closer"] = "returned" /\ UNCHANGED vars

\* Go's mutexes do not starve a waiter, so the steps that take a lock are
\* strongly fair.  The application need not drain or close anything.
Fairness ==
    /\ \A h \in Handle :
         SF_vars(SubscribePublish(h) \/ SubscribeAnnounce(h))
         /\ SF_vars(End(App(h), h, "gone"))
    /\ SF_vars(ReaderStep) /\ SF_vars(CloserStep)
    /\ \A p \in {"syncer", "heart"} : SF_vars(WriterStep(p))

Spec == Init /\ [][Next]_vars /\ Fairness
---------------------------------------------------------------------------
(* Properties.                                                             *)

\* client.go: the done channels are closed before the join "so blocking event
\* delivery cannot deadlock shutdown".  Once Client.Close has begun it
\* returns, wherever registrations, deliveries, rejections and writes are.
ShutdownCompletes == (pc["closer"] = "cancel") ~> (pc["closer"] = "returned")

\* What a goroutine waits for: another one's lock, the once of a handle that
\* another one is ending, or the end of the goroutines it joins.
HandleOf(p) == IF p \in {"reader", "closer"} THEN work[p] ELSE p
Wanted(p) ==
    IF pc[p] \in {"loop", "hasWrite"} THEN "protocol"
    ELSE IF pc[p] \in {"start", "detach", "remove", "cancel", "hasProtocol"} THEN "commit"
    ELSE IF pc[p] \in {"announce", "finish"} THEN Delivery(HandleOf(p))
    ELSE Nobody
WaitsFor(p, q) ==
    \/ Wanted(p) # Nobody /\ lock[Wanted(p)] = q
    \/ pc[p] = "enter" /\ once[HandleOf(p)] = q
    \/ pc[p] = "pick" /\ snap = {} /\ q = "reader" /\ pc[q] # "gone"
    \/ pc[p] = "join" /\ q \in {"syncer", "heart"} /\ pc[q] # "gone"

\* Who has something to finish.  A blocked delivery counts only once its
\* handle is done: until then it waits for the application.
UnderWay(p) ==
    /\ pc[p] \notin {"begin", "owner", "gone", "returned"}
    /\ pc[p] = "loop" => mdone \/ ~socket
    /\ pc[p] = "sending" => work["reader"] \in hdone
    /\ pc[p] = "idle" => cancelled

\* The order in which what is waited for is taken: a join, protocolMu, the once
\* of a handle, commitMu, deliveryMu; the rest waits for no goroutine.
Level(p) ==
    IF pc[p] = "pick" THEN 1
    ELSE IF pc[p] \in {"loop", "join"} THEN 2
    ELSE IF pc[p] = "hasWrite" THEN 3
    ELSE IF pc[p] = "enter" THEN 4
    ELSE IF pc[p] \in {"start", "detach", "remove", "cancel", "hasProtocol"} THEN 5
    ELSE IF pc[p] \in {"announce", "finish"} THEN 6
    ELSE 7

\* No circular wait: whoever a goroutine under way waits for is under way itself
\* and waits, if at all, for something later in the order, so that the last one
\* of every chain waits for nobody.  client.go orders its Close for this ("so a
\* full event buffer cannot leave the read loop and Client.Close waiting on each
\* other"); Subscribe, Close of a handle, rejections and writes run meanwhile.
NoCircularWait ==
    \A p, q \in Proc :
      UnderWay(p) /\ WaitsFor(p, q) => UnderWay(q) /\ Level(p) < Level(q)

\* A call of Subscribe, and a Close of a handle, always returns.
AppCallsReturn ==
    \A h \in Handle :
      /\ (pc[App(h)] = "announce") ~> (pc[App(h)] = "owner")
      /\ (pc[App(h)] = "enter") ~> (pc[App(h)] = "gone")
===========================================================================
