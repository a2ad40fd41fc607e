----------------------- MODULE ClientShutdown_proofs -----------------------
(***************************************************************************)
(* The goroutines of a Client never wait for one another in a circle while *)
(* it is closed, for any number of handles, any of them registering,       *)
(* ending, being rejected or written for, and any buffer.                  *)
(***************************************************************************)
EXTENDS ClientShutdown, TLAPS

---------------------------------------------------------------------------
(* Where everybody is.                                                     *)

Ending == {"enter", "remove", "finish"}

\* Every process keeps to its own places, and works on a handle of the client
\* where it delivers to one or ends one.
Typed ==
    /\ lock \in [Locks -> Proc \cup {Nobody}]
    /\ pc \in [Proc -> PCs]
    /\ work \in [{"reader", "closer"} -> Handle \cup {CHOOSE h \in Handle : TRUE}]
    /\ once \in [Handle -> Proc \cup {Nobody, Over}]
    /\ hdone \subseteq Handle /\ reg \subseteq Handle /\ snap \subseteq Handle
Placed ==
    /\ \A h \in Handle : pc[h] \in {"start", "announce", "owner", "gone"} \cup Ending
    /\ pc["reader"] \in {"loop", "sending", "detach", "rejecting", "cancel", "join", "gone"} \cup Ending
    /\ pc["closer"] \in {"begin", "cancel", "pick", "returned"} \cup Ending
    /\ pc["syncer"] \in {"idle", "hasWrite", "hasProtocol", "writing", "gone"}
    /\ pc["heart"] \in {"idle", "hasProtocol", "writing", "gone"}
    /\ pc["reader"] \in {"sending", "detach"} \cup Ending => work["reader"] \in Handle
    /\ pc["closer"] \in Ending => work["closer"] \in Handle

\* Who ends which handle, and where it goes on.
Ender(p, h, after) ==
    \/ p \in Handle /\ h = p /\ after = "gone"
    \/ p = "reader" /\ h = work["reader"] /\ after = "rejecting"
    \/ p = "closer" /\ h = work["closer"] /\ after = "pick"


\* The processes, their places and the locks have different names.
LEMMA Names ==
    /\ \A h \in Handle : h \notin {"reader", "syncer", "heart", "closer", "commit", "write", "protocol"}
    /\ \A p \in Proc : p # Nobody /\ p # Over
    /\ Nobody # Over /\ Nobody \notin Locks
BY ShutdownAssumption DEF Proc, Locks, Nobody, Over

\* Every step keeps everybody in its places.
LEMMA TypedStep ==
    ASSUME Typed, Placed, [Next]_vars PROVE Typed' /\ Placed'
<1> USE Names DEF Goto, Acquire, Free, App, Delivery, Proc, Locks, PCs, Ending, Typed, Placed
<1>1. ASSUME NEW h \in Handle, SubscribePublish(h) PROVE Typed' /\ Placed'
  <2>0. h \in Proc /\ "commit" \in Locks /\ pc[h] = "start" /\ UNCHANGED <<work, once, hdone, snap>>
    BY <1>1 DEF SubscribePublish
  <2>1. CASE closed
    <3>1. pc' = [pc EXCEPT ![h] = "gone"] /\ UNCHANGED <<lock, reg>> BY <1>1, <2>1 DEF SubscribePublish
    <3> QED BY <2>0, <3>1
  <2>2. CASE ~closed
    <3>1. /\ pc' = [pc EXCEPT ![h] = "announce"]
          /\ lock' = [lock EXCEPT !["commit"] = h] /\ reg' = reg \cup {h}
      BY <1>1, <2>2 DEF SubscribePublish
    <3>2. Typed' BY <2>0, <3>1
    <3>3. Placed' BY <2>0, <3>1
    <3> QED BY <3>2, <3>3
  <2> QED BY <2>1, <2>2
<1>2. ASSUME NEW h \in Handle, SubscribeAnnounce(h) PROVE Typed' /\ Placed'
  BY <1>2 DEF SubscribeAnnounce
<1>3. ASSUME NEW h \in Handle, AppClose(h) PROVE Typed' /\ Placed'
  BY <1>3 DEF AppClose
<1>4. ASSUME NEW h \in Handle, TakeEvent(h) PROVE Typed' /\ Placed'
  BY <1>4 DEF TakeEvent
<1>5. ASSUME NEW h \in Handle, ReaderDeliver(h) PROVE Typed' /\ Placed'
  <2>0. "reader" \in Proc /\ h \in Locks /\ UNCHANGED <<once, hdone, reg, snap>>
    BY <1>5 DEF ReaderDeliver
  <2>1. CASE queue[h] < EventBuffer
    <3>1. UNCHANGED <<lock, pc, work>> BY <1>5, <2>1 DEF ReaderDeliver
    <3> QED BY <2>0, <3>1
  <2>2. CASE ~(queue[h] < EventBuffer)
    <3>1. /\ lock' = [lock EXCEPT ![h] = "reader"] /\ pc' = [pc EXCEPT !["reader"] = "sending"]
          /\ work' = [work EXCEPT !["reader"] = h]
      BY <1>5, <2>2 DEF ReaderDeliver
    <3>2. Typed' BY <2>0, <3>1
    <3>3. Placed' BY <2>0, <3>1
    <3> QED BY <3>2, <3>3
  <2> QED BY <2>1, <2>2
<1>6. ASSUME NEW h \in Handle, ReaderReject(h) PROVE Typed' /\ Placed'
  BY <1>6 DEF ReaderReject, ReaderTurn
<1>7. ASSUME NEW p, NEW h, NEW after, Ender(p, h, after), EndEnter(p, h, after) PROVE Typed' /\ Placed'
  <2>0. p \in Proc /\ h \in Handle /\ pc[p] = "enter" /\ UNCHANGED <<lock, work, reg, snap>>
    BY <1>7 DEF EndEnter, Ender
  <2>1. /\ pc' = [pc EXCEPT ![p] = "remove"] \/ pc' = [pc EXCEPT ![p] = after]
        /\ once' = once \/ once' = [once EXCEPT ![h] = p]
        /\ hdone' = hdone \/ hdone' = hdone \cup {h}
    BY <1>7 DEF EndEnter, CloseDone
  <2>2. after \in PCs BY <1>7 DEF Ender
  <2>3. Typed'
    <3>1. pc' \in [Proc -> PCs]
      <4>1. pc \in [Proc -> PCs] /\ "remove" \in PCs OBVIOUS
      <4>2. pc' = [pc EXCEPT ![p] = "remove"] \/ pc' = [pc EXCEPT ![p] = after] BY <2>1
      <4> HIDE DEF Proc, PCs, Typed, Placed
      <4> QED BY <2>2, <4>1, <4>2
    <3>2. once' \in [Handle -> Proc \cup {Nobody, Over}] /\ hdone' \subseteq Handle BY <2>0, <2>1
    <3> QED BY <2>0, <3>1, <3>2
  <2>4. Placed'
    <3>1. CASE pc' = [pc EXCEPT ![p] = "remove"] BY <2>0, <3>1
    <3>2. CASE pc' = [pc EXCEPT ![p] = after] BY <1>7, <2>0, <3>2 DEF Ender
    <3> QED BY <2>1, <3>1, <3>2
  <2> QED BY <2>3, <2>4
<1>8. ASSUME NEW p, NEW h, NEW after, Ender(p, h, after), EndRemove(p, h) PROVE Typed' /\ Placed'
  BY <1>8 DEF EndRemove, Ender
<1>9. ASSUME NEW p, NEW h, NEW after, Ender(p, h, after), EndFinish(p, h, after) PROVE Typed' /\ Placed'
  BY <1>9 DEF EndFinish, Ender
<1>10. CASE ReaderSent
  BY <1>10 DEF ReaderSent
<1>11. CASE ReaderDetach
  BY <1>11 DEF ReaderDetach
<1>12. CASE ReaderRejected
  BY <1>12 DEF ReaderRejected
<1>13. CASE ReaderLeave
  BY <1>13 DEF ReaderLeave, ReaderTurn
<1>14. CASE ReaderCancel
  BY <1>14 DEF ReaderCancel
<1>15. CASE ReaderJoin
  BY <1>15 DEF ReaderJoin
<1>16. ASSUME NEW p \in {"syncer", "heart"}, WriteLock(p) PROVE Typed' /\ Placed'
  BY <1>16 DEF WriteLock
<1>17. CASE WriteProtocol
  BY <1>17 DEF WriteProtocol
<1>18. ASSUME NEW p \in {"syncer", "heart"}, WriteCommit(p) PROVE Typed' /\ Placed'
  BY <1>18 DEF WriteCommit
<1>19. ASSUME NEW p \in {"syncer", "heart"}, WriteReturns(p) PROVE Typed' /\ Placed'
  BY <1>19 DEF WriteReturns, Unlocked
<1>20. ASSUME NEW p \in {"syncer", "heart"}, WriterLeaves(p) PROVE Typed' /\ Placed'
  BY <1>20 DEF WriterLeaves
<1>21. CASE CloseBegin
  BY <1>21 DEF CloseBegin
<1>22. CASE CloseCancel
  BY <1>22 DEF CloseCancel
<1>23. ASSUME NEW h \in Handle, ClosePick(h) PROVE Typed' /\ Placed'
  BY <1>23 DEF ClosePick
<1>24. CASE CloseJoin
  BY <1>24 DEF CloseJoin
<1>25. CASE UNCHANGED vars BY <1>25 DEF vars
<1>26. ASSUME NEW p, NEW h, NEW after, Ender(p, h, after), End(p, h, after) PROVE Typed' /\ Placed'
  BY <1>7, <1>8, <1>9, <1>26 DEF End
<1>27. ASSUME NEW h \in Handle, End(App(h), h, "gone") PROVE Typed' /\ Placed'
  <2>1. Ender(App(h), h, "gone") BY DEF Ender
  <2> QED BY <1>26, <1>27, <2>1
<1>28. CASE End("reader", work["reader"], "rejecting")
  <2>1. Ender("reader", work["reader"], "rejecting") BY DEF Ender
  <2> QED BY <1>26, <1>28, <2>1
<1>29. CASE End("closer", work["closer"], "pick")
  <2>1. Ender("closer", work["closer"], "pick") BY DEF Ender
  <2> QED BY <1>26, <1>29, <2>1
<1> HIDE Names DEF Goto, Acquire, Free, Delivery, Proc, Locks, PCs, Ending, Typed, Placed
<1> QED BY <1>1, <1>2, <1>3, <1>4, <1>5, <1>6, <1>10, <1>11, <1>12, <1>13, <1>14, <1>15, <1>16, <1>17, <1>18, <1>19, <1>20, <1>21, <1>22, <1>23, <1>24, <1>25, <1>27, <1>28, <1>29
    DEF Next, AppStep, ReaderStep, WriterStep, CloserStep

\* Whoever ends a handle works on it.
LEMMA EnderWorks ==
    ASSUME Placed, NEW p, NEW h, NEW after, Ender(p, h, after)
    PROVE  p \in Proc /\ h = HandleOf(p) /\ (pc[p] \in Ending => h \in Handle)
BY Names DEF Ender, HandleOf, Placed, Proc

---------------------------------------------------------------------------
(* Who holds what.                                                         *)

\* A lock has its owner at the place where the code holds it: commitMu around a
\* write or the announcement of a registered handle, protocolMu around a write
\* or the rejection of a group, deliveryMu around a blocked delivery; and the
\* once of a handle belongs to who is ending it.
Owners ==
    /\ \A p \in Proc : lock["commit"] = p =>
         \/ p \in {"syncer", "heart"} /\ pc[p] = "writing"
         \/ p \in Handle /\ pc[p] = "announce"
    /\ \A p \in Proc : lock["protocol"] = p =>
         \/ p = "syncer" /\ pc[p] \in {"hasProtocol", "writing"}
         \/ p = "reader" /\ pc[p] \in {"detach", "rejecting"} \cup Ending
    /\ \A h \in Handle, p \in Proc : lock[h] = p =>
         p = "reader" /\ pc[p] = "sending" /\ work["reader"] = h
    /\ \A h \in Handle, p \in Proc : once[h] = p =>
         pc[p] \in {"remove", "finish"} /\ HandleOf(p) = h

\* Every step keeps the owners.
LEMMA OwnersStep ==
    ASSUME Typed, Placed, Owners, [Next]_vars PROVE Owners'
<1> USE Names DEF Goto, Acquire, Free, App, Delivery, Proc, Locks, Ending, Typed, Placed, HandleOf, Owners
<1>1. ASSUME NEW h \in Handle, SubscribePublish(h) PROVE Owners'
  <2>0. h \in Proc /\ pc[h] = "start" /\ UNCHANGED <<work, once, hdone, snap, mdone, cancelled>>
    BY <1>1 DEF SubscribePublish
  <2>1. CASE closed
    <3>1. pc' = [pc EXCEPT ![h] = "gone"] /\ UNCHANGED <<lock, reg>> BY <1>1, <2>1 DEF SubscribePublish
    <3> QED BY <2>0, <3>1
  <2>2. CASE ~closed
    <3>1. /\ pc' = [pc EXCEPT ![h] = "announce"]
          /\ lock' = [lock EXCEPT !["commit"] = h] /\ reg' = reg \cup {h}
      BY <1>1, <2>2 DEF SubscribePublish
    <3> QED BY <2>0, <3>1
  <2> QED BY <2>1, <2>2
<1>2. ASSUME NEW h \in Handle, SubscribeAnnounce(h) PROVE Owners'
  BY <1>2 DEF SubscribeAnnounce
<1>3. ASSUME NEW h \in Handle, AppClose(h) PROVE Owners'
  BY <1>3 DEF AppClose
<1>4. ASSUME NEW h \in Handle, TakeEvent(h) PROVE Owners'
  BY <1>4 DEF TakeEvent
<1>5. ASSUME NEW h \in Handle, ReaderDeliver(h) PROVE Owners'
  <2>0. "reader" \in Proc /\ h \in Locks /\ h \in reg \ hdone /\ ~mdone
        /\ (h \in Streaming \/ pc[h] # "announce") /\ pc["reader"] = "loop"
        /\ UNCHANGED <<once, hdone, reg, snap, mdone, cancelled>>
    BY <1>5 DEF ReaderDeliver, ReaderTurn
  <2>1. CASE queue[h] < EventBuffer
    <3>1. UNCHANGED <<lock, pc, work>> BY <1>5, <2>1 DEF ReaderDeliver
    <3> QED BY <2>0, <3>1
  <2>2. CASE ~(queue[h] < EventBuffer)
    <3>1. /\ Blocking /\ lock' = [lock EXCEPT ![h] = "reader"]
          /\ pc' = [pc EXCEPT !["reader"] = "sending"] /\ work' = [work EXCEPT !["reader"] = h]
      BY <1>5, <2>2 DEF ReaderDeliver
    <3>2. work'["reader"] = h /\ work'["closer"] = work["closer"] BY <3>1
    <3> QED BY <2>0, <3>1, <3>2
  <2> QED BY <2>1, <2>2
<1>6. ASSUME NEW h \in Handle, ReaderReject(h) PROVE Owners'
  BY <1>6 DEF ReaderReject, ReaderTurn
<1>7. ASSUME NEW p, NEW h, NEW after, Ender(p, h, after), EndEnter(p, h, after) PROVE Owners'
  <2>1. CASE once[h] = Nobody BY <1>7, <2>1 DEF EndEnter, CloseDone, Ender
  <2>2. CASE ~(once[h] = Nobody) BY <1>7, <2>2 DEF EndEnter, CloseDone, Ender
  <2> QED BY <2>1, <2>2
<1>8. ASSUME NEW p, NEW h, NEW after, Ender(p, h, after), EndRemove(p, h) PROVE Owners'
  BY <1>8 DEF EndRemove, Ender
<1>9. ASSUME NEW p, NEW h, NEW after, Ender(p, h, after), EndFinish(p, h, after) PROVE Owners'
  BY <1>9 DEF EndFinish, Ender
<1>10. CASE ReaderSent
  BY <1>10 DEF ReaderSent
<1>11. CASE ReaderDetach
  BY <1>11 DEF ReaderDetach
<1>12. CASE ReaderRejected
  BY <1>12 DEF ReaderRejected
<1>13. CASE ReaderLeave
  BY <1>13 DEF ReaderLeave, ReaderTurn
<1>14. CASE ReaderCancel
  BY <1>14 DEF ReaderCancel
<1>15. CASE ReaderJoin
  BY <1>15 DEF ReaderJoin
<1>16. ASSUME NEW p \in {"syncer", "heart"}, WriteLock(p) PROVE Owners'
  BY <1>16 DEF WriteLock
<1>17. CASE WriteProtocol
  BY <1>17 DEF WriteProtocol
<1>18. ASSUME NEW p \in {"syncer", "heart"}, WriteCommit(p) PROVE Owners'
  BY <1>18 DEF WriteCommit
<1>19. ASSUME NEW p \in {"syncer", "heart"}, WriteReturns(p) PROVE Owners'
  BY <1>19 DEF WriteReturns, Unlocked
<1>20. ASSUME NEW p \in {"syncer", "heart"}, WriterLeaves(p) PROVE Owners'
  BY <1>20 DEF WriterLeaves
<1>21. CASE CloseBegin
  BY <1>21 DEF CloseBegin
<1>22. CASE CloseCancel
  BY <1>22 DEF CloseCancel
<1>23. ASSUME NEW h \in Handle, ClosePick(h) PROVE Owners'
  BY <1>23 DEF ClosePick
<1>24. CASE CloseJoin
  BY <1>24 DEF CloseJoin
<1>25. CASE UNCHANGED vars BY <1>25 DEF vars
<1>26. ASSUME NEW p, NEW h, NEW after, Ender(p, h, after), End(p, h, after) PROVE Owners'
  BY <1>7, <1>8, <1>9, <1>26 DEF End
<1>27. ASSUME NEW h \in Handle, End(App(h), h, "gone") PROVE Owners'
  <2>1. Ender(App(h), h, "gone") BY DEF Ender
  <2> QED BY <1>26, <1>27, <2>1
<1>28. CASE End("reader", work["reader"], "rejecting")
  <2>1. Ender("reader", work["reader"], "rejecting") BY DEF Ender
  <2> QED BY <1>26, <1>28, <2>1
<1>29. CASE End("closer", work["closer"], "pick")
  <2>1. Ender("closer", work["closer"], "pick") BY DEF Ender
  <2> QED BY <1>26, <1>29, <2>1
<1> HIDE Names DEF Goto, Acquire, Free, Delivery, Proc, Locks, Ending, Typed, Placed, HandleOf, Owners
<1> QED BY <1>1, <1>2, <1>3, <1>4, <1>5, <1>6, <1>10, <1>11, <1>12, <1>13, <1>14, <1>15, <1>16, <1>17, <1>18, <1>19, <1>20, <1>21, <1>22, <1>23, <1>24, <1>25, <1>27, <1>28, <1>29
    DEF Next, AppStep, ReaderStep, WriterStep, CloserStep

---------------------------------------------------------------------------
(* What shutdown relies on.                                                *)

\* Who ends a handle has closed its done channel; a handle that is being
\* delivered to is registered, done, or still to be closed by Client.Close; and
\* the reader only joins writers whose context is cancelled.
Draining ==
    /\ \A h \in Handle : once[h] # Nobody => h \in hdone
    /\ \A p \in Proc : pc[p] \in {"remove", "finish"} => HandleOf(p) \in hdone
    /\ \A h \in reg : pc[h] # "start"
    /\ IF pc["closer"] = "begin" THEN snap = {} ELSE mdone
    /\ pc["reader"] = "join" => cancelled
    /\ pc["reader"] = "sending" =>
         /\ Blocking /\ pc[work["reader"]] # "start"
         /\ work["reader"] \in Streaming \/ pc[work["reader"]] # "announce"
         /\ \/ work["reader"] \in hdone \cup snap
            \/ pc["closer"] = "begin" /\ work["reader"] \in reg
            \/ pc["closer"] = "enter" /\ work["closer"] = work["reader"]

\* Every step keeps what shutdown relies on.
LEMMA DrainingStep ==
    ASSUME Typed, Placed, Draining, [Next]_vars PROVE Draining'
<1> USE Names DEF Goto, Acquire, Free, App, Delivery, Proc, Locks, Ending, Typed, Placed, HandleOf, Draining
<1>1. ASSUME NEW h \in Handle, SubscribePublish(h) PROVE Draining'
  <2>0. h \in Proc /\ pc[h] = "start" /\ UNCHANGED <<work, once, hdone, snap, mdone, cancelled>>
    BY <1>1 DEF SubscribePublish
  <2>1. (pc' = [pc EXCEPT ![h] = "gone"] /\ reg' = reg) \/ (pc' = [pc EXCEPT ![h] = "announce"] /\ reg' = reg \cup {h})
    BY <1>1 DEF SubscribePublish
  <2>2. \A p \in Proc \ {h} : pc'[p] = pc[p] BY <2>0, <2>1
  <2>3. pc'[h] = "gone" \/ pc'[h] = "announce" BY <2>0, <2>1 DEF Typed
  <2>4. ASSUME NEW k \in reg' PROVE pc'[k] # "start"
    <3>1. CASE k = h BY <2>3, <3>1
    <3>2. CASE k # h
      <4>1. k \in reg /\ k \in Handle BY <2>1, <3>2
      <4>2. pc'[k] = pc[k] BY <2>2, <3>2, <4>1
      <4> QED BY <4>1, <4>2
    <3> QED BY <3>1, <3>2
  <2>5. pc'["reader"] = pc["reader"] /\ pc'["closer"] = pc["closer"] BY <2>2
  <2>6. pc["reader"] = "sending" => pc'[work["reader"]] = pc[work["reader"]] BY <2>0, <2>2
  <2> QED BY <2>0, <2>1, <2>2, <2>3, <2>4, <2>5, <2>6
<1>2. ASSUME NEW h \in Handle, SubscribeAnnounce(h) PROVE Draining'
  BY <1>2 DEF SubscribeAnnounce
<1>3. ASSUME NEW h \in Handle, AppClose(h) PROVE Draining'
  BY <1>3 DEF AppClose
<1>4. ASSUME NEW h \in Handle, TakeEvent(h) PROVE Draining'
  BY <1>4 DEF TakeEvent
<1>5. ASSUME NEW h \in Handle, ReaderDeliver(h) PROVE Draining'
  <2>0. "reader" \in Proc /\ h \in Locks /\ h \in reg \ hdone /\ ~mdone
        /\ (h \in Streaming \/ pc[h] # "announce") /\ pc["reader"] = "loop"
        /\ UNCHANGED <<once, hdone, reg, snap, mdone, cancelled>>
    BY <1>5 DEF ReaderDeliver, ReaderTurn
  <2>1. CASE queue[h] < EventBuffer
    <3>1. UNCHANGED <<lock, pc, work>> BY <1>5, <2>1 DEF ReaderDeliver
    <3> QED BY <2>0, <3>1
  <2>2. CASE ~(queue[h] < EventBuffer)
    <3>1. /\ Blocking /\ lock' = [lock EXCEPT ![h] = "reader"]
          /\ pc' = [pc EXCEPT !["reader"] = "sending"] /\ work' = [work EXCEPT !["reader"] = h]
      BY <1>5, <2>2 DEF ReaderDeliver
    <3>2. work'["reader"] = h /\ work'["closer"] = work["closer"] BY <3>1
    <3> QED BY <2>0, <3>1, <3>2
  <2> QED BY <2>1, <2>2
<1>6. ASSUME NEW h \in Handle, ReaderReject(h) PROVE Draining'
  BY <1>6 DEF ReaderReject, ReaderTurn
<1>7. ASSUME NEW p, NEW h, NEW after, Ender(p, h, after), EndEnter(p, h, after) PROVE Draining'
  <2>0. p \in Proc /\ h \in Handle /\ h = HandleOf(p) /\ pc[p] = "enter"
        /\ UNCHANGED <<lock, work, reg, snap, mdone, cancelled>>
    BY <1>7, EnderWorks DEF EndEnter
  <2>1. CASE once[h] = Nobody
    <3>1. /\ once' = [once EXCEPT ![h] = p] /\ hdone' = hdone \cup {h}
          /\ pc' = [pc EXCEPT ![p] = "remove"]
      BY <1>7, <2>1 DEF EndEnter, CloseDone
    <3> QED BY <2>0, <3>1
  <2>2. CASE once[h] # Nobody
    <3>1. h \in hdone BY <2>0, <2>2
    <3>2. UNCHANGED <<once, hdone>> /\ pc' = [pc EXCEPT ![p] = after] BY <1>7, <2>2 DEF EndEnter
    <3>3. after \in {"gone", "rejecting", "pick"} BY <1>7 DEF Ender
    <3> QED BY <1>7, <2>0, <3>1, <3>2, <3>3 DEF Ender
  <2> QED BY <2>1, <2>2
<1>8. ASSUME NEW p, NEW h, NEW after, Ender(p, h, after), EndRemove(p, h) PROVE Draining'
  <2>1. pc[p] = "remove" /\ pc' = [pc EXCEPT ![p] = "finish"] /\ reg' = reg \ {h}
        /\ UNCHANGED <<work, once, hdone, snap, mdone, cancelled>>
    BY <1>8 DEF EndRemove
  <2>2. pc[p] \in Ending BY <2>1
  <2>3. p \in Proc /\ h \in Handle /\ h = HandleOf(p)
    <3> HIDE Names DEF Proc, Typed, Placed, HandleOf, Draining, Ending, Locks
    <3> QED BY <1>8, <2>2, EnderWorks
  <2>4. h \in hdone BY <2>1, <2>3
  <2> QED BY <2>1, <2>3, <2>4
<1>9. ASSUME NEW p, NEW h, NEW after, Ender(p, h, after), EndFinish(p, h, after) PROVE Draining'
  <2>a. pc[p] = "finish" BY <1>9 DEF EndFinish
  <2>c. pc[p] \in Ending BY <2>a
  <2>b. p \in Proc /\ h \in Handle /\ h = HandleOf(p)
    <3> HIDE Names DEF Proc, Typed, Placed, HandleOf, Draining, Ending, Locks
    <3> QED BY <1>9, <2>c, EnderWorks
  <2>0. p \in Proc /\ h \in Handle /\ h = HandleOf(p) /\ pc[p] = "finish" /\ h \in hdone
    BY <2>a, <2>b
  <2>1. /\ once' = [once EXCEPT ![h] = Over] /\ pc' = [pc EXCEPT ![p] = after]
        /\ UNCHANGED <<work, hdone, reg, snap, mdone, cancelled>>
    BY <1>9 DEF EndFinish
  <2> QED BY <1>9, <2>0, <2>1 DEF Ender
<1>10. CASE ReaderSent
  BY <1>10 DEF ReaderSent
<1>11. CASE ReaderDetach
  BY <1>11 DEF ReaderDetach
<1>12. CASE ReaderRejected
  BY <1>12 DEF ReaderRejected
<1>13. CASE ReaderLeave
  BY <1>13 DEF ReaderLeave, ReaderTurn
<1>14. CASE ReaderCancel
  BY <1>14 DEF ReaderCancel
<1>15. CASE ReaderJoin
  BY <1>15 DEF ReaderJoin
<1>16. ASSUME NEW p \in {"syncer", "heart"}, WriteLock(p) PROVE Draining'
  BY <1>16 DEF WriteLock
<1>17. CASE WriteProtocol
  BY <1>17 DEF WriteProtocol
<1>18. ASSUME NEW p \in {"syncer", "heart"}, WriteCommit(p) PROVE Draining'
  BY <1>18 DEF WriteCommit
<1>19. ASSUME NEW p \in {"syncer", "heart"}, WriteReturns(p) PROVE Draining'
  BY <1>19 DEF WriteReturns, Unlocked
<1>20. ASSUME NEW p \in {"syncer", "heart"}, WriterLeaves(p) PROVE Draining'
  BY <1>20 DEF WriterLeaves
<1>21. CASE CloseBegin
  BY <1>21 DEF CloseBegin
<1>22. CASE CloseCancel
  BY <1>22 DEF CloseCancel
<1>23. ASSUME NEW h \in Handle, ClosePick(h) PROVE Draining'
  BY <1>23 DEF ClosePick
<1>24. CASE CloseJoin
  BY <1>24 DEF CloseJoin
<1>25. CASE UNCHANGED vars BY <1>25 DEF vars
<1>26. ASSUME NEW p, NEW h, NEW after, Ender(p, h, after), End(p, h, after) PROVE Draining'
  BY <1>7, <1>8, <1>9, <1>26 DEF End
<1>27. ASSUME NEW h \in Handle, End(App(h), h, "gone") PROVE Draining'
  <2>1. Ender(App(h), h, "gone") BY DEF Ender
  <2> QED BY <1>26, <1>27, <2>1
<1>28. CASE End("reader", work["reader"], "rejecting")
  <2>1. Ender("reader", work["reader"], "rejecting") BY DEF Ender
  <2> QED BY <1>26, <1>28, <2>1
<1>29. CASE End("closer", work["closer"], "pick")
  <2>1. Ender("closer", work["closer"], "pick") BY DEF Ender
  <2> QED BY <1>26, <1>29, <2>1
<1> HIDE Names DEF Goto, Acquire, Free, Delivery, Proc, Locks, Ending, Typed, Placed, HandleOf, Draining
<1> QED BY <1>1, <1>2, <1>3, <1>4, <1>5, <1>6, <1>10, <1>11, <1>12, <1>13, <1>14, <1>15, <1>16, <1>17, <1>18, <1>19, <1>20, <1>21, <1>22, <1>23, <1>24, <1>25, <1>27, <1>28, <1>29
    DEF Next, AppStep, ReaderStep, WriterStep, CloserStep

\* The invariants together hold in every state.
Orderly == Typed /\ Placed /\ Owners /\ Draining
LEMMA OrderlyHolds == Spec => []Orderly
<1>1. Init => Orderly
  <2> SUFFICES ASSUME Init PROVE Orderly
    OBVIOUS
  <2> USE Names DEF Init
  <2>1. Typed BY DEF Typed, Proc, PCs
  <2>2. Placed BY DEF Placed, Proc, Ending
  <2>3. Owners BY DEF Owners, Proc, Locks
  <2>4. Draining BY DEF Draining, Proc
  <2> QED BY <2>1, <2>2, <2>3, <2>4 DEF Orderly
<1>2. Orderly /\ [Next]_vars => Orderly'
  BY TypedStep, OwnersStep, DrainingStep DEF Orderly
<1> QED BY <1>1, <1>2, PTL DEF Spec

---------------------------------------------------------------------------
(* No circular wait.                                                       *)

\* Whoever holds commitMu writes or announces, and both wait for at most a
\* delivery.
LEMMA CommitHolder ==
    ASSUME Orderly, NEW q \in Proc, lock["commit"] = q
    PROVE  UnderWay(q) /\ Level(q) \in {6, 7}
BY Names DEF Orderly, Owners, UnderWay, Level

\* Whoever holds protocolMu writes, waits for commitMu to write, or rejects.
LEMMA ProtocolHolder ==
    ASSUME Orderly, NEW q \in Proc, lock["protocol"] = q
    PROVE  UnderWay(q) /\ Level(q) \in 4..7 /\ (q = "reader" => pc[q] # "loop")
BY Names DEF Orderly, Owners, UnderWay, Level, Ending

\* Whoever ends a handle waits for commitMu or its deliveryMu.
LEMMA OnceHolder ==
    ASSUME Orderly, NEW h \in Handle, NEW q \in Proc, once[h] = q
    PROVE  UnderWay(q) /\ Level(q) \in {5, 6}
BY Names DEF Orderly, Owners, UnderWay, Level

\* Only a blocked delivery holds deliveryMu.
LEMMA DeliveryHolder ==
    ASSUME Orderly, NEW h \in Handle, NEW q \in Proc, lock[h] = q
    PROVE  /\ q = "reader" /\ Level(q) = 7 /\ work["reader"] = h
           /\ h \in hdone => UnderWay(q)
           /\ pc[h] = "announce" => Blocking /\ h \in Streaming
BY Names DEF Orderly, Owners, Draining, UnderWay, Level

\* Once every handle of the snapshot is closed the reader has no delivery left
\* that could be stuck.
LEMMA JoinedReader ==
    ASSUME Orderly, pc["closer"] = "pick", snap = {}, pc["reader"] # "gone"
    PROVE  UnderWay("reader") /\ Level("reader") \in 2..7
BY Names DEF Orderly, Placed, Draining, UnderWay, Level, Ending

\* The writers the reader joins leave or finish.
LEMMA JoinedWriter ==
    ASSUME Orderly, pc["reader"] = "join", NEW q \in {"syncer", "heart"}, pc[q] # "gone"
    PROVE  UnderWay(q) /\ Level(q) \in 3..7
BY Names DEF Orderly, Placed, Draining, UnderWay, Level, Ending

\* What a process is doing when it waits for a delivery or the once of a handle.
LEMMA WorksOnHandle ==
    ASSUME Orderly, NEW p \in Proc, pc[p] \in Ending \cup {"announce"}
    PROVE  HandleOf(p) \in Handle /\ (pc[p] = "announce" => p \in Handle /\ HandleOf(p) = p)
BY Names DEF Orderly, Placed, HandleOf, Ending, Proc

\* However registrations, closes, deliveries, rejections, writes and
\* Client.Close interleave, a goroutine under way only waits for one that is
\* under way and later in the order of the locks, unless BackpressureBlock meets
\* an identity that already streams to a handle being announced (Streaming):
\* in no other case can they wait for one another in a circle.
THEOREM ShutdownNeverStuck ==
    ASSUME Streaming = {} \/ ~Blocking
    PROVE  Spec => []NoCircularWait
<1>1. Orderly => NoCircularWait
  <2> SUFFICES ASSUME Orderly, NEW p \in Proc, NEW q \in Proc, UnderWay(p), WaitsFor(p, q)
               PROVE  UnderWay(q) /\ Level(p) < Level(q)
    BY DEF NoCircularWait
  <2>1. CASE pc[p] \in {"loop", "hasWrite"} /\ lock["protocol"] = q
    <3>1. Level(p) \in {2, 3} BY <2>1 DEF Level
    <3> QED BY <2>1, <3>1, ProtocolHolder
  <2>2. CASE pc[p] \in {"start", "detach", "remove", "cancel", "hasProtocol"} /\ lock["commit"] = q
    <3>1. Level(p) = 5 BY <2>2 DEF Level
    <3> QED BY <2>2, <3>1, CommitHolder
  <2>3. CASE pc[p] \in {"announce", "finish"} /\ lock[HandleOf(p)] = q
    <3>1. Level(p) = 6 BY <2>3 DEF Level
    <3>2. HandleOf(p) \in Handle /\ (pc[p] = "announce" => HandleOf(p) = p)
      BY <2>3, WorksOnHandle DEF Ending
    <3>3. HandleOf(p) \in hdone
      BY <2>3, <3>2, DeliveryHolder DEF Orderly, Draining
    <3> QED BY <2>3, <3>1, <3>2, <3>3, DeliveryHolder
  <2>4. CASE pc[p] = "enter" /\ once[HandleOf(p)] = q
    <3>1. Level(p) = 4 BY <2>4 DEF Level
    <3>2. HandleOf(p) \in Handle BY <2>4, WorksOnHandle DEF Ending
    <3> QED BY <2>4, <3>1, <3>2, OnceHolder
  <2>5. CASE pc[p] = "pick" /\ snap = {} /\ q = "reader" /\ pc[q] # "gone"
    <3>1. Level(p) = 1 BY <2>5 DEF Level
    <3>2. p = "closer" BY <2>5 DEF Orderly, Placed, Ending, Proc
    <3> QED BY <2>5, <3>1, <3>2, JoinedReader
  <2>6. CASE pc[p] = "join" /\ q \in {"syncer", "heart"} /\ pc[q] # "gone"
    <3>1. Level(p) = 2 BY <2>6 DEF Level
    <3>2. p = "reader" BY <2>6 DEF Orderly, Placed, Ending, Proc
    <3> QED BY <2>6, <3>1, <3>2, JoinedWriter
  <2> QED BY <2>1, <2>2, <2>3, <2>4, <2>5, <2>6 DEF WaitsFor, Wanted, Delivery, Nobody
<1> QED BY <1>1, OrderlyHolds, PTL

=============================================================================
