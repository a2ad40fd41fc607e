--------------------- MODULE ConnectionManager_proofs ---------------------
(***************************************************************************)
(* What the connection manager guarantees for any handles, keys and        *)
(* identities, and any number of faults.                                   *)
(***************************************************************************)
EXTENDS ConnectionManager, FiniteSetTheorems, SequenceTheorems, TLAPS

---------------------------------------------------------------------------
(* Type correctness.                                                       *)

\* The synchronizer runs while serve says so, works on an identity in two of
\* its places, and writes a subscribe only for one that is not on the wire.
Passes ==
    /\ syncRunning <=> sync # "none"
    /\ syncAgain => syncRunning
    /\ sync \in {"join", "write"} => sid \in Identity
    /\ (sync = "write" /\ admission.want) => sid \notin active

\* The wire form of a group of handles is one of theirs or the canonical one.
LEMMA FingerprintType ==
    ASSUME NEW handles \in SUBSET Handle PROVE Fingerprint(handles) \in Wire
<1>1. CASE Cardinality(handles) = 1
  <2>1. handles # {} BY <1>1, FS_EmptySet
  <2> QED BY <2>1 DEF Fingerprint, Wire
<1>2. CASE Cardinality(handles) # 1 BY <1>2 DEF Fingerprint, Wire
<1> QED BY <1>1, <1>2

\* A handle's identity, and those of a set of handles.
LEMMA Identities ==
    /\ \A h \in Handle : IdentityOf[h] \in Identity
    /\ \A set \in SUBSET Handle : {IdentityOf[h] : h \in set} \subseteq Identity
    /\ \A set \in SUBSET Handle : \A i : OfIdentity(set, i) \in SUBSET Handle
BY DEF Identity, OfIdentity

\* Telling handles of a change keeps the type of their states.
LEMMA StatesType ==
    ASSUME TypeOK, NEW handles,
           NEW state \in {"connecting", "connected", "subscribed", "reconnecting", "error"}
    PROVE  States(last, handles, state) \in
             [Handle -> {"none", "connecting", "connected", "subscribed",
                         "reconnecting", "error", "unsubscribed"}]
BY DEF TypeOK, States

\* What a frame answers is pending, and what it rejects is an identity.
LEMMA DispatchTypes ==
    ASSUME TypeOK, NEW reply, reply.kind \in ReplyKind
    PROVE  Answered(reply) \subseteq pending /\ Rejected(reply) \subseteq Identity
<1>1. Answered(reply) \subseteq pending BY DEF Answered, ReplyKind
<1>2. \A p \in pending : p[2] \in Identity BY DEF TypeOK
<1> QED BY <1>1, <1>2 DEF Rejected

\* A frame acknowledges groups or rejects identities; a rejection waits for
\* commitMu.  The rest of the state is left alone.
LEMMA DispatchCases ==
    ASSUME TypeOK, Dispatch
    PROVE  /\ mgr = "serving" /\ toClient # <<>> /\ toClient' = Tail(toClient)
           /\ mgr' \in {"serving", "teardown"}
           /\ pending' \subseteq pending
           /\ UNCHANGED <<publishing, client, closeSet, watcher, cancelled, syncRunning,
                          syncAgain, sync, cur, todo, sid, sawAcked, up, toServer, server,
                          faults, stolen>>
           /\ \/ \E ids \in SUBSET Identity : Head(toClient).kind = "ok" /\ Acknowledge(ids)
              \/ \E ids \in SUBSET Identity :
                   Head(toClient).kind # "ok" /\ (ids # {} => CommitFree) /\ Reject(ids)
<1> DEFINE reply == Head(toClient)
           granted == {p[2] : p \in {q \in Answered(reply) : q[1] = "subscribe"}}
<1>1. \A p \in pending : p[2] \in Identity BY DEF TypeOK
<1>2. reply.kind \in ReplyKind
  <2>1. toClient # <<>> /\ toClient \in Seq([method : Method, id : Identity, kind : ReplyKind])
    BY DEF TypeOK, Dispatch
  <2>2. reply \in [method : Method, id : Identity, kind : ReplyKind] BY <2>1, HeadTailProperties
  <2> QED BY <2>2
<1>3. granted \subseteq Identity /\ Rejected(reply) \subseteq Identity BY <1>1, <1>2, DispatchTypes
<1>4. /\ mgr = "serving" /\ toClient # <<>> /\ toClient' = Tail(toClient)
      /\ pending' \subseteq pending
      /\ UNCHANGED <<publishing, client, closeSet, watcher, cancelled, syncRunning,
                     syncAgain, sync, cur, todo, sid, sawAcked, up, toServer, server,
                     faults, stolen>>
  BY DEF Dispatch
<1>5. mgr' \in {"serving", "teardown"} BY DEF Dispatch, LeaveIfIdle
<1>6. IF reply.kind = "ok" THEN Acknowledge(granted)
        ELSE (Rejected(reply) # {} => CommitFree) /\ Reject(Rejected(reply))
  BY DEF Dispatch
<1> HIDE DEF granted, reply
<1>7. CASE reply.kind = "ok" BY <1>3, <1>4, <1>5, <1>6, <1>7 DEF reply
<1>8. CASE reply.kind # "ok" BY <1>3, <1>4, <1>5, <1>6, <1>8 DEF reply
<1> QED BY <1>7, <1>8

\* What a waiting write asks for, ...
Admissions == [want : BOOLEAN, wire : Wire, stale : BOOLEAN]

\* ... the flags, ...
Flags ==
    /\ wake \in BOOLEAN /\ cancelled \in BOOLEAN /\ syncRunning \in BOOLEAN /\ syncAgain \in BOOLEAN
    /\ sawAcked \in BOOLEAN /\ up \in BOOLEAN /\ stolen \in BOOLEAN

\* ... and the rest of the state: the three parts of TypeOK.
Shapes ==
    /\ subs \subseteq Handle
    /\ life \in [Handle -> {"fresh", "open", "closing", "ended"}]
    /\ last \in [Handle -> {"none", "connecting", "connected", "subscribed",
                            "reconnecting", "error", "unsubscribed"}]
    /\ publishing \in Handle \cup {NoHandle}
    /\ client \in {"open", "closing", "cancelled", "closed"}
    /\ closeSet \subseteq Handle
    /\ mgr \in {"waitSubs", "parked", "dialing", "serving", "teardown",
                "joining", "reconnecting", "stopped"}
    /\ watcher \in {"none", "watching", "stray"}
    /\ active \subseteq Identity
    /\ members \in [Identity -> SUBSET Handle]
    /\ acked \in [Identity -> BOOLEAN]
    /\ pending \subseteq Method \X Identity
    /\ sync \in {"none", "start", "active", "join", "subscribe", "write", "ok", "failed"}
    /\ cur \subseteq Handle /\ todo \subseteq Identity
    /\ sid \in Identity \cup {NoIdentity}
    /\ toServer \in Seq([method : Method, id : Identity])
    /\ toClient \in Seq([method : Method, id : Identity, kind : ReplyKind])
    /\ server \subseteq Identity
    /\ faults \in 0..MaxFaults

\* registryChangedLocked can only mark the waiting write as stale.
LEMMA InvalidateKeeps ==
    ASSUME admission \in Admissions, NEW i, NEW registry, Invalidate(i, registry)
    PROVE  /\ admission' \in Admissions
           /\ admission'.want = admission.want /\ admission'.wire = admission.wire
           /\ admission' = admission \/ admission'.stale
<1>1. admission' = admission \/ admission' = [admission EXCEPT !.stale = TRUE] BY DEF Invalidate
<1> QED BY <1>1 DEF Admissions

\* A write starts stale exactly when the registry has already moved on.
LEMMA RegisterType ==
    ASSUME NEW i, NEW want \in BOOLEAN, NEW wire \in Wire, RegisterAdmission(i, want, wire)
    PROVE  /\ admission' \in Admissions /\ admission'.want = want /\ admission'.wire = wire
           /\ sid' = i /\ sync' = "write"
           /\ ~admission'.stale <=> /\ want = (i \in Registered)
                                    /\ want => Fingerprint(OfIdentity(subs, i)) = wire
<1> DEFINE old == \/ want # (i \in Registered)
                  \/ want /\ Fingerprint(OfIdentity(subs, i)) # wire
<1>1. old \in BOOLEAN OBVIOUS
<1>2. admission' = [want |-> want, wire |-> wire, stale |-> old] /\ sid' = i /\ sync' = "write" BY DEF RegisterAdmission
<1>3. ~old <=> (want = (i \in Registered)) /\ (want => Fingerprint(OfIdentity(subs, i)) = wire) OBVIOUS
<1> HIDE DEF old
<1> QED BY <1>1, <1>2, <1>3 DEF Admissions

\* No write is waiting.
LEMMA NoAdmissionType == NoAdmission \in Admissions /\ NoAdmission.want = FALSE
BY DEF NoAdmission, Admissions, Wire

\* Every step keeps the flags Boolean.
LEMMA FlagsStep == ASSUME TypeOK, [Next]_vars PROVE Flags'
<1> USE DEF clientVars, groupVars, serveVars, syncVars, netVars, vars, TypeOK, Flags
<1>1. ASSUME NEW h \in Handle, SubscribePublish(h) PROVE Flags'
  BY <1>1 DEF SubscribePublish
<1>2. ASSUME NEW h \in Handle, CloseBegin(h) PROVE Flags'
  BY <1>2 DEF CloseBegin
<1>3. ASSUME NEW h \in Handle, CloseRemove(h) PROVE Flags'
  BY <1>3 DEF CloseRemove, Invalidate, Notify
<1>4. CASE SubscribeAnnounce
  BY <1>4 DEF SubscribeAnnounce, Invalidate, Notify
<1>5. CASE ClientCloseBegin
  BY <1>5 DEF ClientCloseBegin
<1>6. CASE ClientCloseCancel
  BY <1>6 DEF ClientCloseCancel
<1>7. CASE ClientCloseJoin
  BY <1>7 DEF ClientCloseJoin
<1>8. CASE StartDial
  BY <1>8 DEF StartDial, StateAll, States
<1>9. CASE Park
  BY <1>9 DEF Park
<1>10. CASE Unpark
  BY <1>10 DEF Unpark
<1>11. CASE Stop
  BY <1>11 DEF Stop
<1>12. CASE DialFails
  BY <1>12 DEF DialFails, StateAll, States, WatcherAfterDial
<1>13. CASE DialSucceeds
  BY <1>13 DEF DialSucceeds, StateAll, States, WatcherAfterDial
<1>14. CASE ReconnectWoken
  BY <1>14 DEF ReconnectWoken
<1>15. CASE ReconnectElapsed
  BY <1>15 DEF ReconnectElapsed
<1>16. CASE TeardownCancel
  BY <1>16 DEF TeardownCancel
<1>17. CASE TeardownJoin
  BY <1>17 DEF TeardownJoin, StateAll, States
<1>18. CASE WatchDial
  BY <1>18 DEF WatchDial
<1>19. CASE StrayTakesWake
  BY <1>19 DEF StrayTakesWake
<1>20. CASE StrayExits
  BY <1>20 DEF StrayExits
<1>21. CASE ServeWake
  BY <1>21 DEF ServeWake
<1>22. CASE ServeSyncResult
  BY <1>22 DEF ServeSyncResult, LeaveIfIdle
<1>23. CASE ServeDone
  BY <1>23 DEF ServeDone
<1>24. CASE ServeConnectionLost
  BY <1>24 DEF ServeConnectionLost, StateAll, States
<1>25. CASE ServeUnexpected
  BY <1>25 DEF ServeUnexpected, StateAll, States, LeaveIfIdle
<1>26. ASSUME NEW overdue \in SUBSET pending, ServeAckTimeout(overdue) PROVE Flags'
  BY <1>26 DEF ServeAckTimeout, States
<1>27. CASE Dispatch
  <2>1. PICK ids \in SUBSET Identity : Acknowledge(ids) \/ Reject(ids) BY <1>27, DispatchCases
  <2>2. CASE Acknowledge(ids) BY <1>27, <2>2, DispatchCases DEF Acknowledge
  <2>3. CASE Reject(ids) BY <1>27, <2>3, DispatchCases DEF Reject
  <2> QED BY <2>1, <2>2, <2>3
<1>28. CASE SyncStart
  BY <1>28 DEF SyncStart
<1>29. CASE SyncActiveDone
  BY <1>29 DEF SyncActiveDone
<1>30. CASE SyncJoin
  BY <1>30 DEF SyncJoin, States
<1>31. CASE SyncWrite
  BY <1>31 DEF SyncWrite, EndWrite, RequestMethod
<1>32. CASE SyncSkip
  BY <1>32 DEF SyncSkip, EndWrite
<1>33. CASE SyncFails
  BY <1>33 DEF SyncFails, StateAll, States
<1>34. CASE SyncDone
  BY <1>34 DEF SyncDone
<1>35. ASSUME NEW i \in Identity, SyncVisitActive(i) PROVE Flags'
  BY <1>35 DEF SyncVisitActive, RegisterAdmission, Wire
<1>36. ASSUME NEW i \in Identity, SyncVisitWanted(i) PROVE Flags'
  BY <1>36 DEF SyncVisitWanted, RegisterAdmission, States
<1>37. ASSUME NEW kind \in {"ok"} \cup Replies, ServerReply(kind) PROVE Flags'
  BY <1>37 DEF ServerReply
<1>38. CASE UNCHANGED vars BY <1>38
<1> QED
  BY <1>1, <1>2, <1>3, <1>4, <1>5, <1>6, <1>7, <1>8, <1>9, <1>10, <1>11, <1>12, <1>13, <1>14,
     <1>15, <1>16, <1>17, <1>18, <1>19, <1>20, <1>21, <1>22, <1>23, <1>24, <1>25, <1>26, <1>27,
     <1>28, <1>29, <1>30, <1>31, <1>32, <1>33, <1>34, <1>35, <1>36, <1>37, <1>38
  DEF Next, Application, Run, Watcher, Serve, Sync, Exchange, Finished

\* Every step of the manager, the synchronizer and the exchange keeps the
\* types of the maps, queues and places.
LEMMA ShapesStep == ASSUME TypeOK, Passes, [Next]_vars PROVE Shapes'
<1> USE ManagerAssumption, Identities
    DEF clientVars, groupVars, serveVars, syncVars, netVars, vars, TypeOK, Shapes, Passes, Method, ReplyKind, NoAdmission
<1>1. ASSUME NEW h \in Handle, SubscribePublish(h) PROVE Shapes'
  BY <1>1 DEF SubscribePublish
<1>2. ASSUME NEW h \in Handle, CloseBegin(h) PROVE Shapes'
  BY <1>2 DEF CloseBegin
<1>3. ASSUME NEW h \in Handle, CloseRemove(h) PROVE Shapes'
  <2>1. /\ subs' = subs \ {h} /\ life' = [life EXCEPT ![h] = "ended"]
        /\ last' = [last EXCEPT ![h] = "unsubscribed"]
    BY <1>3 DEF CloseRemove
  <2> QED BY <1>3, <2>1 DEF CloseRemove
<1>4. CASE SubscribeAnnounce
  <2>1. publishing \in Handle BY <1>4 DEF SubscribeAnnounce
  <2> QED BY <1>4, <2>1, StatesType DEF SubscribeAnnounce
<1>5. CASE ClientCloseBegin
  BY <1>5 DEF ClientCloseBegin
<1>6. CASE ClientCloseCancel
  BY <1>6 DEF ClientCloseCancel
<1>7. CASE ClientCloseJoin
  BY <1>7 DEF ClientCloseJoin
<1>8. CASE StartDial
  BY <1>8 DEF StartDial, StateAll, States
<1>9. CASE Park
  BY <1>9 DEF Park
<1>10. CASE Unpark
  BY <1>10 DEF Unpark
<1>11. CASE Stop
  BY <1>11 DEF Stop
<1>12. CASE DialFails
  BY <1>12 DEF DialFails, StateAll, States, WatcherAfterDial
<1>13. CASE DialSucceeds
  BY <1>13 DEF DialSucceeds, StateAll, States, WatcherAfterDial
<1>14. CASE ReconnectWoken
  BY <1>14 DEF ReconnectWoken
<1>15. CASE ReconnectElapsed
  BY <1>15 DEF ReconnectElapsed
<1>16. CASE TeardownCancel
  BY <1>16 DEF TeardownCancel
<1>17. CASE TeardownJoin
  BY <1>17 DEF TeardownJoin, StateAll, States
<1>18. CASE WatchDial
  BY <1>18 DEF WatchDial
<1>19. CASE StrayTakesWake
  BY <1>19 DEF StrayTakesWake
<1>20. CASE StrayExits
  BY <1>20 DEF StrayExits
<1>21. CASE ServeWake
  BY <1>21 DEF ServeWake
<1>22. CASE ServeSyncResult
  BY <1>22 DEF ServeSyncResult, LeaveIfIdle
<1>23. CASE ServeDone
  BY <1>23 DEF ServeDone
<1>24. CASE ServeConnectionLost
  BY <1>24 DEF ServeConnectionLost, StateAll, States
<1>25. CASE ServeUnexpected
  BY <1>25 DEF ServeUnexpected, StateAll, States, LeaveIfIdle
<1>26. ASSUME NEW overdue \in SUBSET pending, ServeAckTimeout(overdue) PROVE Shapes'
  BY <1>26 DEF ServeAckTimeout, States
<1>27. CASE Dispatch
  <2>1. toClient' \in Seq([method : Method, id : Identity, kind : ReplyKind])
    <3>1. toClient # <<>> /\ toClient' = Tail(toClient) BY <1>27, DispatchCases
    <3> HIDE DEF Method, ReplyKind
    <3> QED BY <3>1, HeadTailProperties
  <2>2. ASSUME NEW ids \in SUBSET Identity, Acknowledge(ids) PROVE Shapes'
    BY <1>27, <2>1, <2>2, DispatchCases DEF Acknowledge, States
  <2>3. ASSUME NEW ids \in SUBSET Identity, Reject(ids) PROVE Shapes'
    <3>1. /\ subs' \subseteq subs /\ active' \subseteq active
          /\ life' \in [Handle -> {"fresh", "open", "closing", "ended"}]
          /\ last' \in [Handle -> {"none", "connecting", "connected", "subscribed",
                                   "reconnecting", "error", "unsubscribed"}]
          /\ members' \in [Identity -> SUBSET Handle] /\ acked' \in [Identity -> BOOLEAN]
      BY <2>3 DEF Reject
    <3> QED BY <1>27, <2>1, <3>1, DispatchCases
  <2> QED BY <1>27, <2>2, <2>3, DispatchCases
<1>28. CASE SyncStart
  BY <1>28 DEF SyncStart
<1>29. CASE SyncActiveDone
  BY <1>29 DEF SyncActiveDone
<1>30. CASE SyncJoin
  BY <1>30 DEF SyncJoin, States
<1>31. CASE SyncWrite
  <2>1. toServer' \in Seq([method : Method, id : Identity])
    <3>1. [method |-> RequestMethod(admission.want), id |-> sid] \in [method : Method, id : Identity]
      BY <1>31 DEF SyncWrite, RequestMethod
    <3>2. toServer' = Append(toServer, [method |-> RequestMethod(admission.want), id |-> sid])
      BY <1>31 DEF SyncWrite
    <3> HIDE DEF Method
    <3> QED BY <3>1, <3>2, AppendProperties
  <2>2. CASE admission.want
    <3>1. pending' = pending \cup {<<"subscribe", sid>>} /\ sid \in Identity BY <1>31, <2>2 DEF SyncWrite
    <3>2. pending' \subseteq Method \X Identity BY <3>1
    <3>3. /\ active' = active \cup {sid} /\ members' = [members EXCEPT ![sid] = OfIdentity(cur, sid)]
          /\ acked' = [acked EXCEPT ![sid] = FALSE]
          /\ sync' \in {"subscribe", "active"} /\ sid' = NoIdentity
          /\ UNCHANGED <<clientVars, mgr, watcher, cur, todo, toClient, server, faults>>
      BY <1>31, <2>2 DEF SyncWrite, EndWrite
    <3>4. members' \in [Identity -> SUBSET Handle] /\ acked' \in [Identity -> BOOLEAN] BY <3>3
    <3> QED BY <2>1, <3>1, <3>2, <3>3, <3>4
  <2>3. CASE ~admission.want BY <1>31, <2>1, <2>3 DEF SyncWrite, EndWrite
  <2> QED BY <2>2, <2>3
<1>32. CASE SyncSkip
  <2>1. sync' \in {"subscribe", "active"} /\ sid' = NoIdentity BY <1>32 DEF SyncSkip, EndWrite
  <2> QED BY <1>32, <2>1 DEF SyncSkip
<1>33. CASE SyncFails
  <2>1. last' \in {last, States(last, subs, "error")} BY <1>33 DEF SyncFails, StateAll
  <2>2. last' \in [Handle -> {"none", "connecting", "connected", "subscribed",
                             "reconnecting", "error", "unsubscribed"}]
    BY <2>1, StatesType
  <2>3. faults' \in 0..MaxFaults BY <1>33 DEF SyncFails
  <2> QED BY <1>33, <2>2, <2>3 DEF SyncFails
<1>34. CASE SyncDone
  BY <1>34 DEF SyncDone
<1>35. ASSUME NEW i \in Identity, SyncVisitActive(i) PROVE Shapes'
  <2>1. sync' \in {sync, "join", "write"} /\ sid' \in {sid, i} BY <1>35 DEF SyncVisitActive, RegisterAdmission
  <2> QED BY <1>35, <2>1 DEF SyncVisitActive
<1>36. ASSUME NEW i \in Identity, SyncVisitWanted(i) PROVE Shapes'
  <2>1. sync' \in {sync, "write"} /\ sid' \in {sid, i} BY <1>36 DEF SyncVisitWanted, RegisterAdmission
  <2>2. last' = last \/ last' = States(last, OfIdentity(cur, i), "connected") BY <1>36 DEF SyncVisitWanted
  <2>3. last' \in [Handle -> {"none", "connecting", "connected", "subscribed",
                             "reconnecting", "error", "unsubscribed"}]
    BY <2>2, StatesType
  <2> QED BY <1>36, <2>1, <2>3 DEF SyncVisitWanted
<1>37. ASSUME NEW kind \in {"ok"} \cup Replies, ServerReply(kind) PROVE Shapes'
  <2> DEFINE request == Head(toServer)
             reply == [method |-> request.method, id |-> request.id, kind |-> kind]
  <2>1. /\ request \in [method : Method, id : Identity]
        /\ toServer' \in Seq([method : Method, id : Identity])
    <3>1. toServer # <<>> /\ toServer' = Tail(toServer) BY <1>37 DEF ServerReply
    <3> HIDE DEF Method
    <3> QED BY <3>1, HeadTailProperties
  <2>2. reply \in [method : Method, id : Identity, kind : ReplyKind] BY <2>1
  <2>3. toClient' \in Seq([method : Method, id : Identity, kind : ReplyKind])
    <3>1. toClient' = Append(toClient, reply) BY <1>37 DEF ServerReply
    <3> HIDE DEF reply, Method, ReplyKind
    <3> QED BY <2>2, <3>1, AppendProperties
  <2>4. server' \subseteq Identity BY <1>37, <2>1 DEF ServerReply
  <2> QED BY <1>37, <2>1, <2>3, <2>4 DEF ServerReply
<1>38. CASE UNCHANGED vars BY <1>38
<1> QED
  BY <1>1, <1>2, <1>3, <1>4, <1>5, <1>6, <1>7, <1>8, <1>9, <1>10, <1>11, <1>12, <1>13, <1>14,
     <1>15, <1>16, <1>17, <1>18, <1>19, <1>20, <1>21, <1>22, <1>23, <1>24, <1>25, <1>26, <1>27,
     <1>28, <1>29, <1>30, <1>31, <1>32, <1>33, <1>34, <1>35, <1>36, <1>37, <1>38
  DEF Next, Application, Run, Watcher, Serve, Sync, Exchange, Finished

\* Every step keeps the type of the waiting write: it is replaced by the
\* loops of a pass and marked by registryChangedLocked.
LEMMA AdmissionStep == ASSUME TypeOK, [Next]_vars PROVE admission' \in Admissions
<1> USE NoAdmissionType, Identities DEF clientVars, groupVars, serveVars, syncVars, netVars, vars
<1>0. admission \in Admissions BY DEF TypeOK, Admissions
<1>1. ASSUME NEW h \in Handle, SubscribePublish(h) PROVE admission' \in Admissions
  BY <1>1, <1>0 DEF SubscribePublish
<1>2. ASSUME NEW h \in Handle, CloseBegin(h) PROVE admission' \in Admissions
  BY <1>2, <1>0 DEF CloseBegin
<1>3. ASSUME NEW h \in Handle, CloseRemove(h) PROVE admission' \in Admissions
  <2>1. CASE h \in subs BY <1>3, <1>0, <2>1, InvalidateKeeps DEF CloseRemove
  <2>2. CASE h \notin subs BY <1>3, <1>0, <2>2 DEF CloseRemove
  <2> QED BY <2>1, <2>2
<1>4. CASE SubscribeAnnounce
  BY <1>4, <1>0, InvalidateKeeps DEF SubscribeAnnounce
<1>5. CASE ClientCloseBegin
  BY <1>5, <1>0 DEF ClientCloseBegin
<1>6. CASE ClientCloseCancel
  BY <1>6, <1>0 DEF ClientCloseCancel
<1>7. CASE ClientCloseJoin
  BY <1>7, <1>0 DEF ClientCloseJoin
<1>8. CASE StartDial
  BY <1>8, <1>0 DEF StartDial
<1>9. CASE Park
  BY <1>9, <1>0 DEF Park
<1>10. CASE Unpark
  BY <1>10, <1>0 DEF Unpark
<1>11. CASE Stop
  BY <1>11, <1>0 DEF Stop
<1>12. CASE DialFails
  BY <1>12, <1>0 DEF DialFails
<1>13. CASE DialSucceeds
  BY <1>13, <1>0 DEF DialSucceeds
<1>14. CASE ReconnectWoken
  BY <1>14, <1>0 DEF ReconnectWoken
<1>15. CASE ReconnectElapsed
  BY <1>15, <1>0 DEF ReconnectElapsed
<1>16. CASE TeardownCancel
  BY <1>16, <1>0 DEF TeardownCancel
<1>17. CASE TeardownJoin
  BY <1>17, <1>0 DEF TeardownJoin
<1>18. CASE WatchDial
  BY <1>18, <1>0 DEF WatchDial
<1>19. CASE StrayTakesWake
  BY <1>19, <1>0 DEF StrayTakesWake
<1>20. CASE StrayExits
  BY <1>20, <1>0 DEF StrayExits
<1>21. CASE ServeWake
  BY <1>21, <1>0 DEF ServeWake
<1>22. CASE ServeSyncResult
  BY <1>22, <1>0 DEF ServeSyncResult
<1>23. CASE ServeDone
  BY <1>23, <1>0 DEF ServeDone
<1>24. CASE ServeConnectionLost
  BY <1>24, <1>0 DEF ServeConnectionLost
<1>25. CASE ServeUnexpected
  BY <1>25, <1>0 DEF ServeUnexpected
<1>26. ASSUME NEW overdue \in SUBSET pending, ServeAckTimeout(overdue) PROVE admission' \in Admissions
  BY <1>26, <1>0 DEF ServeAckTimeout
<1>27. CASE Dispatch
  <2>1. admission' = admission \/ admission' = [admission EXCEPT !.stale = TRUE]
    BY <1>27, DispatchCases DEF Acknowledge, Reject
  <2> QED BY <1>0, <2>1 DEF Admissions
<1>28. CASE SyncStart
  BY <1>28, <1>0 DEF SyncStart
<1>29. CASE SyncActiveDone
  BY <1>29, <1>0 DEF SyncActiveDone
<1>30. CASE SyncJoin
  BY <1>30, <1>0 DEF SyncJoin
<1>31. CASE SyncWrite
  BY <1>31, <1>0 DEF SyncWrite, EndWrite
<1>32. CASE SyncSkip
  BY <1>32, <1>0 DEF SyncSkip, EndWrite
<1>33. CASE SyncFails
  BY <1>33, <1>0 DEF SyncFails
<1>34. CASE SyncDone
  BY <1>34, <1>0 DEF SyncDone
<1>35. ASSUME NEW i \in Identity, SyncVisitActive(i) PROVE admission' \in Admissions
  <2>1. Canonical \in Wire BY DEF Wire
  <2> QED BY <1>35, <1>0, <2>1, RegisterType DEF SyncVisitActive
<1>36. ASSUME NEW i \in Identity, SyncVisitWanted(i) PROVE admission' \in Admissions
  <2>1. Fingerprint(OfIdentity(cur, i)) \in Wire BY FingerprintType DEF TypeOK
  <2> QED BY <1>36, <1>0, <2>1, RegisterType DEF SyncVisitWanted
<1>37. ASSUME NEW kind \in {"ok"} \cup Replies, ServerReply(kind) PROVE admission' \in Admissions
  BY <1>37, <1>0 DEF ServerReply
<1>38. CASE UNCHANGED vars BY <1>38, <1>0
<1> QED
  BY <1>1, <1>2, <1>3, <1>4, <1>5, <1>6, <1>7, <1>8, <1>9, <1>10, <1>11, <1>12, <1>13, <1>14,
     <1>15, <1>16, <1>17, <1>18, <1>19, <1>20, <1>21, <1>22, <1>23, <1>24, <1>25, <1>26, <1>27,
     <1>28, <1>29, <1>30, <1>31, <1>32, <1>33, <1>34, <1>35, <1>36, <1>37, <1>38
  DEF Next, Application, Run, Watcher, Serve, Sync, Exchange, Finished

\* Every step keeps the synchronizer's discipline.
LEMMA PassesStep == ASSUME TypeOK, Passes, [Next]_vars PROVE Passes'
<1> USE ManagerAssumption, Identities
    DEF clientVars, groupVars, serveVars, syncVars, netVars, vars, TypeOK, Passes, NoAdmission
<1>1. ASSUME NEW h \in Handle, SubscribePublish(h) PROVE Passes'
  BY <1>1 DEF SubscribePublish
<1>2. ASSUME NEW h \in Handle, CloseBegin(h) PROVE Passes'
  BY <1>2 DEF CloseBegin
<1>3. ASSUME NEW h \in Handle, CloseRemove(h) PROVE Passes'
  <2>1. admission'.want = admission.want
    <3>1. CASE h \in subs BY <1>3, <3>1, InvalidateKeeps DEF CloseRemove, Admissions
    <3>2. CASE h \notin subs BY <1>3, <3>2 DEF CloseRemove
    <3> QED BY <3>1, <3>2
  <2> QED BY <1>3, <2>1 DEF CloseRemove
<1>4. CASE SubscribeAnnounce
  <2>1. admission'.want = admission.want BY <1>4, InvalidateKeeps DEF SubscribeAnnounce, Admissions
  <2> QED BY <1>4, <2>1 DEF SubscribeAnnounce
<1>5. CASE ClientCloseBegin
  BY <1>5 DEF ClientCloseBegin
<1>6. CASE ClientCloseCancel
  BY <1>6 DEF ClientCloseCancel
<1>7. CASE ClientCloseJoin
  BY <1>7 DEF ClientCloseJoin
<1>8. CASE StartDial
  BY <1>8 DEF StartDial, StateAll, States
<1>9. CASE Park
  BY <1>9 DEF Park
<1>10. CASE Unpark
  BY <1>10 DEF Unpark
<1>11. CASE Stop
  BY <1>11 DEF Stop
<1>12. CASE DialFails
  BY <1>12 DEF DialFails, StateAll, States, WatcherAfterDial
<1>13. CASE DialSucceeds
  BY <1>13 DEF DialSucceeds, StateAll, States, WatcherAfterDial
<1>14. CASE ReconnectWoken
  BY <1>14 DEF ReconnectWoken
<1>15. CASE ReconnectElapsed
  BY <1>15 DEF ReconnectElapsed
<1>16. CASE TeardownCancel
  BY <1>16 DEF TeardownCancel
<1>17. CASE TeardownJoin
  BY <1>17 DEF TeardownJoin, StateAll, States
<1>18. CASE WatchDial
  BY <1>18 DEF WatchDial
<1>19. CASE StrayTakesWake
  BY <1>19 DEF StrayTakesWake
<1>20. CASE StrayExits
  BY <1>20 DEF StrayExits
<1>21. CASE ServeWake
  BY <1>21 DEF ServeWake
<1>22. CASE ServeSyncResult
  BY <1>22 DEF ServeSyncResult, LeaveIfIdle
<1>23. CASE ServeDone
  BY <1>23 DEF ServeDone
<1>24. CASE ServeConnectionLost
  BY <1>24 DEF ServeConnectionLost, StateAll, States
<1>25. CASE ServeUnexpected
  BY <1>25 DEF ServeUnexpected, StateAll, States, LeaveIfIdle
<1>26. ASSUME NEW overdue \in SUBSET pending, ServeAckTimeout(overdue) PROVE Passes'
  BY <1>26 DEF ServeAckTimeout, States
<1>27. CASE Dispatch
  <2>1. active' \subseteq active BY <1>27, DispatchCases DEF Acknowledge, Reject
  <2>2. admission' = admission \/ admission' = [admission EXCEPT !.stale = TRUE]
    BY <1>27, DispatchCases DEF Acknowledge, Reject
  <2>3. admission'.want = admission.want BY <2>2
  <2> QED BY <1>27, <2>1, <2>3, DispatchCases
<1>28. CASE SyncStart
  BY <1>28 DEF SyncStart
<1>29. CASE SyncActiveDone
  BY <1>29 DEF SyncActiveDone
<1>30. CASE SyncJoin
  BY <1>30 DEF SyncJoin, States
<1>31. CASE SyncWrite
  BY <1>31 DEF SyncWrite, EndWrite, RequestMethod
<1>32. CASE SyncSkip
  BY <1>32 DEF SyncSkip, EndWrite
<1>33. CASE SyncFails
  BY <1>33 DEF SyncFails, StateAll, States
<1>34. CASE SyncDone
  BY <1>34 DEF SyncDone
<1>35. ASSUME NEW i \in Identity, SyncVisitActive(i) PROVE Passes'
  <2>1. CASE sync' # "write" BY <1>35, <2>1 DEF SyncVisitActive, RegisterAdmission
  <2>2. CASE sync' = "write"
    <3>1. RegisterAdmission(i, FALSE, Canonical) BY <1>35, <2>2 DEF SyncVisitActive
    <3>2. ~admission'.want BY <3>1 DEF RegisterAdmission
    <3> QED BY <1>35, <3>1, <3>2 DEF SyncVisitActive, RegisterAdmission
  <2> QED BY <2>1, <2>2
<1>36. ASSUME NEW i \in Identity, SyncVisitWanted(i) PROVE Passes'
  BY <1>36 DEF SyncVisitWanted, RegisterAdmission, States
<1>37. ASSUME NEW kind \in {"ok"} \cup Replies, ServerReply(kind) PROVE Passes'
  BY <1>37 DEF ServerReply
<1>38. CASE UNCHANGED vars BY <1>38
<1> QED
  BY <1>1, <1>2, <1>3, <1>4, <1>5, <1>6, <1>7, <1>8, <1>9, <1>10, <1>11, <1>12, <1>13, <1>14,
     <1>15, <1>16, <1>17, <1>18, <1>19, <1>20, <1>21, <1>22, <1>23, <1>24, <1>25, <1>26, <1>27,
     <1>28, <1>29, <1>30, <1>31, <1>32, <1>33, <1>34, <1>35, <1>36, <1>37, <1>38
  DEF Next, Application, Run, Watcher, Serve, Sync, Exchange, Finished

\* The types hold, and the synchronizer keeps its discipline.
LEMMA Typed == Spec => [](TypeOK /\ Passes)
<1>1. Init => TypeOK /\ Passes
  <2> SUFFICES ASSUME Init PROVE TypeOK /\ Passes OBVIOUS
  <2>1. Flags BY DEF Init, Flags
  <2>2. Shapes BY ManagerAssumption DEF Init, Shapes
  <2>3. admission \in Admissions BY NoAdmissionType DEF Init
  <2>4. Passes BY DEF Init, Passes
  <2> QED BY <2>1, <2>2, <2>3, <2>4 DEF TypeOK, Flags, Shapes, Admissions
<1>2. ASSUME TypeOK, Passes, [Next]_vars PROVE TypeOK' /\ Passes'
  BY <1>2, FlagsStep, ShapesStep, AdmissionStep, PassesStep DEF TypeOK, Flags, Shapes, Admissions
<1> QED BY <1>1, <1>2, PTL DEF Spec

\* Every variable of the manager, the handles and the socket keeps its type.
THEOREM TypeCorrect == Spec => []TypeOK
BY Typed, PTL

\* The waiting write asks for what it asked before.
SameWrite == sync = "write" /\ sid' = sid /\ admission'.want = admission.want

\* Who may change what: the registry and the lives of the handles belong to
\* registration, close and rejections; the groups to the synchronizer and the
\* frames; the wire to writes, answers and frames; and only the two loops of
\* a pass start to wait for a write.
LEMMA WhoChanges ==
    ASSUME TypeOK, [Next]_vars
    PROVE  /\ \/ UNCHANGED <<subs, life>> \/ Dispatch
              \/ \E h \in Handle : SubscribePublish(h) \/ CloseBegin(h) \/ CloseRemove(h)
           /\ UNCHANGED members \/ SyncJoin \/ SyncWrite \/ Dispatch \/ TeardownJoin
           /\ \/ UNCHANGED <<toServer, toClient, server, active>> /\ pending' \subseteq pending
              \/ SyncWrite \/ Dispatch \/ TeardownJoin
              \/ \E kind \in {"ok"} \cup Replies : ServerReply(kind)
           /\ \/ sync' # "write" \/ SameWrite
              \/ \E i \in Identity : SyncVisitActive(i) \/ SyncVisitWanted(i)
<1> DEFINE Goal == /\ \/ UNCHANGED <<subs, life>> \/ Dispatch
                      \/ \E h \in Handle : SubscribePublish(h) \/ CloseBegin(h) \/ CloseRemove(h)
                   /\ UNCHANGED members \/ SyncJoin \/ SyncWrite \/ Dispatch \/ TeardownJoin
                   /\ \/ UNCHANGED <<toServer, toClient, server, active>> /\ pending' \subseteq pending
                      \/ SyncWrite \/ Dispatch \/ TeardownJoin
                      \/ \E kind \in {"ok"} \cup Replies : ServerReply(kind)
                   /\ \/ sync' # "write" \/ SameWrite
                      \/ \E i \in Identity : SyncVisitActive(i) \/ SyncVisitWanted(i)
<1> SUFFICES Goal OBVIOUS
<1> USE DEF clientVars, groupVars, serveVars, syncVars, netVars, vars
<1>0. admission \in Admissions BY DEF TypeOK, Admissions
<1>1. ASSUME NEW h \in Handle, SubscribePublish(h) PROVE Goal
  BY <1>1 DEF SubscribePublish, SameWrite
<1>2. ASSUME NEW h \in Handle, CloseBegin(h) PROVE Goal
  BY <1>2 DEF CloseBegin, SameWrite
<1>3. ASSUME NEW h \in Handle, CloseRemove(h) PROVE Goal
  <2>1. UNCHANGED <<sync, sid>> /\ admission'.want = admission.want
    BY <1>3, <1>0, InvalidateKeeps DEF CloseRemove
  <2> QED BY <1>3, <2>1 DEF CloseRemove, SameWrite
<1>4. CASE SubscribeAnnounce
  <2>1. UNCHANGED <<sync, sid>> /\ admission'.want = admission.want
    BY <1>4, <1>0, InvalidateKeeps DEF SubscribeAnnounce
  <2> QED BY <1>4, <2>1 DEF SubscribeAnnounce, SameWrite
<1>5. CASE ClientCloseBegin
  BY <1>5 DEF ClientCloseBegin, SameWrite
<1>6. CASE ClientCloseCancel
  BY <1>6 DEF ClientCloseCancel, SameWrite
<1>7. CASE ClientCloseJoin
  BY <1>7 DEF ClientCloseJoin, SameWrite
<1>8. CASE StartDial
  BY <1>8 DEF StartDial, SameWrite
<1>9. CASE Park
  BY <1>9 DEF Park, SameWrite
<1>10. CASE Unpark
  BY <1>10 DEF Unpark, SameWrite
<1>11. CASE Stop
  BY <1>11 DEF Stop, SameWrite
<1>12. CASE DialFails
  BY <1>12 DEF DialFails, SameWrite
<1>13. CASE DialSucceeds
  BY <1>13 DEF DialSucceeds, SameWrite
<1>14. CASE ReconnectWoken
  BY <1>14 DEF ReconnectWoken, SameWrite
<1>15. CASE ReconnectElapsed
  BY <1>15 DEF ReconnectElapsed, SameWrite
<1>16. CASE TeardownCancel
  BY <1>16 DEF TeardownCancel, SameWrite
<1>17. CASE TeardownJoin
  BY <1>17 DEF TeardownJoin, SameWrite
<1>18. CASE WatchDial
  BY <1>18 DEF WatchDial, SameWrite
<1>19. CASE StrayTakesWake
  BY <1>19 DEF StrayTakesWake, SameWrite
<1>20. CASE StrayExits
  BY <1>20 DEF StrayExits, SameWrite
<1>21. CASE ServeWake
  BY <1>21 DEF ServeWake, SameWrite
<1>22. CASE ServeSyncResult
  BY <1>22 DEF ServeSyncResult, SameWrite
<1>23. CASE ServeDone
  BY <1>23 DEF ServeDone, SameWrite
<1>24. CASE ServeConnectionLost
  BY <1>24 DEF ServeConnectionLost, SameWrite
<1>25. CASE ServeUnexpected
  BY <1>25 DEF ServeUnexpected, SameWrite
<1>26. ASSUME NEW overdue \in SUBSET pending, ServeAckTimeout(overdue) PROVE Goal
  BY <1>26 DEF ServeAckTimeout, SameWrite
<1>27. CASE Dispatch
  <2>1. sync' = "write" => SameWrite
    <3>1. UNCHANGED <<sync, sid>> BY <1>27, DispatchCases
    <3>2. admission' = admission \/ admission' = [admission EXCEPT !.stale = TRUE]
      BY <1>27, DispatchCases DEF Acknowledge, Reject
    <3> QED BY <1>0, <3>1, <3>2 DEF SameWrite, Admissions
  <2> QED BY <1>27, <2>1
<1>28. CASE SyncStart
  BY <1>28 DEF SyncStart, SameWrite
<1>29. CASE SyncActiveDone
  BY <1>29 DEF SyncActiveDone, SameWrite
<1>30. CASE SyncJoin
  BY <1>30 DEF SyncJoin, SameWrite
<1>31. CASE SyncWrite
  BY <1>31 DEF SyncWrite, EndWrite
<1>32. CASE SyncSkip
  BY <1>32 DEF SyncSkip, EndWrite, SameWrite
<1>33. CASE SyncFails
  BY <1>33 DEF SyncFails, SameWrite
<1>34. CASE SyncDone
  BY <1>34 DEF SyncDone, SameWrite
<1>35. ASSUME NEW i \in Identity, SyncVisitActive(i) PROVE Goal
  <2>1. UNCHANGED <<subs, life, members, toServer, toClient, server, active, pending>>
    BY <1>35 DEF SyncVisitActive
  <2> QED BY <1>35, <2>1
<1>36. ASSUME NEW i \in Identity, SyncVisitWanted(i) PROVE Goal
  <2>1. UNCHANGED <<subs, life, members, toServer, toClient, server, active, pending>>
    BY <1>36 DEF SyncVisitWanted
  <2> QED BY <1>36, <2>1
<1>37. ASSUME NEW kind \in {"ok"} \cup Replies, ServerReply(kind) PROVE Goal
  BY <1>37 DEF ServerReply, SameWrite
<1>38. CASE UNCHANGED vars BY <1>38, <1>0 DEF SameWrite
<1> QED
  BY <1>1, <1>2, <1>3, <1>4, <1>5, <1>6, <1>7, <1>8, <1>9, <1>10, <1>11, <1>12, <1>13, <1>14,
     <1>15, <1>16, <1>17, <1>18, <1>19, <1>20, <1>21, <1>22, <1>23, <1>24, <1>25, <1>26, <1>27,
     <1>28, <1>29, <1>30, <1>31, <1>32, <1>33, <1>34, <1>35, <1>36, <1>37, <1>38
  DEF Next, Application, Run, Watcher, Serve, Sync, Exchange, Finished

---------------------------------------------------------------------------
(* Life and end of handles and generations.                                *)

\* Outside a generation there is no synchronizer, group, request or socket,
\* and the watcher of a dial watches only while the dial lasts.
Generations ==
    /\ mgr \notin {"serving", "teardown", "joining"} =>
         /\ sync = "none" /\ ~up
         /\ active = {} /\ pending = {} /\ toServer = <<>> /\ toClient = <<>> /\ server = {}
    /\ mgr = "joining" => ~up
    /\ watcher = "watching" => mgr = "dialing"

\* Generations begin with a successful dial and end with the teardown's join.
LEMMA GenerationsStep ==
    ASSUME TypeOK, Passes, Generations, [Next]_vars PROVE Generations'
<1> USE DEF clientVars, groupVars, serveVars, syncVars, netVars, vars, TypeOK, Generations
<1>1. ASSUME NEW h \in Handle, SubscribePublish(h) PROVE Generations'
  BY <1>1 DEF SubscribePublish
<1>2. ASSUME NEW h \in Handle, CloseBegin(h) PROVE Generations'
  BY <1>2 DEF CloseBegin
<1>3. ASSUME NEW h \in Handle, CloseRemove(h) PROVE Generations'
  <2>1. UNCHANGED <<mgr, watcher, sync, up, active, pending, toServer, toClient, server>>
    BY <1>3 DEF CloseRemove
  <2> QED BY <2>1
<1>4. CASE SubscribeAnnounce
  <2>1. UNCHANGED <<mgr, watcher, sync, up, active, pending, toServer, toClient, server>>
    BY <1>4 DEF SubscribeAnnounce
  <2> QED BY <2>1
<1>5. CASE ClientCloseBegin
  BY <1>5 DEF ClientCloseBegin
<1>6. CASE ClientCloseCancel
  BY <1>6 DEF ClientCloseCancel
<1>7. CASE ClientCloseJoin
  BY <1>7 DEF ClientCloseJoin
<1>8. CASE StartDial
  BY <1>8 DEF StartDial
<1>9. CASE Park
  BY <1>9 DEF Park
<1>10. CASE Unpark
  BY <1>10 DEF Unpark
<1>11. CASE Stop
  BY <1>11 DEF Stop
<1>12. CASE DialFails
  BY <1>12 DEF DialFails, WatcherAfterDial
<1>13. CASE DialSucceeds
  BY <1>13 DEF DialSucceeds, WatcherAfterDial
<1>14. CASE ReconnectWoken
  BY <1>14 DEF ReconnectWoken
<1>15. CASE ReconnectElapsed
  BY <1>15 DEF ReconnectElapsed
<1>16. CASE TeardownCancel
  BY <1>16 DEF TeardownCancel
<1>17. CASE TeardownJoin
  BY <1>17 DEF TeardownJoin
<1>18. CASE WatchDial
  BY <1>18 DEF WatchDial
<1>19. CASE StrayTakesWake
  BY <1>19 DEF StrayTakesWake
<1>20. CASE StrayExits
  BY <1>20 DEF StrayExits
<1>21. CASE ServeWake
  BY <1>21 DEF ServeWake
<1>22. CASE ServeSyncResult
  BY <1>22 DEF ServeSyncResult, LeaveIfIdle
<1>23. CASE ServeDone
  BY <1>23 DEF ServeDone
<1>24. CASE ServeConnectionLost
  BY <1>24 DEF ServeConnectionLost
<1>25. CASE ServeUnexpected
  BY <1>25 DEF ServeUnexpected, LeaveIfIdle
<1>26. ASSUME NEW overdue \in SUBSET pending, ServeAckTimeout(overdue) PROVE Generations'
  BY <1>26 DEF ServeAckTimeout
<1>27. CASE Dispatch
  <2>1. mgr = "serving" /\ mgr' \in {"serving", "teardown"} /\ watcher' = watcher BY <1>27, DispatchCases
  <2> QED BY <2>1
<1>28. CASE SyncStart
  BY <1>28 DEF SyncStart
<1>29. CASE SyncActiveDone
  BY <1>29 DEF SyncActiveDone
<1>30. CASE SyncJoin
  BY <1>30 DEF SyncJoin
<1>31. CASE SyncWrite
  BY <1>31 DEF SyncWrite
<1>32. CASE SyncSkip
  BY <1>32 DEF SyncSkip, EndWrite
<1>33. CASE SyncFails
  BY <1>33 DEF SyncFails
<1>34. CASE SyncDone
  BY <1>34 DEF SyncDone
<1>35. ASSUME NEW i \in Identity, SyncVisitActive(i) PROVE Generations'
  BY <1>35 DEF SyncVisitActive, RegisterAdmission
<1>36. ASSUME NEW i \in Identity, SyncVisitWanted(i) PROVE Generations'
  BY <1>36 DEF SyncVisitWanted, RegisterAdmission
<1>37. ASSUME NEW kind \in {"ok"} \cup Replies, ServerReply(kind) PROVE Generations'
  BY <1>37 DEF ServerReply
<1>38. CASE UNCHANGED vars BY <1>38
<1> QED
  BY <1>1, <1>2, <1>3, <1>4, <1>5, <1>6, <1>7, <1>8, <1>9, <1>10, <1>11, <1>12, <1>13, <1>14,
     <1>15, <1>16, <1>17, <1>18, <1>19, <1>20, <1>21, <1>22, <1>23, <1>24, <1>25, <1>26, <1>27,
     <1>28, <1>29, <1>30, <1>31, <1>32, <1>33, <1>34, <1>35, <1>36, <1>37, <1>38
  DEF Next, Application, Run, Watcher, Serve, Sync, Exchange, Finished

\* The members of a wire group have its identity.
Grouped == \A i \in Identity : \A h \in members[i] : IdentityOf[h] = i

\* A rejection takes out of the registry and ends exactly the handles of the
\* rejected identities, so that the registry keeps the handles still in use.
LEMMA RejectEnds ==
    ASSUME TypeOK, Grouped, NoZombieHandle, NEW ids \in SUBSET Identity, Reject(ids)
    PROVE  /\ subs' = {h \in subs : IdentityOf[h] \notin ids}
           /\ \A h \in Handle : IF life[h] = "open" /\ IdentityOf[h] \in ids
                                  THEN life'[h] = "ended" /\ last'[h] = "error"
                                  ELSE life'[h] = life[h] /\ last'[h] = last[h]
           /\ wake' = (wake \/ Detached(ids) # {})
<1> DEFINE victims == {h \in Terminated(ids) : life[h] = "open"}
<1>1. Detached(ids) = {h \in subs : IdentityOf[h] \in ids} BY DEF Detached
<1>2. \A h \in Handle : h \in victims <=> life[h] = "open" /\ IdentityOf[h] \in ids
  <2> SUFFICES ASSUME NEW h \in Handle PROVE h \in victims <=> life[h] = "open" /\ IdentityOf[h] \in ids
    OBVIOUS
  <2>1. CASE h \in victims
    <3>1. life[h] = "open" /\ h \in Terminated(ids) BY <2>1
    <3>2. CASE h \in Detached(ids) BY <1>1, <3>1, <3>2
    <3>3. CASE \E i \in ids : h \in members[i]
      <4>1. PICK i \in ids : h \in members[i] BY <3>3
      <4> QED BY <3>1, <4>1 DEF Grouped
    <3> QED BY <3>1, <3>2, <3>3 DEF Terminated
  <2>2. CASE life[h] = "open" /\ IdentityOf[h] \in ids
    <3>1. h \in Detached(ids) BY <1>1, <2>2 DEF NoZombieHandle
    <3> QED BY <2>2, <3>1 DEF Terminated
  <2> QED BY <2>1, <2>2
<1>3. /\ subs' = subs \ Detached(ids)
      /\ life' = [h \in Handle |-> IF h \in victims THEN "ended" ELSE life[h]]
      /\ last' = [h \in Handle |-> IF h \in victims THEN "error" ELSE last[h]]
      /\ wake' = (wake \/ Detached(ids) # {} \/ victims # {})
  BY DEF Reject
<1>4. victims # {} => Detached(ids) # {}
  <2> SUFFICES ASSUME NEW h \in victims PROVE Detached(ids) # {} OBVIOUS
  <2>1. h \in Handle BY DEF Terminated, Detached, TypeOK
  <2>2. h \in subs /\ IdentityOf[h] \in ids BY <1>2, <2>1 DEF NoZombieHandle
  <2> QED BY <1>1, <2>2
<1> HIDE DEF victims
<1> QED BY <1>1, <1>2, <1>3, <1>4

\* Every step keeps the groups together.
LEMMA GroupedStep == ASSUME TypeOK, Passes, Grouped, [Next]_vars PROVE Grouped'
<1> USE DEF clientVars, groupVars, serveVars, syncVars, netVars, vars, TypeOK, Grouped, OfIdentity
<1>1. CASE SyncJoin
  <2>1. members' = members \/ members' = [members EXCEPT ![sid] = {h \in cur : IdentityOf[h] = sid}]
    BY <1>1 DEF SyncJoin
  <2> QED BY <2>1
<1>2. CASE SyncWrite
  <2>1. \/ members' = [members EXCEPT ![sid] = {h \in cur : IdentityOf[h] = sid}]
        \/ members' = [members EXCEPT ![sid] = {}]
    BY <1>2 DEF SyncWrite
  <2>2. \A i \in Identity : \/ members'[i] = members[i] \/ members'[i] = {}
                            \/ members'[i] = {h \in cur : IdentityOf[h] = i}
    BY <2>1
  <2> QED BY <2>2
<1>3. CASE Dispatch
  <2>1. members' = members \/ \E ids : members' = [i \in Identity |-> IF i \in ids THEN {} ELSE members[i]]
    <3>1. PICK ids \in SUBSET Identity : Acknowledge(ids) \/ Reject(ids) BY <1>3, DispatchCases
    <3>2. CASE Acknowledge(ids) BY <3>2 DEF Acknowledge
    <3>3. CASE Reject(ids) BY <3>3 DEF Reject
    <3> QED BY <3>1, <3>2, <3>3
  <2>2. \A i \in Identity : members'[i] = members[i] \/ members'[i] = {} BY <2>1
  <2> QED BY <2>2
<1>4. CASE TeardownJoin
  BY <1>4 DEF TeardownJoin
<1>5. CASE UNCHANGED members BY <1>5
<1> QED BY <1>1, <1>2, <1>3, <1>4, <1>5, WhoChanges

\* Every step keeps the registry and the lives of the handles together.
LEMMA NoZombieStep ==
    ASSUME TypeOK, Grouped, NoZombieHandle, [Next]_vars PROVE NoZombieHandle'
<1> USE DEF clientVars, groupVars, serveVars, syncVars, netVars, vars, TypeOK, NoZombieHandle
<1>1. ASSUME NEW h \in Handle, SubscribePublish(h) PROVE NoZombieHandle'
  BY <1>1 DEF SubscribePublish
<1>2. ASSUME NEW h \in Handle, CloseBegin(h) PROVE NoZombieHandle'
  BY <1>2 DEF CloseBegin
<1>3. ASSUME NEW h \in Handle, CloseRemove(h) PROVE NoZombieHandle'
  BY <1>3 DEF CloseRemove
<1>4. CASE Dispatch
  <2>1. CASE \E ids \in SUBSET Identity : Acknowledge(ids)
    BY <1>4, <2>1, DispatchCases DEF Acknowledge
  <2>2. ASSUME NEW ids \in SUBSET Identity, Reject(ids) PROVE NoZombieHandle'
    <3>1. /\ subs' = {h \in subs : IdentityOf[h] \notin ids}
          /\ \A h \in Handle : life'[h] = (IF life[h] = "open" /\ IdentityOf[h] \in ids THEN "ended" ELSE life[h])
      BY <2>2, RejectEnds
    <3> QED BY <3>1
  <2> QED BY <1>4, <2>1, <2>2, DispatchCases
<1>5. CASE UNCHANGED <<subs, life>> BY <1>5
<1> QED BY <1>1, <1>2, <1>3, <1>4, <1>5, WhoChanges

\* A registration is finished while its handle is registered and in use; a
\* closing client registers nothing more; a closed one has joined the manager
\* and ended every handle it found.
Closing ==
    /\ publishing # NoHandle => publishing \in subs /\ life[publishing] = "open"
    /\ Done => subs \subseteq closeSet
    /\ client = "closed" => mgr = "stopped" /\ \A h \in closeSet : life[h] = "ended"

\* Every step of a close, and every step that races with it, keeps that.
LEMMA ClosingStep ==
    ASSUME TypeOK, Grouped, NoZombieHandle, Closing, [Next]_vars PROVE Closing'
<1> USE ManagerAssumption DEF clientVars, groupVars, serveVars, syncVars, netVars, vars, TypeOK, Closing, Done, CommitFree
<1>1. ASSUME NEW h \in Handle, SubscribePublish(h) PROVE Closing'
  BY <1>1 DEF SubscribePublish
<1>2. ASSUME NEW h \in Handle, CloseBegin(h) PROVE Closing'
  BY <1>2 DEF CloseBegin
<1>3. ASSUME NEW h \in Handle, CloseRemove(h) PROVE Closing'
  BY <1>3 DEF CloseRemove
<1>4. CASE SubscribeAnnounce
  BY <1>4 DEF SubscribeAnnounce
<1>5. CASE ClientCloseBegin
  BY <1>5 DEF ClientCloseBegin
<1>6. CASE ClientCloseCancel
  BY <1>6 DEF ClientCloseCancel
<1>7. CASE ClientCloseJoin
  BY <1>7 DEF ClientCloseJoin
<1>8. CASE StartDial
  BY <1>8 DEF StartDial
<1>9. CASE Park
  BY <1>9 DEF Park
<1>10. CASE Unpark
  BY <1>10 DEF Unpark
<1>11. CASE Stop
  BY <1>11 DEF Stop
<1>12. CASE DialFails
  BY <1>12 DEF DialFails
<1>13. CASE DialSucceeds
  BY <1>13 DEF DialSucceeds
<1>14. CASE ReconnectWoken
  BY <1>14 DEF ReconnectWoken
<1>15. CASE ReconnectElapsed
  BY <1>15 DEF ReconnectElapsed
<1>16. CASE TeardownCancel
  BY <1>16 DEF TeardownCancel
<1>17. CASE TeardownJoin
  BY <1>17 DEF TeardownJoin
<1>18. CASE WatchDial
  BY <1>18 DEF WatchDial
<1>19. CASE StrayTakesWake
  BY <1>19 DEF StrayTakesWake
<1>20. CASE StrayExits
  BY <1>20 DEF StrayExits
<1>21. CASE ServeWake
  BY <1>21 DEF ServeWake
<1>22. CASE ServeSyncResult
  <2>1. mgr = "serving" /\ UNCHANGED clientVars BY <1>22 DEF ServeSyncResult
  <2> QED BY <2>1
<1>23. CASE ServeDone
  BY <1>23 DEF ServeDone
<1>24. CASE ServeConnectionLost
  BY <1>24 DEF ServeConnectionLost
<1>25. CASE ServeUnexpected
  <2>1. mgr = "serving" /\ UNCHANGED <<subs, life, publishing, client, closeSet>> BY <1>25 DEF ServeUnexpected
  <2> QED BY <2>1
<1>26. ASSUME NEW overdue \in SUBSET pending, ServeAckTimeout(overdue) PROVE Closing'
  BY <1>26 DEF ServeAckTimeout
<1>27. CASE Dispatch
  <2>1. CASE \E ids \in SUBSET Identity : Acknowledge(ids)
    BY <1>27, <2>1, DispatchCases DEF Acknowledge
  <2>2. ASSUME NEW ids \in SUBSET Identity, ids # {} => CommitFree, Reject(ids) PROVE Closing'
    <3>1. CASE ids = {}
      <4>1. /\ subs' = {h \in subs : IdentityOf[h] \notin ids}
            /\ \A h \in Handle : IdentityOf[h] \notin ids => life'[h] = life[h]
        BY <2>2, RejectEnds
      <4>2. subs' = subs /\ \A h \in Handle : life'[h] = life[h] BY <3>1, <4>1
      <4> QED BY <1>27, <4>2, DispatchCases
    <3>2. CASE publishing = NoHandle BY <1>27, <2>2, <3>2, DispatchCases, RejectEnds
    <3> QED BY <2>2, <3>1, <3>2
  <2> QED BY <1>27, <2>1, <2>2, DispatchCases
<1>28. CASE SyncStart
  BY <1>28 DEF SyncStart
<1>29. CASE SyncActiveDone
  BY <1>29 DEF SyncActiveDone
<1>30. CASE SyncJoin
  BY <1>30 DEF SyncJoin
<1>31. CASE SyncWrite
  BY <1>31 DEF SyncWrite
<1>32. CASE SyncSkip
  BY <1>32 DEF SyncSkip
<1>33. CASE SyncFails
  BY <1>33 DEF SyncFails
<1>34. CASE SyncDone
  BY <1>34 DEF SyncDone
<1>35. ASSUME NEW i \in Identity, SyncVisitActive(i) PROVE Closing'
  BY <1>35 DEF SyncVisitActive
<1>36. ASSUME NEW i \in Identity, SyncVisitWanted(i) PROVE Closing'
  BY <1>36 DEF SyncVisitWanted
<1>37. ASSUME NEW kind \in {"ok"} \cup Replies, ServerReply(kind) PROVE Closing'
  BY <1>37 DEF ServerReply
<1>38. CASE UNCHANGED vars BY <1>38
<1> QED
  BY <1>1, <1>2, <1>3, <1>4, <1>5, <1>6, <1>7, <1>8, <1>9, <1>10, <1>11, <1>12, <1>13, <1>14,
     <1>15, <1>16, <1>17, <1>18, <1>19, <1>20, <1>21, <1>22, <1>23, <1>24, <1>25, <1>26, <1>27,
     <1>28, <1>29, <1>30, <1>31, <1>32, <1>33, <1>34, <1>35, <1>36, <1>37, <1>38
  DEF Next, Application, Run, Watcher, Serve, Sync, Exchange, Finished

\* The four invariants about the lives of connections and handles, together.
Lives == Generations /\ Grouped /\ NoZombieHandle /\ Closing

\* In every behaviour of the manager, its connections and handles included.
LEMMA LivesHold == Spec => [](TypeOK /\ Passes /\ Lives)
<1>1. Init => Lives
  BY ManagerAssumption DEF Init, Lives, Generations, Grouped, NoZombieHandle, Closing, Done
<1>2. TypeOK /\ Passes /\ Lives /\ [Next]_vars => Lives'
  BY GenerationsStep, GroupedStep, NoZombieStep, ClosingStep DEF Lives
<1> QED BY <1>1, <1>2, Typed, PTL DEF Spec

\* Whatever rejections, closes and registrations race, a handle in use is
\* registered and a registered one has not ended.
THEOREM NoZombies == Spec => []NoZombieHandle
BY LivesHold, PTL DEF Lives

\* When Client.Close returns, nothing of the client is left.
THEOREM CloseIsComplete == Spec => []NothingSurvivesClose
<1>1. TypeOK /\ Lives => NothingSurvivesClose
  BY DEF TypeOK, Lives, Generations, NoZombieHandle, Closing, NothingSurvivesClose, Done
<1> QED BY <1>1, LivesHold, PTL

---------------------------------------------------------------------------
(* What the handles are told.                                              *)

\* A subscribed handle in use has a group acknowledged on this connection.
\* What a joining group was read as is still so, or a rejection has ended
\* every handle of the group since.
Told ==
    /\ \A h \in subs : (life[h] = "open" /\ last[h] = "subscribed") =>
         IdentityOf[h] \in active /\ acked[IdentityOf[h]]
    /\ \A h \in Handle : life[h] = "fresh" => last[h] # "subscribed" /\ h \notin cur
    /\ (sync = "join" /\ sawAcked) =>
         \/ sid \in active /\ acked[sid]
         \/ \A h \in cur : IdentityOf[h] = sid => life[h] # "open"

\* Every step tells the handles the truth.
LEMMA ToldStep ==
    ASSUME TypeOK, Passes, Lives, Told, [Next]_vars PROVE Told'
<1> USE DEF clientVars, groupVars, serveVars, syncVars, netVars, vars, TypeOK, Told
<1>1. ASSUME NEW h \in Handle, SubscribePublish(h) PROVE Told'
  BY <1>1, Identities DEF SubscribePublish
<1>2. ASSUME NEW h \in Handle, CloseBegin(h) PROVE Told'
  BY <1>2 DEF CloseBegin
<1>3. ASSUME NEW h \in Handle, CloseRemove(h) PROVE Told'
  <2>1. /\ subs' = subs \ {h} /\ life' = [life EXCEPT ![h] = "ended"] /\ last' = [last EXCEPT ![h] = "unsubscribed"]
        /\ UNCHANGED <<active, acked, sync, cur, sid, sawAcked>>
    BY <1>3 DEF CloseRemove
  <2> QED BY <2>1
<1>4. CASE SubscribeAnnounce
  <2>1. \A h \in Handle : last'[h] = "subscribed" => last[h] = "subscribed" BY <1>4 DEF SubscribeAnnounce, States
  <2>2. UNCHANGED <<subs, life, active, acked, sync, cur, sid, sawAcked>> BY <1>4 DEF SubscribeAnnounce
  <2> QED BY <2>1, <2>2
<1>5. CASE ClientCloseBegin
  BY <1>5 DEF ClientCloseBegin
<1>6. CASE ClientCloseCancel
  BY <1>6 DEF ClientCloseCancel
<1>7. CASE ClientCloseJoin
  BY <1>7 DEF ClientCloseJoin
<1>8. CASE StartDial
  <2>1. \A h \in Handle : last'[h] = "subscribed" => last[h] = "subscribed" BY <1>8 DEF StartDial, StateAll, States
  <2>2. UNCHANGED <<subs, life, active, acked, sync, cur, sid, sawAcked>> BY <1>8 DEF StartDial
  <2> QED BY <2>1, <2>2
<1>9. CASE Park
  BY <1>9 DEF Park
<1>10. CASE Unpark
  BY <1>10 DEF Unpark
<1>11. CASE Stop
  BY <1>11 DEF Stop
<1>12. CASE DialFails
  <2>1. \A h \in Handle : last'[h] = "subscribed" => last[h] = "subscribed" BY <1>12 DEF DialFails, StateAll, States
  <2>2. UNCHANGED <<subs, life, active, acked, sync, cur, sid, sawAcked>> BY <1>12 DEF DialFails
  <2> QED BY <2>1, <2>2
<1>13. CASE DialSucceeds
  <2>1. \A h \in Handle : last'[h] = "subscribed" => last[h] = "subscribed" BY <1>13 DEF DialSucceeds, StateAll, States
  <2>2. UNCHANGED <<subs, life, active, acked, cur, sid, sawAcked>> /\ sync' \in {sync, "start"} BY <1>13 DEF DialSucceeds
  <2> QED BY <2>1, <2>2
<1>14. CASE ReconnectWoken
  BY <1>14 DEF ReconnectWoken
<1>15. CASE ReconnectElapsed
  BY <1>15 DEF ReconnectElapsed
<1>16. CASE TeardownCancel
  BY <1>16 DEF TeardownCancel
<1>17. CASE TeardownJoin
  <2>1. /\ \A h \in subs : life[h] = "open" => last'[h] = "reconnecting"
        /\ \A h \in Handle : last'[h] = "subscribed" => last[h] = "subscribed"
    BY <1>17 DEF TeardownJoin, StateAll, States
  <2>2. sync' = "none" /\ UNCHANGED <<subs, life, cur>> BY <1>17 DEF TeardownJoin
  <2> QED BY <2>1, <2>2
<1>18. CASE WatchDial
  BY <1>18 DEF WatchDial
<1>19. CASE StrayTakesWake
  BY <1>19 DEF StrayTakesWake
<1>20. CASE StrayExits
  BY <1>20 DEF StrayExits
<1>21. CASE ServeWake
  BY <1>21 DEF ServeWake
<1>22. CASE ServeSyncResult
  BY <1>22 DEF ServeSyncResult
<1>23. CASE ServeDone
  BY <1>23 DEF ServeDone
<1>24. CASE ServeConnectionLost
  <2>1. \A h \in Handle : last'[h] = "subscribed" => last[h] = "subscribed" BY <1>24 DEF ServeConnectionLost, StateAll, States
  <2>2. UNCHANGED <<subs, life, active, acked, sync, cur, sid, sawAcked>> BY <1>24 DEF ServeConnectionLost
  <2> QED BY <2>1, <2>2
<1>25. CASE ServeUnexpected
  <2>1. \A h \in Handle : last'[h] = "subscribed" => last[h] = "subscribed" BY <1>25 DEF ServeUnexpected, StateAll, States
  <2>2. UNCHANGED <<subs, life, active, acked, sync, cur, sid, sawAcked>> BY <1>25 DEF ServeUnexpected
  <2> QED BY <2>1, <2>2
<1>26. ASSUME NEW overdue \in SUBSET pending, ServeAckTimeout(overdue) PROVE Told'
  <2>1. \A h \in Handle : last'[h] = "subscribed" => last[h] = "subscribed" BY <1>26 DEF ServeAckTimeout, States
  <2>2. UNCHANGED <<subs, life, active, acked, sync, cur, sid, sawAcked>> BY <1>26 DEF ServeAckTimeout
  <2> QED BY <2>1, <2>2
<1>27. CASE Dispatch
  <2>1. UNCHANGED <<sync, cur, sid, sawAcked>> BY <1>27, DispatchCases
  <2>2. ASSUME NEW ids \in SUBSET Identity, Acknowledge(ids) PROVE Told'
    <3>1. /\ UNCHANGED <<subs, life, active>>
          /\ \A i \in Identity : acked'[i] = (i \in ids \cap active \/ acked[i])
      BY <2>2 DEF Acknowledge
    <3>2. \A h \in Handle : last'[h] = "subscribed" =>
             last[h] = "subscribed" \/ (life[h] = "open" /\ \E i \in ids \cap active : h \in members[i])
      BY <2>2 DEF Acknowledge, States
    <3>3. \A h \in Handle : last'[h] = "subscribed" =>
             last[h] = "subscribed" \/ (life[h] = "open" /\ IdentityOf[h] \in ids \cap active)
      BY <3>2 DEF Lives, Grouped
    <3>4. \A i \in Identity : acked[i] => acked'[i] BY <3>1
    <3>5. \A h \in Handle : IdentityOf[h] \in ids \cap active => acked'[IdentityOf[h]] BY <3>1, Identities
    <3>6. \A h \in subs : (life'[h] = "open" /\ last'[h] = "subscribed") =>
             IdentityOf[h] \in active' /\ acked'[IdentityOf[h]]
      BY <3>1, <3>3, <3>4, <3>5, Identities
    <3>7. \A h \in Handle : life'[h] = "fresh" => last'[h] # "subscribed" /\ h \notin cur
      BY <3>1, <3>2
    <3>8. sid \in active /\ acked[sid] => sid \in active' /\ acked'[sid] BY <3>1, <3>4
    <3> QED BY <2>1, <3>1, <3>6, <3>7, <3>8
  <2>3. ASSUME NEW ids \in SUBSET Identity, Reject(ids) PROVE Told'
    <3>1. /\ subs' = {h \in subs : IdentityOf[h] \notin ids}
          /\ \A h \in Handle : IF life[h] = "open" /\ IdentityOf[h] \in ids
                                 THEN life'[h] = "ended" /\ last'[h] = "error"
                                 ELSE life'[h] = life[h] /\ last'[h] = last[h]
      BY <2>3, RejectEnds DEF Lives
    <3>2. active' = active \ ids /\ \A i \in Identity : acked'[i] = (i \notin ids /\ acked[i])
      BY <2>3 DEF Reject
    <3>3. \A h \in subs' : (life'[h] = "open" /\ last'[h] = "subscribed") =>
            IdentityOf[h] \in active' /\ acked'[IdentityOf[h]]
      BY <3>1, <3>2, Identities
    <3>4. \A h \in Handle : life'[h] = "fresh" => last'[h] # "subscribed" /\ h \notin cur BY <3>1
    <3>5. (sync = "join" /\ sawAcked) =>
            \/ sid \in active' /\ acked'[sid]
            \/ \A h \in cur : IdentityOf[h] = sid => life'[h] # "open"
      BY <3>1, <3>2 DEF Passes
    <3> QED BY <2>1, <3>3, <3>4, <3>5
  <2> QED BY <1>27, <2>2, <2>3, DispatchCases
<1>28. CASE SyncStart
  <2>1. UNCHANGED <<subs, life, last, active, acked>> /\ cur' = subs /\ sync' = "active" BY <1>28 DEF SyncStart
  <2>2. \A h \in subs : life[h] # "fresh" BY DEF Lives, NoZombieHandle
  <2> QED BY <2>1, <2>2
<1>29. CASE SyncActiveDone
  BY <1>29 DEF SyncActiveDone
<1>30. CASE SyncJoin
  <2>1. /\ UNCHANGED <<subs, life, active, acked, cur>> /\ sync' = "active"
        /\ \A h \in Handle : last'[h] = "subscribed" =>
             last[h] = "subscribed" \/ (sawAcked /\ life[h] = "open" /\ h \in cur /\ IdentityOf[h] = sid)
    BY <1>30 DEF SyncJoin, States, OfIdentity
  <2>2. sync = "join" BY <1>30 DEF SyncJoin
  <2> QED BY <2>1, <2>2
<1>31. CASE SyncWrite
  <2>1. UNCHANGED <<subs, life, last, cur>> /\ sync' # "join" BY <1>31 DEF SyncWrite, EndWrite
  <2>2. \A i \in Identity \ {sid} : (i \in active' <=> i \in active) /\ acked'[i] = acked[i]
    BY <1>31 DEF SyncWrite
  <2>3. \A h \in subs : ~(life[h] = "open" /\ last[h] = "subscribed" /\ IdentityOf[h] = sid)
    <3>1. CASE admission.want
      <4>1. sid \notin active BY <1>31, <3>1 DEF SyncWrite, Passes
      <4> QED BY <4>1
    <3>2. CASE ~admission.want
      <4>1. sid \notin Registered BY <1>31, <3>2 DEF SyncWrite, AdmissionCurrent
      <4> QED BY <4>1 DEF Registered
    <3> QED BY <3>1, <3>2
  <2> QED BY <2>1, <2>2, <2>3, Identities
<1>32. CASE SyncSkip
  <2>1. UNCHANGED <<subs, life, last, active, acked, cur>> /\ sync' # "join" BY <1>32 DEF SyncSkip, EndWrite
  <2> QED BY <2>1
<1>33. CASE SyncFails
  <2>1. \A h \in Handle : last'[h] = "subscribed" => last[h] = "subscribed" BY <1>33 DEF SyncFails, StateAll, States
  <2>2. UNCHANGED <<subs, life, active, acked, cur>> /\ sync' = "failed" BY <1>33 DEF SyncFails
  <2> QED BY <2>1, <2>2
<1>34. CASE SyncDone
  BY <1>34 DEF SyncDone
<1>35. ASSUME NEW i \in Identity, SyncVisitActive(i) PROVE Told'
  <2>1. UNCHANGED <<subs, life, last, active, acked, cur>> BY <1>35 DEF SyncVisitActive
  <2>2. sync' = "join" /\ sawAcked' => sid' \in active /\ acked[sid']
    BY <1>35 DEF SyncVisitActive, RegisterAdmission
  <2> QED BY <2>1, <2>2
<1>36. ASSUME NEW i \in Identity, SyncVisitWanted(i) PROVE Told'
  <2>1. \A h \in Handle : last'[h] = "subscribed" => last[h] = "subscribed"
    <3>1. last' = last \/ last' = States(last, OfIdentity(cur, i), "connected") BY <1>36 DEF SyncVisitWanted
    <3> QED BY <3>1 DEF States
  <2>2. UNCHANGED <<subs, life, active, acked, cur>> /\ sync' # "join"
    BY <1>36 DEF SyncVisitWanted, RegisterAdmission
  <2> QED BY <2>1, <2>2
<1>37. ASSUME NEW kind \in {"ok"} \cup Replies, ServerReply(kind) PROVE Told'
  BY <1>37 DEF ServerReply
<1>38. CASE UNCHANGED vars BY <1>38
<1> QED
  BY <1>1, <1>2, <1>3, <1>4, <1>5, <1>6, <1>7, <1>8, <1>9, <1>10, <1>11, <1>12, <1>13, <1>14,
     <1>15, <1>16, <1>17, <1>18, <1>19, <1>20, <1>21, <1>22, <1>23, <1>24, <1>25, <1>26, <1>27,
     <1>28, <1>29, <1>30, <1>31, <1>32, <1>33, <1>34, <1>35, <1>36, <1>37, <1>38
  DEF Next, Application, Run, Watcher, Serve, Sync, Exchange, Finished

\* After every reconnect a handle is told subscribed only with a group that
\* was acknowledged on the current connection.
THEOREM AcknowledgedFirst == Spec => []FreshAcknowledgement
<1>1. Init => Told BY DEF Init, Told
<1>2. Told => FreshAcknowledgement BY DEF Told, FreshAcknowledgement
<1> QED BY <1>1, <1>2, ToldStep, LivesHold, PTL DEF Spec

---------------------------------------------------------------------------
(* Convergence.                                                            *)

\* Nothing the manager has not been told of: no wake-up is stored, no
\* registration is half done, and the running pass need not be repeated.
Quiet == ~wake /\ CommitFree /\ ~stolen /\ ~syncAgain

\* A pass nobody asked to repeat works on the present registry.  Its first
\* loop leaves only identities still wanted behind it, its second loop only
\* identities that are on the wire; the write it waits for is not stale.
PassOnTrack ==
    (Quiet /\ mgr = "serving") =>
      /\ sync \in {"active", "join", "subscribe", "write"} => cur = subs
      /\ sync \in {"none", "ok"} => active = Registered
      /\ sync \in {"active", "join"} => active \subseteq Registered \cup todo
      /\ (sync = "write" /\ ~admission.want) => active \subseteq Registered \cup todo \cup {sid}
      /\ sync = "subscribe" => active \cup todo = Registered
      /\ (sync = "write" /\ admission.want) => active \cup todo \cup {sid} = Registered
      /\ sync = "write" => ~admission.stale /\ AdmissionCurrent

Tracked ==
    /\ PassOnTrack
    /\ (~wake /\ CommitFree /\ ~stolen /\ mgr = "parked") => subs = {}

\* A step that leaves the pass and the registry alone keeps it on track.
LEMMA TrackFrame ==
    ASSUME Tracked, mgr' = mgr \/ mgr' \notin {"serving", "parked"},
           UNCHANGED <<wake, publishing, stolen, syncAgain, subs, active, sync, cur, todo, sid, admission>>
    PROVE  Tracked'
<1>1. Quiet' <=> Quiet BY DEF Quiet, CommitFree
<1>2. Registered' = Registered /\ (AdmissionCurrent' <=> AdmissionCurrent)
  BY DEF Registered, AdmissionCurrent, OfIdentity, Fingerprint
<1>3. PassOnTrack' BY <1>1, <1>2 DEF Tracked, PassOnTrack
<1> QED BY <1>3 DEF Tracked, CommitFree

\* Every step keeps the pass on track, or leaves a reason for another one.
LEMMA TrackedStep ==
    ASSUME TypeOK, Passes, Lives, Tracked, [Next]_vars PROVE Tracked'
<1> USE DEF clientVars, groupVars, serveVars, syncVars, netVars, vars
<1>1. ASSUME NEW h \in Handle, SubscribePublish(h) PROVE Tracked'
  <2>1. publishing' # NoHandle BY <1>1, ManagerAssumption DEF SubscribePublish
  <2> QED BY <2>1 DEF Tracked, PassOnTrack, Quiet, CommitFree
<1>2. ASSUME NEW h \in Handle, CloseBegin(h) PROVE Tracked'
  <2>1. /\ UNCHANGED <<wake, publishing, stolen, syncAgain, subs, active, sync, cur, todo, sid, admission>>
        /\ mgr' = mgr \/ mgr' \notin {"serving", "parked"}
    BY <1>2 DEF CloseBegin
  <2> QED BY <2>1, TrackFrame
<1>3. ASSUME NEW h \in Handle, CloseRemove(h) PROVE Tracked'
  <2>1. wake' BY <1>3 DEF CloseRemove, Notify
  <2> QED BY <2>1 DEF Tracked, PassOnTrack, Quiet, CommitFree
<1>4. CASE SubscribeAnnounce
  <2>1. wake' BY <1>4 DEF SubscribeAnnounce, Notify
  <2> QED BY <2>1 DEF Tracked, PassOnTrack, Quiet, CommitFree
<1>5. CASE ClientCloseBegin
  <2>1. /\ UNCHANGED <<wake, publishing, stolen, syncAgain, subs, active, sync, cur, todo, sid, admission>>
        /\ mgr' = mgr \/ mgr' \notin {"serving", "parked"}
    BY <1>5 DEF ClientCloseBegin
  <2> QED BY <2>1, TrackFrame
<1>6. CASE ClientCloseCancel
  <2>1. /\ UNCHANGED <<wake, publishing, stolen, syncAgain, subs, active, sync, cur, todo, sid, admission>>
        /\ mgr' = mgr \/ mgr' \notin {"serving", "parked"}
    BY <1>6 DEF ClientCloseCancel
  <2> QED BY <2>1, TrackFrame
<1>7. CASE ClientCloseJoin
  <2>1. /\ UNCHANGED <<wake, publishing, stolen, syncAgain, subs, active, sync, cur, todo, sid, admission>>
        /\ mgr' = mgr \/ mgr' \notin {"serving", "parked"}
    BY <1>7 DEF ClientCloseJoin
  <2> QED BY <2>1, TrackFrame
<1>8. CASE StartDial
  <2>1. mgr' \notin {"serving", "parked"} BY <1>8 DEF StartDial
  <2> QED BY <2>1 DEF Tracked, PassOnTrack
<1>9. CASE Park
  <2>1. mgr' = "parked" /\ subs = {} /\ UNCHANGED subs BY <1>9 DEF Park
  <2> QED BY <2>1 DEF Tracked, PassOnTrack
<1>10. CASE Unpark
  <2>1. mgr' \notin {"serving", "parked"} BY <1>10 DEF Unpark
  <2> QED BY <2>1 DEF Tracked, PassOnTrack
<1>11. CASE Stop
  <2>1. mgr' \notin {"serving", "parked"} BY <1>11 DEF Stop
  <2> QED BY <2>1 DEF Tracked, PassOnTrack
<1>12. CASE DialFails
  <2>1. mgr' \notin {"serving", "parked"} BY <1>12 DEF DialFails
  <2> QED BY <2>1 DEF Tracked, PassOnTrack
<1>13. CASE DialSucceeds
  <2>1. mgr' # "parked" /\ (mgr' = "serving" => sync' = "start") BY <1>13 DEF DialSucceeds
  <2> QED BY <2>1 DEF Tracked, PassOnTrack
<1>14. CASE ReconnectWoken
  <2>1. mgr' \notin {"serving", "parked"} BY <1>14 DEF ReconnectWoken
  <2> QED BY <2>1 DEF Tracked, PassOnTrack
<1>15. CASE ReconnectElapsed
  <2>1. mgr' \notin {"serving", "parked"} BY <1>15 DEF ReconnectElapsed
  <2> QED BY <2>1 DEF Tracked, PassOnTrack
<1>16. CASE TeardownCancel
  <2>1. mgr' \notin {"serving", "parked"} BY <1>16 DEF TeardownCancel
  <2> QED BY <2>1 DEF Tracked, PassOnTrack
<1>17. CASE TeardownJoin
  <2>1. mgr' \notin {"serving", "parked"} BY <1>17 DEF TeardownJoin
  <2> QED BY <2>1 DEF Tracked, PassOnTrack
<1>18. CASE WatchDial
  <2>1. mgr' = "dialing" BY <1>18 DEF WatchDial, Lives, Generations
  <2> QED BY <2>1 DEF Tracked, PassOnTrack
<1>19. CASE StrayTakesWake
  <2>1. stolen' BY <1>19 DEF StrayTakesWake
  <2> QED BY <2>1 DEF Tracked, PassOnTrack, Quiet, CommitFree
<1>20. CASE StrayExits
  <2>1. /\ UNCHANGED <<wake, publishing, stolen, syncAgain, subs, active, sync, cur, todo, sid, admission>>
        /\ mgr' = mgr \/ mgr' \notin {"serving", "parked"}
    BY <1>20 DEF StrayExits
  <2> QED BY <2>1, TrackFrame
<1>21. CASE ServeWake
  <2>1. mgr = "serving" /\ mgr' = "serving" /\ syncAgain' = syncRunning BY <1>21 DEF ServeWake
  <2>2. CASE syncRunning
    <3>1. syncAgain' BY <2>1, <2>2
    <3> QED BY <2>1, <3>1 DEF Tracked, PassOnTrack, Quiet
  <2>3. CASE ~syncRunning
    <3>1. sync' = "start" BY <1>21, <2>3 DEF ServeWake
    <3> QED BY <2>1, <3>1 DEF Tracked, PassOnTrack
  <2> QED BY <2>2, <2>3
<1>22. CASE ServeSyncResult
  <2>1. mgr = "serving" /\ mgr' # "parked" /\ UNCHANGED <<wake, publishing, stolen, subs, active>>
    BY <1>22 DEF ServeSyncResult, LeaveIfIdle
  <2>2. CASE sync = "failed"
    <3>1. mgr' = "teardown" BY <1>22, <2>2 DEF ServeSyncResult
    <3> QED BY <3>1 DEF Tracked, PassOnTrack
  <2>3. CASE sync = "ok" /\ syncAgain
    <3>1. sync' = "start" BY <1>22, <2>3 DEF ServeSyncResult
    <3> QED BY <2>1, <3>1 DEF Tracked, PassOnTrack
  <2>4. CASE sync = "ok" /\ ~syncAgain
    <3>1. sync' = "none" BY <1>22, <2>4 DEF ServeSyncResult
    <3>2. Quiet' => active = Registered BY <2>1, <2>4 DEF Tracked, PassOnTrack, Quiet, CommitFree
    <3> QED BY <2>1, <3>1, <3>2 DEF Tracked, PassOnTrack, Registered
  <2> QED BY <1>22, <2>2, <2>3, <2>4 DEF ServeSyncResult
<1>23. CASE ServeDone
  <2>1. mgr' \notin {"serving", "parked"} BY <1>23 DEF ServeDone
  <2> QED BY <2>1 DEF Tracked, PassOnTrack
<1>24. CASE ServeConnectionLost
  <2>1. mgr' \notin {"serving", "parked"} BY <1>24 DEF ServeConnectionLost
  <2> QED BY <2>1 DEF Tracked, PassOnTrack
<1>25. CASE ServeUnexpected
  <2>1. /\ UNCHANGED <<wake, publishing, stolen, syncAgain, subs, active, sync, cur, todo, sid, admission>>
        /\ mgr' = mgr \/ mgr' \notin {"serving", "parked"}
    BY <1>25 DEF ServeUnexpected, LeaveIfIdle
  <2> QED BY <2>1, TrackFrame
<1>26. ASSUME NEW overdue \in SUBSET pending, ServeAckTimeout(overdue) PROVE Tracked'
  <2>1. mgr' \notin {"serving", "parked"} BY <1>26 DEF ServeAckTimeout
  <2> QED BY <2>1 DEF Tracked, PassOnTrack
<1>27. CASE Dispatch
  <2>1. /\ mgr = "serving" /\ mgr' \in {"serving", "teardown"}
        /\ UNCHANGED <<publishing, stolen, syncAgain, sync, cur, todo, sid>>
    BY <1>27, DispatchCases
  <2>2. CASE \E ids \in SUBSET Identity : Acknowledge(ids)
    <3>1. UNCHANGED <<subs, wake, active, admission>> BY <2>2 DEF Acknowledge
    <3> QED BY <2>1, <3>1, TrackFrame
  <2>3. ASSUME NEW ids \in SUBSET Identity, Reject(ids) PROVE Tracked'
    <3>1. CASE Detached(ids) # {}
      <4>1. wake' BY <2>3, <3>1 DEF Reject
      <4> QED BY <4>1 DEF Tracked, PassOnTrack, Quiet
    <3>2. CASE Detached(ids) = {}
      <4>1. active' = active \ ids /\ admission' = admission BY <2>3, <3>2 DEF Reject
      <4>2. subs' = subs BY <2>3, <3>2 DEF Reject
      <4>3. \A i \in ids : i \notin Registered BY <3>2 DEF Detached, Registered
      <4>4. Registered' = Registered /\ (AdmissionCurrent <=> AdmissionCurrent')
        BY <2>1, <4>1, <4>2 DEF Registered, AdmissionCurrent, OfIdentity, Fingerprint
      <4>5. Quiet' => Quiet BY <2>1, <2>3 DEF Quiet, CommitFree, Reject
      <4> QED BY <2>1, <4>1, <4>2, <4>3, <4>4, <4>5 DEF Tracked, PassOnTrack
    <3> QED BY <3>1, <3>2
  <2> QED BY <1>27, <2>2, <2>3, DispatchCases
<1>28. CASE SyncStart
  <2>0. UNCHANGED <<wake, publishing, stolen, syncAgain, subs, mgr>> BY <1>28 DEF SyncStart
  <2>1. (Quiet' <=> Quiet) /\ Registered' = Registered BY <2>0 DEF Quiet, CommitFree, Registered
  <2>2. SUFFICES ASSUME Quiet, mgr = "serving" PROVE PassOnTrack' BY <2>0, <2>1 DEF Tracked, PassOnTrack, CommitFree
  <2>3. sync' = "active" /\ cur' = subs /\ todo' = active /\ active' = active BY <1>28 DEF SyncStart
  <2> QED BY <2>0, <2>1, <2>3 DEF PassOnTrack
<1>29. CASE SyncActiveDone
  <2>0. UNCHANGED <<wake, publishing, stolen, syncAgain, subs, mgr>> BY <1>29 DEF SyncActiveDone
  <2>1. (Quiet' <=> Quiet) /\ Registered' = Registered BY <2>0 DEF Quiet, CommitFree, Registered
  <2>2. SUFFICES ASSUME Quiet, mgr = "serving" PROVE PassOnTrack' BY <2>0, <2>1 DEF Tracked, PassOnTrack, CommitFree
  <2>3. /\ sync = "active" /\ todo = {} /\ sync' = "subscribe" /\ todo' = {IdentityOf[h] : h \in cur}
        /\ UNCHANGED <<cur, active>>
    BY <1>29 DEF SyncActiveDone
  <2>4. cur = subs /\ active \subseteq Registered BY <2>2, <2>3 DEF Tracked, PassOnTrack
  <2>5. todo' = Registered BY <2>3, <2>4 DEF Registered
  <2> QED BY <2>0, <2>1, <2>3, <2>4, <2>5 DEF PassOnTrack
<1>30. CASE SyncJoin
  <2>0. UNCHANGED <<wake, publishing, stolen, syncAgain, subs, mgr>> BY <1>30 DEF SyncJoin
  <2>1. (Quiet' <=> Quiet) /\ Registered' = Registered BY <2>0 DEF Quiet, CommitFree, Registered
  <2>2. SUFFICES ASSUME Quiet, mgr = "serving" PROVE PassOnTrack' BY <2>0, <2>1 DEF Tracked, PassOnTrack, CommitFree
  <2>3. sync = "join" /\ sync' = "active" /\ UNCHANGED <<cur, active, todo>> BY <1>30 DEF SyncJoin
  <2>4. cur = subs /\ active \subseteq Registered \cup todo BY <2>2, <2>3 DEF Tracked, PassOnTrack
  <2> QED BY <2>0, <2>1, <2>3, <2>4 DEF PassOnTrack
<1>31. CASE SyncWrite
  <2>0. UNCHANGED <<wake, publishing, stolen, syncAgain, subs, mgr>> BY <1>31 DEF SyncWrite
  <2>1. (Quiet' <=> Quiet) /\ Registered' = Registered BY <2>0 DEF Quiet, CommitFree, Registered
  <2>2. SUFFICES ASSUME Quiet, mgr = "serving" PROVE PassOnTrack' BY <2>0, <2>1 DEF Tracked, PassOnTrack, CommitFree
  <2>3. sync = "write" /\ AdmissionCurrent /\ UNCHANGED <<cur, todo>> BY <1>31 DEF SyncWrite
  <2>4. CASE admission.want
    <3>1. active' = active \cup {sid} /\ sync' = "subscribe" BY <1>31, <2>4 DEF SyncWrite, EndWrite
    <3>2. sid \in Registered BY <2>3, <2>4 DEF AdmissionCurrent
    <3>3. cur = subs /\ active \cup todo \cup {sid} = Registered
      BY <2>2, <2>3, <2>4 DEF Tracked, PassOnTrack
    <3> QED BY <2>0, <2>1, <2>3, <3>1, <3>2, <3>3 DEF PassOnTrack
  <2>5. CASE ~admission.want
    <3>1. active' = active \ {sid} /\ sync' = "active" BY <1>31, <2>5 DEF SyncWrite, EndWrite
    <3>2. cur = subs /\ active \subseteq Registered \cup todo \cup {sid}
      BY <2>2, <2>3, <2>5 DEF Tracked, PassOnTrack
    <3> QED BY <2>0, <2>1, <2>3, <3>1, <3>2 DEF PassOnTrack
  <2> QED BY <2>4, <2>5
<1>32. CASE SyncSkip
  <2>0. UNCHANGED <<wake, publishing, stolen, syncAgain, subs, mgr>> BY <1>32 DEF SyncSkip
  <2>1. (Quiet' <=> Quiet) /\ Registered' = Registered BY <2>0 DEF Quiet, CommitFree, Registered
  <2>2. SUFFICES ASSUME Quiet, mgr = "serving" PROVE PassOnTrack' BY <2>0, <2>1 DEF Tracked, PassOnTrack, CommitFree
  <2>3. sync = "write" /\ (admission.stale \/ ~AdmissionCurrent) BY <1>32 DEF SyncSkip
  <2> QED BY <2>2, <2>3 DEF Tracked, PassOnTrack
<1>33. CASE SyncFails
  <2>0. UNCHANGED <<wake, publishing, stolen, syncAgain, subs, mgr>> BY <1>33 DEF SyncFails
  <2>1. (Quiet' <=> Quiet) /\ Registered' = Registered BY <2>0 DEF Quiet, CommitFree, Registered
  <2>2. SUFFICES ASSUME Quiet, mgr = "serving" PROVE PassOnTrack' BY <2>0, <2>1 DEF Tracked, PassOnTrack, CommitFree
  <2>3. sync' = "failed" BY <1>33 DEF SyncFails
  <2> QED BY <2>3 DEF PassOnTrack
<1>34. CASE SyncDone
  <2>0. UNCHANGED <<wake, publishing, stolen, syncAgain, subs, mgr>> BY <1>34 DEF SyncDone
  <2>1. (Quiet' <=> Quiet) /\ Registered' = Registered BY <2>0 DEF Quiet, CommitFree, Registered
  <2>2. SUFFICES ASSUME Quiet, mgr = "serving" PROVE PassOnTrack' BY <2>0, <2>1 DEF Tracked, PassOnTrack, CommitFree
  <2>3. sync = "subscribe" /\ todo = {} /\ sync' = "ok" /\ UNCHANGED active BY <1>34 DEF SyncDone
  <2>4. active = Registered BY <2>2, <2>3 DEF Tracked, PassOnTrack
  <2> QED BY <2>0, <2>1, <2>3, <2>4 DEF PassOnTrack
<1>35. ASSUME NEW i \in Identity, SyncVisitActive(i) PROVE Tracked'
  <2>0. UNCHANGED <<wake, publishing, stolen, syncAgain, subs, mgr>> BY <1>35 DEF SyncVisitActive
  <2>1. (Quiet' <=> Quiet) /\ Registered' = Registered BY <2>0 DEF Quiet, CommitFree, Registered
  <2>2. SUFFICES ASSUME Quiet, mgr = "serving" PROVE PassOnTrack' BY <2>0, <2>1 DEF Tracked, PassOnTrack, CommitFree
  <2>3. sync = "active" /\ i \in todo /\ todo' = todo \ {i} /\ UNCHANGED <<cur, active>>
    BY <1>35 DEF SyncVisitActive
  <2>4. cur = subs /\ active \subseteq Registered \cup todo BY <2>2, <2>3 DEF Tracked, PassOnTrack
  <2>5. OfIdentity(cur, i) # {} <=> i \in Registered BY <2>4 DEF OfIdentity, Registered
  <2>6. CASE i \notin active
    <3>1. sync' = "active" BY <1>35, <2>3, <2>6 DEF SyncVisitActive
    <3> QED BY <2>0, <2>1, <2>3, <2>4, <2>6, <3>1 DEF PassOnTrack
  <2>7. CASE i \in active /\ OfIdentity(cur, i) # {}
    <3>1. sync' = "join" BY <1>35, <2>7 DEF SyncVisitActive
    <3> QED BY <2>0, <2>1, <2>3, <2>4, <2>5, <2>7, <3>1 DEF PassOnTrack
  <2>8. CASE i \in active /\ OfIdentity(cur, i) = {}
    <3>1. RegisterAdmission(i, FALSE, Canonical) BY <1>35, <2>8 DEF SyncVisitActive
    <3>2. Canonical \in Wire BY DEF Wire
    <3>3. /\ admission'.want = FALSE /\ sid' = i /\ sync' = "write"
          /\ ~admission'.stale <=> FALSE = (i \in Registered)
      BY <3>1, <3>2, RegisterType
    <3>4. i \notin Registered BY <2>5, <2>8
    <3>5. ~admission'.stale BY <3>3, <3>4
    <3>6. sid' \notin Registered' BY <2>1, <3>3, <3>4
    <3>7. AdmissionCurrent'
      <4>1. (sid' \in Registered') = FALSE BY <3>6
      <4>2. admission'.want = (sid' \in Registered') BY <3>3, <4>1
      <4>3. ~admission'.want BY <3>3
      <4> QED BY <4>2, <4>3 DEF AdmissionCurrent
    <3> QED BY <2>0, <2>1, <2>3, <2>4, <3>3, <3>5, <3>7 DEF PassOnTrack
  <2> QED BY <2>6, <2>7, <2>8
<1>36. ASSUME NEW i \in Identity, SyncVisitWanted(i) PROVE Tracked'
  <2>0. UNCHANGED <<wake, publishing, stolen, syncAgain, subs, mgr>> BY <1>36 DEF SyncVisitWanted
  <2>1. (Quiet' <=> Quiet) /\ Registered' = Registered BY <2>0 DEF Quiet, CommitFree, Registered
  <2>2. SUFFICES ASSUME Quiet, mgr = "serving" PROVE PassOnTrack' BY <2>0, <2>1 DEF Tracked, PassOnTrack, CommitFree
  <2>3. sync = "subscribe" /\ i \in todo /\ todo' = todo \ {i} /\ UNCHANGED <<cur, active>>
    BY <1>36 DEF SyncVisitWanted
  <2>4. cur = subs /\ active \cup todo = Registered
    BY <2>2, <2>3 DEF Tracked, PassOnTrack
  <2>5. CASE i \in active
    <3>1. sync' = "subscribe" BY <1>36, <2>3, <2>5 DEF SyncVisitWanted
    <3> QED BY <2>0, <2>1, <2>3, <2>4, <2>5, <3>1 DEF PassOnTrack
  <2>6. CASE i \notin active
    <3>1. RegisterAdmission(i, TRUE, Fingerprint(OfIdentity(cur, i))) BY <1>36, <2>6 DEF SyncVisitWanted
    <3>2. Fingerprint(OfIdentity(cur, i)) \in Wire BY FingerprintType, Identities DEF TypeOK
    <3>3. /\ admission'.want = TRUE /\ admission'.wire = Fingerprint(OfIdentity(cur, i))
          /\ sid' = i /\ sync' = "write"
          /\ ~admission'.stale <=> TRUE = (i \in Registered)
      BY <2>4, <3>1, <3>2, RegisterType
    <3>4. i \in Registered BY <2>3, <2>4
    <3>5. ~admission'.stale BY <3>3, <3>4
    <3>6. AdmissionCurrent' BY <2>0, <2>1, <2>4, <3>3, <3>4 DEF AdmissionCurrent, OfIdentity, Fingerprint
    <3> QED BY <2>0, <2>1, <2>3, <2>4, <3>3, <3>5, <3>6 DEF PassOnTrack
  <2> QED BY <2>5, <2>6
<1>37. ASSUME NEW kind \in {"ok"} \cup Replies, ServerReply(kind) PROVE Tracked'
  <2>1. /\ UNCHANGED <<wake, publishing, stolen, syncAgain, subs, active, sync, cur, todo, sid, admission>>
        /\ mgr' = mgr \/ mgr' \notin {"serving", "parked"}
    BY <1>37 DEF ServerReply
  <2> QED BY <2>1, TrackFrame
<1>38. CASE UNCHANGED vars BY <1>38, TrackFrame
<1> QED
  BY <1>1, <1>2, <1>3, <1>4, <1>5, <1>6, <1>7, <1>8, <1>9, <1>10, <1>11, <1>12, <1>13, <1>14,
     <1>15, <1>16, <1>17, <1>18, <1>19, <1>20, <1>21, <1>22, <1>23, <1>24, <1>25, <1>26, <1>27,
     <1>28, <1>29, <1>30, <1>31, <1>32, <1>33, <1>34, <1>35, <1>36, <1>37, <1>38
  DEF Next, Application, Run, Watcher, Serve, Sync, Exchange, Finished

\* No interleaving of registrations, closes, rejections and passes makes the
\* manager miss the last change of the registry.
THEOREM NoChangeMissed == Spec => []Converged
<1>1. Init => Tracked BY DEF Init, Tracked, PassOnTrack
<1>2. TypeOK /\ Passes /\ Tracked => Converged
  BY DEF TypeOK, Passes, Tracked, PassOnTrack, Quiet, Converged
<1>3. Spec => [](TypeOK /\ Passes /\ Lives /\ Tracked)
  BY <1>1, TrackedStep, LivesHold, PTL DEF Spec
<1> QED BY <1>2, <1>3, PTL

---------------------------------------------------------------------------
(* The wire, while the exchange grants every request.                      *)

\* The states the exchange goes through as it answers the requests in flight,
\* from what it streams now to the groups of the manager: no request finds its
\* effect already there.
Applied(view) ==
    /\ view[0] = server /\ view[Len(toServer)] = active
    /\ \A k \in 1..Len(toServer) :
         IF toServer[k].method = "subscribe"
           THEN toServer[k].id \notin view[k - 1] /\ view[k] = view[k - 1] \cup {toServer[k].id}
           ELSE toServer[k].id \in view[k - 1] /\ view[k] = view[k - 1] \ {toServer[k].id}

\* The groups run ahead of the exchange by the requests in flight.
InStep ==
    /\ \A k \in 1..Len(toClient) : toClient[k].kind = "ok"
    /\ (sync = "write" /\ ~admission.want) => sid \in active
    /\ \E view \in [Nat -> SUBSET Identity] : Applied(view)

\* A step that leaves the wire and the groups alone keeps them in step.
LEMMA InStepFrame ==
    ASSUME InStep, UNCHANGED <<toServer, toClient, server, active>>,
           (sync' = "write" /\ ~admission'.want) => sid' \in active
    PROVE  InStep'
<1>1. \A view : Applied(view) => Applied(view)' BY DEF Applied
<1> QED BY <1>1 DEF InStep

\* A new connection is in step.
LEMMA EmptyInStep ==
    /\ (toServer = <<>> /\ toClient = <<>> /\ server = {} /\ active = {} /\ sync = "none") => InStep
    /\ (toServer' = <<>> /\ toClient' = <<>> /\ server' = {} /\ active' = {} /\ sync' = "none") => InStep'
<1> DEFINE view == [k \in Nat |-> {}]
<1>1. view \in [Nat -> SUBSET Identity] /\ view[0] = {} OBVIOUS
<1> HIDE DEF view
<1>2. (toServer = <<>> /\ server = {} /\ active = {}) => Applied(view) BY <1>1 DEF Applied
<1>3. (toServer' = <<>> /\ server' = {} /\ active' = {}) => Applied(view)' BY <1>1 DEF Applied
<1> QED BY <1>1, <1>2, <1>3 DEF InStep

\* Every step keeps the groups in step with the exchange.
LEMMA InStepStep ==
    ASSUME TypeOK, Passes, InStep, Replies \subseteq {"ok"}, [Next]_vars PROVE InStep'
<1> USE DEF clientVars, groupVars, serveVars, syncVars, netVars, vars
<1>0. admission \in Admissions /\ Replies \subseteq {"ok"} BY DEF TypeOK, Admissions
<1>1. ASSUME NEW i \in Identity, SyncVisitActive(i) PROVE InStep'
  <2>1. UNCHANGED <<toServer, toClient, server, active>> BY <1>1 DEF SyncVisitActive
  <2>2. sync' = "write" => sid' \in active BY <1>1 DEF SyncVisitActive, RegisterAdmission
  <2> QED BY <2>1, <2>2, InStepFrame
<1>2. ASSUME NEW i \in Identity, SyncVisitWanted(i) PROVE InStep'
  <2>1. UNCHANGED <<toServer, toClient, server, active>> BY <1>2 DEF SyncVisitWanted
  <2>2. sync' = "write" => admission'.want
    <3>1. sync = "subscribe" /\ (sync' = sync \/ RegisterAdmission(i, TRUE, Fingerprint(OfIdentity(cur, i))))
      BY <1>2 DEF SyncVisitWanted
    <3>2. Fingerprint(OfIdentity(cur, i)) \in Wire BY FingerprintType, Identities DEF TypeOK
    <3> QED BY <3>1, <3>2, RegisterType
  <2> QED BY <2>1, <2>2, InStepFrame
<1>3. CASE SyncWrite
  <2> DEFINE n == Len(toServer)
             request == [method |-> RequestMethod(admission.want), id |-> sid]
  <2>1. PICK view \in [Nat -> SUBSET Identity] : Applied(view) BY DEF InStep
  <2> DEFINE then == IF admission.want THEN active \cup {sid} ELSE active \ {sid}
             next == [k \in Nat |-> IF k = n + 1 THEN then ELSE view[k]]
  <2>2. /\ sync = "write" /\ toServer' = Append(toServer, request) /\ UNCHANGED <<toClient, server>>
        /\ active' = then /\ sync' # "write" /\ sid \in Identity
    BY <1>3 DEF SyncWrite, EndWrite, Passes
  <2>3. n \in Nat /\ \A k \in 1..n : k \in Nat /\ k - 1 \in Nat /\ k # n + 1 /\ k - 1 # n + 1 BY DEF TypeOK
  <2>4. /\ Len(toServer') = n + 1 /\ toServer'[n + 1] = request
        /\ \A k \in 1..n : toServer'[k] = toServer[k]
    BY <2>2 DEF TypeOK
  <2>5. next \in [Nat -> SUBSET Identity] BY <2>2 DEF TypeOK
  <2>6. next[0] = server' /\ next[n + 1] = active' /\ next[n] = active BY <2>1, <2>2, <2>3 DEF Applied
  <2>7. IF request.method = "subscribe"
          THEN request.id \notin active /\ active' = active \cup {request.id}
          ELSE request.id \in active /\ active' = active \ {request.id}
    BY <2>2 DEF RequestMethod, Passes, InStep
  <2>8. \A k \in 1..n : next[k] = view[k] /\ next[k - 1] = view[k - 1] BY <2>3
  <2> HIDE DEF next, request, n
  <2>9. \A k \in 1..n + 1 : IF toServer'[k].method = "subscribe"
           THEN toServer'[k].id \notin next[k - 1] /\ next[k] = next[k - 1] \cup {toServer'[k].id}
           ELSE toServer'[k].id \in next[k - 1] /\ next[k] = next[k - 1] \ {toServer'[k].id}
    <3>1. CASE n + 1 \in Nat /\ (n + 1) - 1 = n BY <2>1, <2>3, <2>4, <2>6, <2>7, <2>8, <3>1 DEF Applied, n
    <3> QED BY <2>3, <3>1
  <2>10. PICK w \in [Nat -> SUBSET Identity] : w = next BY <2>5
  <2>11. Applied(w)' BY <2>4, <2>6, <2>9, <2>10 DEF Applied
  <2> QED BY <2>2, <2>11 DEF InStep
<1>4. ASSUME NEW kind \in {"ok"} \cup Replies, ServerReply(kind) PROVE InStep'
  <2> DEFINE n == Len(toServer)
             request == Head(toServer)
             reply == [method |-> request.method, id |-> request.id, kind |-> kind]
  <2>0. kind = "ok" BY <1>0
  <2>1. PICK view \in [Nat -> SUBSET Identity] : Applied(view) BY DEF InStep
  <2> DEFINE next == [k \in Nat |-> view[k + 1]]
  <2>2. /\ toServer # <<>> /\ toServer' = Tail(toServer) /\ UNCHANGED <<active, sync, sid, admission>>
        /\ toClient' = Append(toClient, reply)
        /\ server' = (IF request.method = "subscribe" THEN server \cup {request.id} ELSE server \ {request.id})
    BY <1>4, <2>0 DEF ServerReply
  <2>3. /\ n \in Nat /\ n > 0 /\ Len(toServer') = n - 1 /\ request = toServer[1] /\ 1 \in 1..n
        /\ \A k \in 1..n - 1 : k \in Nat /\ k - 1 \in Nat /\ k + 1 \in 1..n
                               /\ (k + 1) - 1 = (k - 1) + 1 /\ toServer'[k] = toServer[k + 1]
    BY <2>2 DEF TypeOK
  <2>4. \A k \in 1..Len(toClient') : toClient'[k].kind = "ok"
    <3>1. /\ Len(toClient') = Len(toClient) + 1 /\ toClient'[Len(toClient) + 1].kind = "ok"
          /\ \A k \in 1..Len(toClient) : toClient'[k] = toClient[k]
      BY <2>0, <2>2 DEF TypeOK
    <3>2. Len(toClient) \in Nat BY DEF TypeOK
    <3> QED BY <3>1, <3>2 DEF InStep
  <2>5. next \in [Nat -> SUBSET Identity] OBVIOUS
  <2>6. next[0] = view[1] /\ next[n - 1] = view[n] BY <2>3
  <2>7. view[1] = server'
    <3>1. 1 - 1 = 0 OBVIOUS
    <3>2. IF request.method = "subscribe" THEN view[1] = view[0] \cup {request.id}
                                          ELSE view[1] = view[0] \ {request.id}
      BY <2>1, <2>3, <3>1 DEF Applied
    <3> QED BY <2>1, <2>2, <3>2 DEF Applied
  <2>8. \A k \in 1..n - 1 : next[k] = view[k + 1] /\ next[k - 1] = view[(k + 1) - 1] BY <2>3
  <2> HIDE DEF next, request, reply, n
  <2>9. \A k \in 1..n - 1 : IF toServer'[k].method = "subscribe"
           THEN toServer'[k].id \notin next[k - 1] /\ next[k] = next[k - 1] \cup {toServer'[k].id}
           ELSE toServer'[k].id \in next[k - 1] /\ next[k] = next[k - 1] \ {toServer'[k].id}
    BY <2>1, <2>3, <2>8 DEF Applied, n
  <2>10. next[n - 1] = active' BY <2>1, <2>2, <2>6 DEF Applied, n
  <2>11. Applied(next)' BY <2>3, <2>6, <2>7, <2>9, <2>10 DEF Applied
  <2>12. (sync' = "write" /\ ~admission'.want) => sid' \in active' BY <2>2 DEF InStep
  <2> QED BY <2>4, <2>5, <2>11, <2>12 DEF InStep
<1>5. CASE Dispatch
  <2>1. /\ toClient # <<>> /\ toClient' = Tail(toClient) /\ UNCHANGED <<toServer, server, sync, sid>>
        /\ \/ Head(toClient).kind = "ok" /\ \E ids \in SUBSET Identity : Acknowledge(ids)
           \/ Head(toClient).kind # "ok"
    BY <1>5, DispatchCases
  <2>2. Head(toClient).kind = "ok"
    <3>1. Head(toClient) = toClient[1] /\ 1 \in 1..Len(toClient) BY <2>1 DEF TypeOK
    <3> QED BY <3>1 DEF InStep
  <2>3. UNCHANGED <<active, admission>> BY <2>1, <2>2 DEF Acknowledge
  <2>4. \A k \in 1..Len(toClient') : toClient'[k].kind = "ok"
    <3>1. \A k \in 1..Len(toClient') : k + 1 \in 1..Len(toClient) /\ toClient'[k] = toClient[k + 1]
      BY <2>1 DEF TypeOK
    <3> QED BY <3>1 DEF InStep
  <2>6. (sync' = "write" /\ ~admission'.want) => sid' \in active' BY <2>1, <2>3 DEF InStep
  <2>7. \E view \in [Nat -> SUBSET Identity] : Applied(view)'
    BY <2>1, <2>3 DEF InStep, Applied
  <2> QED BY <2>4, <2>6, <2>7 DEF InStep
<1>6. CASE TeardownJoin
  <2>1. toServer' = <<>> /\ toClient' = <<>> /\ server' = {} /\ active' = {} /\ sync' = "none"
    BY <1>6 DEF TeardownJoin
  <2> QED BY <2>1, EmptyInStep
<1>7. CASE UNCHANGED <<toServer, toClient, server, active>> /\ (sync' # "write" \/ SameWrite)
  BY <1>7, InStepFrame DEF InStep, SameWrite
<1> QED BY <1>1, <1>2, <1>3, <1>4, <1>5, <1>6, <1>7, WhoChanges

\* While the exchange grants every request, no write that waited for the
\* limiter reaches it out of step: it never receives a subscribe for what it
\* already streams, nor an unsubscribe for what it does not.
THEOREM NothingRedundant == ASSUME Replies \subseteq {"ok"} PROVE Spec => []NoRedundantRequest
<1>1. Init => InStep BY EmptyInStep DEF Init
<1>2. TypeOK /\ InStep => NoRedundantRequest
  <2> SUFFICES ASSUME TypeOK, InStep, toServer # <<>>
               PROVE  (Head(toServer).method = "subscribe") <=> (Head(toServer).id \notin server)
    BY DEF NoRedundantRequest
  <2>1. PICK view \in [Nat -> SUBSET Identity] : Applied(view) BY DEF InStep
  <2>2. Head(toServer) = toServer[1] /\ 1 \in 1..Len(toServer) /\ 1 - 1 = 0 BY DEF TypeOK
  <2> QED BY <2>1, <2>2 DEF Applied
<1>3. TypeOK /\ Passes /\ InStep /\ [Next]_vars => InStep' BY InStepStep
<1> QED BY <1>1, <1>2, <1>3, Typed, PTL DEF Spec

\* ... and a manager with nothing left to do, whose requests are answered,
\* receives exactly the registered identities from it.
THEOREM ServerFollows == ASSUME Replies \subseteq {"ok"} PROVE Spec => []ServerAgrees
<1>1. Init => InStep BY EmptyInStep DEF Init
<1>2. Converged /\ InStep => ServerAgrees
  BY DEF Converged, InStep, Applied, ServerAgrees
<1>3. TypeOK /\ Passes /\ InStep /\ [Next]_vars => InStep' BY InStepStep
<1> QED BY <1>1, <1>2, <1>3, Typed, NoChangeMissed, PTL DEF Spec

---------------------------------------------------------------------------
(* Pending requests, while every answer names its request.                 *)

\* Answers that name method and subscription.
Correlated == {"ok", "ackError", "error"}

\* PendingIsAnswerable, and the answers in flight name their requests.
Answerable ==
    /\ PendingIsAnswerable
    /\ \A k \in 1..Len(toClient) : toClient[k].kind \in Correlated

\* A step that leaves the wire alone and adds no request keeps it.
LEMMA AnswerFrame ==
    ASSUME Answerable, UNCHANGED <<toServer, toClient>>, pending' \subseteq pending PROVE Answerable'
BY DEF Answerable, PendingIsAnswerable

\* Every step keeps an answer in sight for every pending request.
LEMMA AnswerableStep ==
    ASSUME TypeOK, Answerable, Replies \subseteq Correlated, [Next]_vars PROVE Answerable'
<1> USE DEF clientVars, groupVars, serveVars, syncVars, netVars, vars
<1>0. Replies \subseteq Correlated OBVIOUS
<1>1. CASE SyncWrite
  <2> DEFINE method == RequestMethod(admission.want)
             request == [method |-> method, id |-> sid]
  <2>1. /\ toServer' = Append(toServer, request) /\ toClient' = toClient
        /\ pending' \subseteq pending \cup {<<method, sid>>}
    BY <1>1 DEF SyncWrite, RequestMethod
  <2>2. /\ Len(toServer') = Len(toServer) + 1 /\ toServer'[Len(toServer) + 1] = request
        /\ Len(toServer) \in Nat /\ Len(toServer) + 1 \in 1..Len(toServer')
        /\ \A k \in 1..Len(toServer) : k \in 1..Len(toServer') /\ toServer'[k] = toServer[k]
    BY <2>1 DEF TypeOK
  <2> SUFFICES ASSUME NEW p \in pending'
               PROVE  \/ \E k \in 1..Len(toServer') : toServer'[k] = [method |-> p[1], id |-> p[2]]
                      \/ \E k \in 1..Len(toClient) : toClient[k].method = p[1] /\ toClient[k].id = p[2]
    BY <2>1 DEF Answerable, PendingIsAnswerable
  <2>3. CASE p \in pending BY <2>2, <2>3 DEF Answerable, PendingIsAnswerable
  <2>4. CASE p = <<method, sid>>
    <3>1. [method |-> p[1], id |-> p[2]] = request BY <2>4
    <3> QED BY <2>2, <3>1
  <2> QED BY <2>1, <2>3, <2>4
<1>2. ASSUME NEW kind \in {"ok"} \cup Replies, ServerReply(kind) PROVE Answerable'
  <2> DEFINE request == Head(toServer)
             reply == [method |-> request.method, id |-> request.id, kind |-> kind]
             n == Len(toClient) + 1
  <2>1. /\ toServer # <<>> /\ toServer' = Tail(toServer) /\ toClient' = Append(toClient, reply) /\ pending' = pending
    BY <1>2 DEF ServerReply
  <2>2. /\ n \in 1..Len(toClient') /\ Len(toClient') = n /\ toClient'[n] = reply /\ Len(toClient) \in Nat
        /\ \A k \in 1..Len(toClient) : k \in 1..Len(toClient') /\ toClient'[k] = toClient[k]
    BY <2>1 DEF TypeOK
  <2>3. \A k \in 1..Len(toServer) : \/ k = 1 /\ toServer[k] = request
                                    \/ k - 1 \in 1..Len(toServer') /\ toServer'[k - 1] = toServer[k]
    BY <2>1 DEF TypeOK
  <2>4. kind \in Correlated BY <1>0 DEF Correlated
  <2>5. \A k \in 1..Len(toClient') : toClient'[k].kind \in Correlated
    <3>1. \A k \in 1..Len(toClient') : k = n \/ k \in 1..Len(toClient) BY <2>2
    <3>2. reply.kind = kind OBVIOUS
    <3> HIDE DEF n, reply
    <3> QED BY <2>2, <2>4, <3>1, <3>2 DEF Answerable
  <2>6. reply.method = request.method /\ reply.id = request.id OBVIOUS
  <2> HIDE DEF reply, request, n
  <2>7. ASSUME NEW p \in pending
        PROVE  \/ \E k \in 1..Len(toServer') : toServer'[k] = [method |-> p[1], id |-> p[2]]
               \/ \E k \in 1..Len(toClient') : toClient'[k].method = p[1] /\ toClient'[k].id = p[2]
    <3>1. CASE \E k \in 1..Len(toClient) : toClient[k].method = p[1] /\ toClient[k].id = p[2]
      BY <2>2, <3>1
    <3>2. CASE \E k \in 1..Len(toServer) : toServer[k] = [method |-> p[1], id |-> p[2]]
      <4>1. PICK k \in 1..Len(toServer) : toServer[k] = [method |-> p[1], id |-> p[2]] BY <3>2
      <4>2. CASE k - 1 \in 1..Len(toServer') /\ toServer'[k - 1] = toServer[k] BY <4>1, <4>2
      <4>3. CASE toServer[k] = request
        <5>1. reply.method = p[1] /\ reply.id = p[2] BY <2>6, <4>1, <4>3
        <5> QED BY <2>2, <5>1
      <4> QED BY <2>3, <4>2, <4>3
    <3> QED BY <3>1, <3>2 DEF Answerable, PendingIsAnswerable
  <2> QED BY <2>1, <2>5, <2>7 DEF Answerable, PendingIsAnswerable
<1>3. CASE Dispatch
  <2> DEFINE reply == Head(toClient)
  <2>1. toClient # <<>> /\ toClient' = Tail(toClient) /\ toServer' = toServer BY <1>3, DispatchCases
  <2>2. /\ reply = toClient[1] /\ 1 \in 1..Len(toClient)
        /\ \A k \in 1..Len(toClient) : \/ k = 1
                                       \/ k - 1 \in 1..Len(toClient') /\ toClient'[k - 1] = toClient[k]
        /\ \A k \in 1..Len(toClient') : k + 1 \in 1..Len(toClient) /\ toClient'[k] = toClient[k + 1]
    BY <2>1 DEF TypeOK
  <2>3. reply.kind \in Correlated BY <2>2 DEF Answerable
  <2>4. pending' \subseteq pending \ {<<reply.method, reply.id>>}
    <3>1. Answered(reply) = pending \cap {<<reply.method, reply.id>>} BY <2>3 DEF Answered, Correlated
    <3>2. pending' \subseteq pending \ Answered(reply) BY <1>3 DEF Dispatch
    <3> QED BY <3>1, <3>2
  <2> HIDE DEF reply
  <2>5. ASSUME NEW p \in pending'
        PROVE  \/ \E k \in 1..Len(toServer') : toServer'[k] = [method |-> p[1], id |-> p[2]]
               \/ \E k \in 1..Len(toClient') : toClient'[k].method = p[1] /\ toClient'[k].id = p[2]
    <3>1. p \in pending /\ p # <<reply.method, reply.id>> /\ p = <<p[1], p[2]>> BY <2>4 DEF TypeOK
    <3>2. CASE \E k \in 1..Len(toServer) : toServer[k] = [method |-> p[1], id |-> p[2]]
      BY <2>1, <3>2
    <3>3. CASE \E k \in 1..Len(toClient) : toClient[k].method = p[1] /\ toClient[k].id = p[2]
      <4>1. PICK k \in 1..Len(toClient) : toClient[k].method = p[1] /\ toClient[k].id = p[2] BY <3>3
      <4>2. k # 1 BY <2>2, <3>1, <4>1
      <4>3. k - 1 \in 1..Len(toClient') /\ toClient'[k - 1] = toClient[k] BY <2>2, <4>2
      <4> QED BY <4>1, <4>3
    <3> QED BY <3>1, <3>2, <3>3 DEF Answerable, PendingIsAnswerable
  <2>6. \A k \in 1..Len(toClient') : toClient'[k].kind \in Correlated BY <2>2 DEF Answerable
  <2> QED BY <2>5, <2>6 DEF Answerable, PendingIsAnswerable
<1>4. CASE TeardownJoin
  <2>1. pending' = {} /\ toClient' = <<>> BY <1>4 DEF TeardownJoin
  <2> QED BY <2>1 DEF Answerable, PendingIsAnswerable
<1>5. CASE UNCHANGED <<toServer, toClient>> /\ pending' \subseteq pending BY <1>5, AnswerFrame
<1> QED BY <1>1, <1>2, <1>3, <1>4, <1>5, WhoChanges

\* While every answer names its request, the acknowledgement timer never
\* tears down a connection on which every request was answered, whatever is
\* granted, rejected, cancelled or subscribed again meanwhile.
THEOREM AnswersExpected == ASSUME Replies \subseteq Correlated PROVE Spec => []PendingIsAnswerable
<1>1. Init => Answerable BY DEF Init, Answerable, PendingIsAnswerable
<1>2. Answerable => PendingIsAnswerable BY DEF Answerable
<1>3. TypeOK /\ Answerable /\ [Next]_vars => Answerable' BY AnswerableStep
<1> QED BY <1>1, <1>2, <1>3, TypeCorrect, PTL DEF Spec
===========================================================================
