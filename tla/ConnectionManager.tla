------------------------- MODULE ConnectionManager -------------------------
(***************************************************************************)
(* The shared subscription connection: connectionManager and the registry  *)
(* half of Client (websocket/manager.go, client.go, subscribeStream).      *)
(*                                                                         *)
(* Processes: the manager goroutine (run, dial, serve), the synchronizer   *)
(* goroutine it starts (syncSubscriptions, writeJSON), the watcher of a    *)
(* dial, application goroutines (Subscribe, Close, Client.Close) and the   *)
(* exchange at the other end of the socket.  A handle is one logical       *)
(* subscription object; handles with one key replace each other in the     *)
(* registry, handles with one identity share one wire subscription.        *)
(*                                                                         *)
(* Atomicity: a section under commitMu or protocolMu is one step, except   *)
(* registration, which publishes the handle, releases client.mu and only   *)
(* then announces it, still under commitMu: publishing names that handle.  *)
(* Deadlines and delays are not measured; a timeout may fire whenever the  *)
(* code has armed it.                                                      *)
(***************************************************************************)
EXTENDS Integers, Sequences, FiniteSets

CONSTANTS
    Handle,         \* subscription objects, each created at most once
    KeyOf,          \* [Handle -> registry key]
    IdentityOf,     \* [Handle -> normalised server identity]
    WireOf,         \* [Handle -> wire form the handle alone would send]
    Canonical,      \* wire form sent for several handles of one identity
    Replies,        \* how the exchange may answer, besides "ok"
    MaxFaults       \* bound: network failures, timeouts and bad frames

Identity == {IdentityOf[h] : h \in Handle}
Method   == {"subscribe", "unsubscribe"}
Wire     == {WireOf[h] : h \in Handle} \cup {Canonical}

\* "ok" and "ackError" are subscriptionResponse frames; the others are frames
\* on the error channel: naming the request, naming only the subscription, or
\* naming nothing.
ReplyKind == {"ok", "ackError", "error", "errorNoMethod", "errorAnonymous"}

NoHandle == "noHandle"
NoIdentity == "noIdentity"

ASSUME ManagerAssumption ==
    /\ NoHandle \notin Handle /\ NoIdentity \notin Identity
    /\ Replies \subseteq ReplyKind
    /\ MaxFaults \in Nat

VARIABLES
    \* Client and handles
    subs,        \* registry: handles in client.subs
    life,        \* per handle: fresh, open, closing (done closed), ended
    last,        \* per handle: lastState
    publishing,  \* handle whose registration holds commitMu, or NoHandle
    client,      \* open, closing, cancelled, closed
    closeSet,    \* handles Client.Close snapshotted
    \* connectionManager
    wake,        \* the one-slot wake channel
    mgr,         \* where run() is
    watcher,     \* dial watcher: none, watching, stray (dial has returned)
    cancelled,   \* the dial's or the generation's context is cancelled
    \* one generation: state local to serve
    active,      \* keys of the subscribed map
    members,     \* members of each active group
    acked,       \* acked flag of each active group
    pending,     \* unanswered requests, as <<method, identity>>
    syncRunning, syncAgain,
    \* the synchronizer
    sync,        \* none, active, join, subscribe, write, ok, failed
    cur,         \* its registry snapshot, as a set of handles
    todo,        \* identities its current loop has still to visit
    sid,         \* identity it is working on
    sawAcked,    \* acked as read before joining new members
    admission,   \* the registered wireAdmission [want, wire, stale]
    \* the socket and the exchange
    up,          \* the socket of this generation is usable
    toServer,    \* requests in flight, oldest first
    toClient,    \* replies in flight, oldest first
    server,      \* identities the exchange streams on this connection
    faults,      \* faults so far
    stolen       \* history: a stray watcher consumed a wake

clientVars == <<subs, life, last, publishing, client, closeSet>>
groupVars  == <<active, members, acked, pending>>
serveVars  == <<groupVars, syncRunning, syncAgain>>
syncVars   == <<sync, cur, todo, sid, sawAcked, admission>>
netVars    == <<up, toServer, toClient, server>>
vars == <<clientVars, wake, mgr, watcher, cancelled, serveVars, syncVars,
          netVars, faults, stolen>>

NoAdmission == [want |-> FALSE, wire |-> Canonical, stale |-> FALSE]

TypeOK ==
    /\ subs \subseteq Handle
    /\ life \in [Handle -> {"fresh", "open", "closing", "ended"}]
    /\ last \in [Handle -> {"none", "connecting", "connected", "subscribed",
                            "reconnecting", "error", "unsubscribed"}]
    /\ publishing \in Handle \cup {NoHandle}
    /\ client \in {"open", "closing", "cancelled", "closed"}
    /\ closeSet \subseteq Handle
    /\ wake \in BOOLEAN
    /\ mgr \in {"waitSubs", "parked", "dialing", "serving", "teardown",
                "joining", "reconnecting", "stopped"}
    /\ watcher \in {"none", "watching", "stray"}
    /\ cancelled \in BOOLEAN
    /\ active \subseteq Identity
    /\ members \in [Identity -> SUBSET Handle]
    /\ acked \in [Identity -> BOOLEAN]
    /\ pending \subseteq Method \X Identity
    /\ syncRunning \in BOOLEAN /\ syncAgain \in BOOLEAN
    /\ sync \in {"none", "start", "active", "join", "subscribe", "write", "ok", "failed"}
    /\ cur \subseteq Handle /\ todo \subseteq Identity
    /\ sid \in Identity \cup {NoIdentity} /\ sawAcked \in BOOLEAN
    /\ admission \in [want : BOOLEAN, wire : Wire, stale : BOOLEAN]
    /\ up \in BOOLEAN
    /\ toServer \in Seq([method : Method, id : Identity])
    /\ toClient \in Seq([method : Method, id : Identity, kind : ReplyKind])
    /\ server \subseteq Identity
    /\ faults \in 0..MaxFaults /\ stolen \in BOOLEAN

Init ==
    /\ subs = {} /\ publishing = NoHandle /\ client = "open" /\ closeSet = {}
    /\ life = [h \in Handle |-> "fresh"] /\ last = [h \in Handle |-> "none"]
    /\ wake = FALSE /\ mgr = "waitSubs" /\ watcher = "none" /\ cancelled = FALSE
    /\ active = {} /\ pending = {}
    /\ members = [i \in Identity |-> {}] /\ acked = [i \in Identity |-> FALSE]
    /\ syncRunning = FALSE /\ syncAgain = FALSE
    /\ sync = "none" /\ cur = {} /\ todo = {} /\ sid = NoIdentity
    /\ sawAcked = FALSE /\ admission = NoAdmission
    /\ up = FALSE /\ toServer = <<>> /\ toClient = <<>> /\ server = {}
    /\ faults = 0 /\ stolen = FALSE

---------------------------------------------------------------------------
(* Helpers of the source.                                                  *)

CommitFree == publishing = NoHandle                \* commitMu

\* Fault: the end of the client is only seen once Close has returned.
DoneWhenClosed == client = "closed"

Done == client # "open"                            \* m.done is closed

OfIdentity(set, i) == {h \in set : IdentityOf[h] = i}
Registered == {IdentityOf[h] : h \in subs}

\* subscriptionIdentityStateLocked: one handle sends its own wire form, more
\* than one the canonical form.
Fingerprint(handles) ==
    IF Cardinality(handles) = 1 THEN WireOf[CHOOSE h \in handles : TRUE]
                                ELSE Canonical

\* Fault: the wake-up is forgotten.
NotifyNobody == UNCHANGED wake

\* notify: fill the one-slot wake channel.
Notify == wake' = TRUE

\* stateChange on a set of handles: nothing happens to one that is done.
States(old, handles, state) ==
    [h \in Handle |-> IF h \in handles /\ life[h] = "open" THEN state ELSE old[h]]

\* registryChangedLocked(identity, present, fingerprint): a waiting write
\* that no longer fits the registry is cancelled as stale.
Invalidate(i, registry) ==
    LET handles == OfIdentity(registry, i)
        present == handles # {}
    IN admission' =
         IF /\ sync = "write" /\ sid = i
            /\ \/ admission.want # present
               \/ present /\ admission.want
                          /\ admission.wire # Fingerprint(handles)
         THEN [admission EXCEPT !.stale = TRUE] ELSE admission

---------------------------------------------------------------------------
(* The application: Subscribe*, Close and Client.Close.                    *)

\* subscribeStream and SubscribeL2Book up to the release of client.mu.  A
\* registered handle with the same key would be returned instead.
SubscribePublish(h) ==
    /\ life[h] = "fresh" /\ client = "open" /\ CommitFree
    /\ \A g \in subs : KeyOf[g] # KeyOf[h]
    /\ subs' = subs \cup {h}
    /\ life' = [life EXCEPT ![h] = "open"]
    /\ publishing' = h
    /\ UNCHANGED <<last, client, closeSet, wake, mgr, watcher, cancelled,
                   serveVars, syncVars, netVars, faults, stolen>>

\* ... the connecting state, registryChangedLocked, commitMu released.
SubscribeAnnounce ==
    /\ publishing # NoHandle
    /\ last' = States(last, {publishing}, "connecting")
    /\ Invalidate(IdentityOf[publishing], subs)
    /\ Notify /\ publishing' = NoHandle
    /\ UNCHANGED <<subs, life, client, closeSet, mgr, watcher, cancelled,
                   serveVars, sync, cur, todo, sid, sawAcked, netVars,
                   faults, stolen>>

\* Close enters once.Do: done is closed before the registry is touched.  The
\* application owns the handle only after its registration returned.
CloseBegin(h) ==
    /\ life[h] = "open" /\ publishing # h
    /\ life' = [life EXCEPT ![h] = "closing"]
    /\ UNCHANGED <<subs, last, publishing, client, closeSet, wake, mgr,
                   watcher, cancelled, serveVars, syncVars, netVars, faults,
                   stolen>>

\* client.remove and the terminal state.  A handle that a rejection already
\* detached only notifies.
CloseRemove(h) ==
    /\ life[h] = "closing" /\ CommitFree
    /\ subs' = subs \ {h}
    /\ IF h \in subs THEN Invalidate(IdentityOf[h], subs') ELSE UNCHANGED admission
    /\ Notify
    /\ life' = [life EXCEPT ![h] = "ended"]
    /\ last' = [last EXCEPT ![h] = "unsubscribed"]
    /\ UNCHANGED <<publishing, client, closeSet, mgr, watcher, cancelled,
                   serveVars, sync, cur, todo, sid, sawAcked, netVars,
                   faults, stolen>>

\* Client.Close: closed, the snapshot of the registry, and beginClose up to
\* the close of the active socket, before it asks for commitMu.
ClientCloseBegin ==
    /\ client = "open"
    /\ client' = "closing" /\ closeSet' = subs
    /\ up' = FALSE
    /\ UNCHANGED <<subs, life, last, publishing, wake, mgr, watcher,
                   cancelled, serveVars, syncVars, toServer, toClient, server,
                   faults, stolen>>

\* ... beginClose cancels the manager's context under commitMu.
ClientCloseCancel ==
    /\ client = "closing" /\ CommitFree
    /\ client' = "cancelled" /\ cancelled' = TRUE
    /\ UNCHANGED <<subs, life, last, publishing, closeSet, wake, mgr, watcher,
                   serveVars, syncVars, netVars, faults, stolen>>

\* Fault: Client.Close does not join the manager goroutine.
ClientCloseWithoutJoin ==
    /\ client = "cancelled"
    /\ \A h \in closeSet : life[h] = "ended"
    /\ client' = "closed"
    /\ UNCHANGED <<subs, life, last, publishing, closeSet, wake, mgr, watcher,
                   cancelled, serveVars, syncVars, netVars, faults, stolen>>

\* ... every snapshotted handle has been closed (CloseBegin, CloseRemove) and
\* the manager goroutine has been joined.
ClientCloseJoin ==
    /\ client = "cancelled" /\ mgr = "stopped"
    /\ \A h \in closeSet : life[h] = "ended"
    /\ client' = "closed"
    /\ UNCHANGED <<subs, life, last, publishing, closeSet, wake, mgr, watcher,
                   cancelled, serveVars, syncVars, netVars, faults, stolen>>
---------------------------------------------------------------------------
(* run, waitForSubscriptions, dial and waitReconnect.                      *)

\* Fault: the handles are not told of a connection-wide change.
StateAllSilent(state) == UNCHANGED last

\* reportAll leaves the error state on every registered handle, stateAll the
\* given one.
StateAll(state) == last' = States(last, subs, state)

\* Subscriptions exist: the registration wake is drained under commitMu, the
\* handles become connecting and the dial starts with its watcher.
StartDial ==
    /\ mgr = "waitSubs" /\ ~Done /\ CommitFree /\ subs # {}
    /\ wake' = FALSE
    /\ StateAll("connecting")
    /\ mgr' = "dialing" /\ watcher' = "watching" /\ cancelled' = FALSE
    /\ UNCHANGED <<subs, life, publishing, client, closeSet, serveVars,
                   syncVars, netVars, faults, stolen>>

\* No subscription under commitMu: wait for a wake.
Park ==
    /\ mgr = "waitSubs" /\ ~Done /\ CommitFree /\ subs = {}
    /\ mgr' = "parked"
    /\ UNCHANGED <<clientVars, wake, watcher, cancelled, serveVars, syncVars,
                   netVars, faults, stolen>>

Unpark ==
    /\ mgr = "parked" /\ wake
    /\ wake' = FALSE /\ mgr' = "waitSubs"
    /\ UNCHANGED <<clientVars, watcher, cancelled, serveVars, syncVars,
                   netVars, faults, stolen>>

\* Every wait of run() also watches m.done.
Stop ==
    /\ mgr \in {"waitSubs", "parked", "reconnecting"} /\ Done
    /\ mgr' = "stopped"
    /\ UNCHANGED <<clientVars, wake, watcher, cancelled, serveVars, syncVars,
                   netVars, faults, stolen>>

\* The watcher consumes a wake during the dial and cancels the dial when the
\* last subscription is gone, or when the client closes.
WatchDial ==
    /\ watcher = "watching" /\ (wake \/ Done)
    /\ wake' \in (IF Done THEN {wake, FALSE} ELSE {FALSE})
    /\ IF subs = {} \/ (Done /\ wake' = wake)
         THEN cancelled' = TRUE /\ watcher' = "none"
         ELSE UNCHANGED <<cancelled, watcher>>
    /\ UNCHANGED <<clientVars, mgr, serveVars, syncVars, netVars, faults,
                   stolen>>

\* The dial has returned and cancelled the watcher's context.  A watcher
\* parked in its select leaves; one that was running when the dial returned
\* finds its context and possibly a wake ready, and select takes either.
WatcherAfterDial ==
    watcher' \in (IF watcher = "watching" THEN {"none", "stray"} ELSE {"none"})

StrayTakesWake ==
    /\ watcher = "stray" /\ wake
    /\ wake' = FALSE /\ stolen' = TRUE
    /\ watcher' = (IF subs = {} THEN "none" ELSE "stray")
    /\ UNCHANGED <<clientVars, mgr, cancelled, serveVars, syncVars, netVars,
                   faults>>

StrayExits ==
    /\ watcher = "stray" /\ watcher' = "none"
    /\ UNCHANGED <<clientVars, wake, mgr, cancelled, serveVars, syncVars,
                   netVars, faults, stolen>>

\* The dial fails, by a fault or because it was cancelled: reportAll, then
\* the reconnecting state.
DialFails ==
    /\ mgr = "dialing"
    /\ IF cancelled THEN UNCHANGED faults
                    ELSE faults < MaxFaults /\ faults' = faults + 1
    /\ StateAll("reconnecting")
    /\ mgr' = "reconnecting" /\ WatcherAfterDial
    /\ UNCHANGED <<subs, life, publishing, client, closeSet, wake, cancelled,
                   serveVars, syncVars, netVars, stolen>>

\* The dial succeeds.  activateConnection refuses the socket of a closing
\* client; otherwise serve starts a generation and its first synchronizer.
DialSucceeds ==
    /\ mgr = "dialing" /\ WatcherAfterDial
    /\ IF Done
         THEN /\ mgr' = "reconnecting" /\ StateAll("reconnecting")
              /\ UNCHANGED <<cancelled, syncRunning, sync, up>>
         ELSE /\ mgr' = "serving" /\ up' = TRUE /\ cancelled' = FALSE
              /\ syncRunning' = TRUE /\ sync' = "start"
              /\ UNCHANGED last
    /\ UNCHANGED <<subs, life, publishing, client, closeSet, wake, groupVars,
                   syncAgain, cur, todo, sid, sawAcked, admission, toServer,
                   toClient, server, faults, stolen>>

\* waitReconnect: a registry change ends the delay early, ...
ReconnectWoken ==
    /\ mgr = "reconnecting" /\ ~Done /\ wake
    /\ wake' = FALSE /\ mgr' = "waitSubs"
    /\ UNCHANGED <<clientVars, watcher, cancelled, serveVars, syncVars,
                   netVars, faults, stolen>>

\* ... or it elapses, or there was no subscription to wait for.
ReconnectElapsed ==
    /\ mgr = "reconnecting" /\ ~Done
    /\ mgr' = "waitSubs"
    /\ UNCHANGED <<clientVars, wake, watcher, cancelled, serveVars, syncVars,
                   netVars, faults, stolen>>

---------------------------------------------------------------------------
(* serve: the event loop of one generation.                                *)

\* With nothing registered, pending or synchronizing the generation ends.
LeaveIfIdle ==
    mgr' = IF ~syncRunning' /\ subs' = {} /\ pending' = {} THEN "teardown" ELSE mgr

\* Fault: a wake during a pass is consumed without asking for another pass.
ServeWakeForgets ==
    /\ mgr = "serving" /\ wake
    /\ wake' = FALSE
    /\ syncRunning' = TRUE
    /\ sync' = (IF syncRunning THEN sync ELSE "start")
    /\ UNCHANGED <<clientVars, mgr, watcher, cancelled, groupVars, syncAgain,
                   cur, todo, sid, sawAcked, admission, netVars, faults,
                   stolen>>

ServeWake ==
    /\ mgr = "serving" /\ wake
    /\ wake' = FALSE
    /\ syncRunning' = TRUE /\ syncAgain' = syncRunning
    /\ sync' = (IF syncRunning THEN sync ELSE "start")
    /\ UNCHANGED <<clientVars, mgr, watcher, cancelled, groupVars, cur, todo,
                   sid, sawAcked, admission, netVars, faults, stolen>>

\* The synchronizer's result: a failure ends the generation, a change seen
\* meanwhile starts another pass.
ServeSyncResult ==
    /\ mgr = "serving" /\ sync \in {"ok", "failed"}
    /\ syncRunning' = (sync = "ok" /\ syncAgain)
    /\ syncAgain' = FALSE
    /\ sync' = (IF syncRunning' THEN "start" ELSE "none")
    /\ UNCHANGED <<clientVars, wake, watcher, cancelled, groupVars, cur, todo,
                   sid, sawAcked, admission, netVars, faults, stolen>>
    /\ IF sync = "failed" THEN mgr' = "teardown" ELSE LeaveIfIdle

ServeDone ==
    /\ mgr = "serving" /\ Done
    /\ mgr' = "teardown"
    /\ UNCHANGED <<clientVars, wake, watcher, cancelled, serveVars, syncVars,
                   netVars, faults, stolen>>

\* A read error, a failed heartbeat, a missed PongWait or a malformed
\* subscriptionResponse: report to every handle and leave.
ServeConnectionLost ==
    /\ mgr = "serving"
    /\ IF up THEN faults < MaxFaults /\ faults' = faults + 1
             ELSE UNCHANGED faults
    /\ StateAll("error")
    /\ mgr' = "teardown"
    /\ UNCHANGED <<subs, life, publishing, client, closeSet, wake, watcher,
                   cancelled, serveVars, syncVars, netVars, stolen>>

\* dispatch of a frame that fits no known shape: reported, the loop goes on.
ServeUnexpected ==
    /\ mgr = "serving" /\ up /\ faults < MaxFaults
    /\ faults' = faults + 1
    /\ StateAll("error")
    /\ UNCHANGED <<subs, life, publishing, client, closeSet, wake, watcher,
                   cancelled, serveVars, syncVars, netVars, stolen>>
    /\ LeaveIfIdle

\* failExpiredAcknowledgement: overdue requests are dropped, overdue
\* subscribes reported, and the generation ends.
ServeAckTimeout(overdue) ==
    /\ mgr = "serving" /\ faults < MaxFaults
    /\ overdue # {}
    /\ faults' = faults + 1
    /\ pending' = pending \ overdue
    /\ last' = States(last, {h \in subs : <<"subscribe", IdentityOf[h]>> \in overdue},
                      "error")
    /\ mgr' = "teardown"
    /\ UNCHANGED <<subs, life, publishing, client, closeSet, wake, watcher,
                   cancelled, active, members, acked, syncRunning, syncAgain,
                   syncVars, netVars, stolen>>
---------------------------------------------------------------------------
(* dispatch: what an acknowledgement or an error frame does.               *)

\* Fault: acknowledgements are matched by subscription only.
AnsweredIgnoresMethod(reply) == pending \cap {<<"subscribe", reply.id>>}

\* The pending requests a reply answers.  A subscriptionResponse and a
\* correlated error name method and subscription; an error naming only the
\* subscription must fit a single request; an anonymous error stands for
\* every pending subscribe.
Answered(reply) ==
    CASE reply.kind \in {"ok", "ackError", "error"} ->
           pending \cap {<<reply.method, reply.id>>}
      [] reply.kind = "errorNoMethod" ->
           LET fits == {p \in pending : p[2] = reply.id}
           IN IF Cardinality(fits) = 1 THEN fits ELSE {}
      [] reply.kind = "errorAnonymous" ->
           {p \in pending : p[1] = "subscribe"}

\* Which identities the reply rejects.  An error inside a subscriptionResponse
\* rejects the identity whatever the method was; an error frame only when the
\* request was a subscribe.
Rejected(reply) ==
    {p[2] : p \in {q \in Answered(reply) :
                     \/ reply.kind = "ackError"
                     \/ reply.kind # "ok" /\ q[1] = "subscribe"}}

\* detachSubscriptionIdentity takes the identity's handles out of the
\* registry; rejectWireSubscription terminates them together with the group's
\* members whose key was not among them.
Detached(ids) == {h \in subs : IdentityOf[h] \in ids}
\* Fault: only members of the wire group are terminated.
TerminatedMembersOnly(ids) ==
    {h \in UNION {members[i] : i \in ids \cap active} : h \notin Detached(ids)}

Terminated(ids) ==
    Detached(ids) \cup
    {h \in UNION {members[i] : i \in ids \cap active} :
        KeyOf[h] \notin {KeyOf[g] : g \in OfIdentity(Detached(ids), IdentityOf[h])}}

\* rejectWireSubscription for every rejected identity, then terminate.  A
\* handle that is already closing keeps its own ending.
Reject(ids) ==
    LET victims == {h \in Terminated(ids) : life[h] = "open"} IN
    /\ subs' = subs \ Detached(ids)
    /\ life' = [h \in Handle |-> IF h \in victims THEN "ended" ELSE life[h]]
    /\ last' = [h \in Handle |-> IF h \in victims THEN "error" ELSE last[h]]
    /\ wake' = (wake \/ Detached(ids) # {} \/ victims # {})
    /\ active' = active \ ids
    /\ members' = [i \in Identity |-> IF i \in ids THEN {} ELSE members[i]]
    /\ acked' = [i \in Identity |-> i \notin ids /\ acked[i]]
    /\ admission' = IF /\ sync = "write" /\ admission.want
                       /\ sid \in {IdentityOf[h] : h \in Detached(ids)}
                      THEN [admission EXCEPT !.stale = TRUE] ELSE admission

\* acknowledgeSubscription on success: the group's members are subscribed.
Acknowledge(ids) ==
    LET groups == ids \cap active IN
    /\ acked' = [i \in Identity |-> i \in groups \/ acked[i]]
    /\ last' = States(last, UNION {members[i] : i \in groups}, "subscribed")
    /\ UNCHANGED <<subs, life, wake, active, members, admission>>

Dispatch ==
    /\ mgr = "serving" /\ toClient # <<>>
    /\ LET reply    == Head(toClient)
           answered == Answered(reply)
           ids      == Rejected(reply)
       IN /\ pending' = (pending \ answered) \ ({"subscribe"} \X ids)
          /\ IF reply.kind = "ok"
               THEN Acknowledge({p[2] : p \in {q \in answered : q[1] = "subscribe"}})
               ELSE (ids # {} => CommitFree) /\ Reject(ids)
    /\ toClient' = Tail(toClient)
    /\ UNCHANGED <<publishing, client, closeSet, watcher, cancelled,
                   syncRunning, syncAgain, sync, cur, todo, sid, sawAcked, up,
                   toServer, server, faults, stolen>>
    /\ LeaveIfIdle

\* serve's deferred teardown closes the socket, cancels the generation under
\* commitMu ...
TeardownCancel ==
    /\ mgr = "teardown" /\ CommitFree
    /\ up' = FALSE /\ cancelled' = TRUE /\ mgr' = "joining"
    /\ UNCHANGED <<clientVars, wake, watcher, serveVars, syncVars, toServer,
                   toClient, server, faults, stolen>>

\* ... and joins the synchronizer; run() marks the handles reconnecting.  The
\* maps and queues of the generation are garbage from here on.
TeardownJoin ==
    /\ mgr = "joining" /\ sync \in {"none", "ok", "failed"}
    /\ StateAll("reconnecting")
    /\ mgr' = "reconnecting"
    /\ sync' = "none" /\ syncRunning' = FALSE /\ syncAgain' = FALSE
    /\ active' = {} /\ pending' = {}
    /\ members' = [i \in Identity |-> {}] /\ acked' = [i \in Identity |-> FALSE]
    /\ toServer' = <<>> /\ toClient' = <<>> /\ server' = {}
    /\ UNCHANGED <<subs, life, publishing, client, closeSet, wake, watcher,
                   cancelled, cur, todo, sid, sawAcked, admission, up, faults,
                   stolen>>
---------------------------------------------------------------------------
(* syncSubscriptions and writeJSON.                                        *)

\* The registry snapshot and the identities active on the wire.
SyncStart ==
    /\ sync = "start"
    /\ sync' = "active" /\ cur' = subs /\ todo' = active
    /\ UNCHANGED <<clientVars, wake, mgr, watcher, cancelled, serveVars, sid,
                   sawAcked, admission, netVars, faults, stolen>>

\* registerWireAdmission: the wait starts stale if the registry has already
\* moved on.
RegisterAdmission(i, want, wire) ==
    /\ sid' = i /\ sync' = "write"
    /\ admission' = [want |-> want, wire |-> wire,
                     stale |-> \/ want # (i \in Registered)
                               \/ want /\ Fingerprint(OfIdentity(subs, i)) # wire]

\* First loop: an active identity still wanted is read, to be joined in a
\* later step; one no longer wanted asks to write an unsubscribe.
SyncVisitActive(i) ==
    /\ sync = "active" /\ i \in todo
    /\ todo' = todo \ {i}
    /\ CASE i \notin active -> UNCHANGED <<sync, sid, sawAcked, admission>>
         [] i \in active /\ OfIdentity(cur, i) # {} ->
              /\ sync' = "join" /\ sid' = i /\ sawAcked' = acked[i]
              /\ UNCHANGED admission
         [] OTHER -> RegisterAdmission(i, FALSE, Canonical) /\ UNCHANGED sawAcked
    /\ UNCHANGED <<clientVars, wake, mgr, watcher, cancelled, serveVars, cur,
                   netVars, faults, stolen>>

\* New members learn the state read before; the group takes them over if it
\* is still active.
SyncJoin ==
    /\ sync = "join"
    /\ LET group == OfIdentity(cur, sid) IN
       /\ last' = States(last, group \ members[sid],
                         IF sawAcked THEN "subscribed" ELSE "connected")
       /\ members' = IF sid \in active THEN [members EXCEPT ![sid] = group]
                                       ELSE members
    /\ sync' = "active" /\ sid' = NoIdentity /\ sawAcked' = FALSE
    /\ UNCHANGED <<subs, life, publishing, client, closeSet, wake, mgr,
                   watcher, cancelled, active, acked, pending, syncRunning,
                   syncAgain, cur, todo, admission, netVars, faults, stolen>>

SyncActiveDone ==
    /\ sync = "active" /\ todo = {}
    /\ sync' = "subscribe" /\ todo' = {IdentityOf[h] : h \in cur}
    /\ UNCHANGED <<clientVars, wake, mgr, watcher, cancelled, serveVars, cur,
                   sid, sawAcked, admission, netVars, faults, stolen>>

\* Fault: the second loop does not skip active identities.
SyncVisitWantedAgain(i) ==
    /\ sync = "subscribe" /\ i \in todo
    /\ todo' = todo \ {i}
    /\ last' = States(last, OfIdentity(cur, i), "connected")
    /\ RegisterAdmission(i, TRUE, Fingerprint(OfIdentity(cur, i)))
    /\ UNCHANGED <<subs, life, publishing, client, closeSet, wake, mgr,
                   watcher, cancelled, serveVars, cur, sawAcked, netVars,
                   faults, stolen>>

\* Second loop: a wanted identity not yet active asks to write a subscribe.
SyncVisitWanted(i) ==
    /\ sync = "subscribe" /\ i \in todo
    /\ todo' = todo \ {i}
    /\ IF i \in active
         THEN UNCHANGED <<last, sync, sid, admission>>
         ELSE /\ last' = States(last, OfIdentity(cur, i), "connected")
              /\ RegisterAdmission(i, TRUE, Fingerprint(OfIdentity(cur, i)))
    /\ UNCHANGED <<subs, life, publishing, client, closeSet, wake, mgr,
                   watcher, cancelled, serveVars, cur, sawAcked, netVars,
                   faults, stolen>>

\* The loop a write belongs to goes on after it.
EndWrite ==
    /\ sync' = (IF admission.want THEN "subscribe" ELSE "active")
    /\ sid' = NoIdentity /\ admission' = NoAdmission

\* The registry still asks for what the waiting write would send.
AdmissionCurrent ==
    /\ admission.want = (sid \in Registered)
    /\ admission.want => Fingerprint(OfIdentity(subs, sid)) = admission.wire

\* Fault: both loops write a subscribe message.
RequestMethodConstant(want) == "subscribe"

RequestMethod(want) == IF want THEN "subscribe" ELSE "unsubscribe"

\* writeJSON past the limiter, under write, protocolMu and commitMu: the
\* final checks, the socket write and written().
SyncWrite ==
    /\ sync = "write" /\ CommitFree /\ up
    /\ ~admission.stale /\ ~cancelled /\ AdmissionCurrent
    /\ toServer' = Append(toServer,
         [method |-> RequestMethod(admission.want), id |-> sid])
    /\ acked' = [acked EXCEPT ![sid] = FALSE]
    /\ IF admission.want
         THEN /\ active' = active \cup {sid}
              /\ members' = [members EXCEPT ![sid] = OfIdentity(cur, sid)]
              /\ pending' = pending \cup {<<"subscribe", sid>>}
         ELSE /\ active' = active \ {sid}
              /\ members' = [members EXCEPT ![sid] = {}]
              /\ pending' = (pending \ {<<"subscribe", sid>>})
                               \cup {<<"unsubscribe", sid>>}
    /\ EndWrite
    /\ UNCHANGED <<clientVars, wake, mgr, watcher, cancelled, syncRunning,
                   syncAgain, cur, todo, sawAcked, up, toClient, server,
                   faults, stolen>>

\* A stale admission writes nothing and the pass goes on.
SyncSkip ==
    /\ sync = "write"
    /\ admission.stale \/ (CommitFree /\ ~cancelled /\ ~AdmissionCurrent)
    /\ EndWrite
    /\ UNCHANGED <<clientVars, wake, mgr, watcher, cancelled, serveVars, cur,
                   todo, sawAcked, netVars, faults, stolen>>

\* The generation was cancelled, or the socket write fails and is reported.
SyncFails ==
    /\ sync = "write"
    /\ \/ cancelled /\ UNCHANGED <<last, faults>>
       \/ /\ ~cancelled /\ CommitFree /\ ~admission.stale /\ AdmissionCurrent
          /\ IF up THEN faults < MaxFaults /\ faults' = faults + 1
                   ELSE UNCHANGED faults
          /\ StateAll("error")
    /\ sync' = "failed" /\ sid' = NoIdentity /\ admission' = NoAdmission
    /\ UNCHANGED <<subs, life, publishing, client, closeSet, wake, mgr,
                   watcher, cancelled, serveVars, cur, todo, sawAcked,
                   netVars, stolen>>

SyncDone ==
    /\ sync = "subscribe" /\ todo = {}
    /\ sync' = "ok" /\ cur' = {}
    /\ UNCHANGED <<clientVars, wake, mgr, watcher, cancelled, serveVars, todo,
                   sid, sawAcked, admission, netVars, faults, stolen>>
---------------------------------------------------------------------------
(* The exchange, as far as dispatch and the tests show it: it answers the  *)
(* requests of a connection in order.                                      *)
ServerReply(kind) ==
    /\ toServer # <<>> /\ up
    /\ LET request == Head(toServer) IN
       /\ toClient' = Append(toClient, [method |-> request.method,
                                        id |-> request.id, kind |-> kind])
       /\ server' = IF kind # "ok" THEN server
                    ELSE IF request.method = "subscribe" THEN server \cup {request.id}
                    ELSE server \ {request.id}
    /\ toServer' = Tail(toServer)
    /\ UNCHANGED <<clientVars, wake, mgr, watcher, cancelled, serveVars,
                   syncVars, up, faults, stolen>>
---------------------------------------------------------------------------
Application ==
    \/ \E h \in Handle : SubscribePublish(h) \/ CloseBegin(h) \/ CloseRemove(h)
    \/ SubscribeAnnounce
    \/ ClientCloseBegin \/ ClientCloseCancel \/ ClientCloseJoin

Run == StartDial \/ Park \/ Unpark \/ Stop \/ DialFails \/ DialSucceeds
       \/ ReconnectWoken \/ ReconnectElapsed \/ TeardownCancel \/ TeardownJoin

Watcher == WatchDial \/ StrayTakesWake \/ StrayExits

Serve == \/ ServeWake \/ ServeSyncResult \/ ServeDone \/ ServeConnectionLost
         \/ ServeUnexpected \/ Dispatch
         \/ \E overdue \in SUBSET pending : ServeAckTimeout(overdue)

Sync == \/ SyncStart \/ SyncActiveDone \/ SyncJoin \/ SyncWrite \/ SyncSkip
        \/ SyncFails \/ SyncDone
        \/ \E i \in Identity : SyncVisitActive(i) \/ SyncVisitWanted(i)

Exchange == \E kind \in {"ok"} \cup Replies : ServerReply(kind)

\* Nothing is left to do after Client.Close returned.
Finished == client = "closed" /\ UNCHANGED vars

Next == Application \/ Run \/ Watcher \/ Serve \/ Sync \/ Exchange \/ Finished

\* A running goroutine makes progress: the steps of a call in progress, of
\* the manager and of the synchronizer.  Whether the application calls
\* anything, and every fault, is left open; the exchange answers eventually.
Fairness ==
    /\ WF_vars(SubscribeAnnounce) /\ WF_vars(ClientCloseCancel)
    /\ WF_vars(ClientCloseJoin)
    /\ \A h \in Handle :
         /\ WF_vars(CloseRemove(h))
         /\ WF_vars(client = "cancelled" /\ h \in closeSet /\ CloseBegin(h))
    /\ WF_vars(Run) /\ WF_vars(WatchDial) /\ WF_vars(StrayExits)
    /\ WF_vars(ServeWake) /\ WF_vars(ServeSyncResult) /\ WF_vars(ServeDone)
    /\ WF_vars(Dispatch) /\ WF_vars(ServeConnectionLost /\ ~up)
    /\ WF_vars(Sync) /\ WF_vars(Exchange)

Spec == Init /\ [][Next]_vars /\ Fairness
---------------------------------------------------------------------------
(* Properties.                                                             *)

\* A manager with nothing left to do agrees with the registry: while it
\* serves, the wire groups are exactly the registered identities, and it only
\* sleeps with an empty registry.  Registrations, closes and rejections race
\* with every step of a pass, and the last of them must not be missed.  The
\* one exception is a wake taken by the stray watcher of a returned dial.
Converged ==
    (~wake /\ CommitFree /\ ~stolen) =>
      /\ (mgr = "serving" /\ ~syncRunning) => active = Registered
      /\ mgr = "parked" => subs = {}

\* ... and when the requests have been answered the exchange streams exactly
\* the registered identities: no subscription is leaked or lost on its side.
ServerAgrees ==
    (Converged /\ mgr = "serving" /\ up /\ ~syncRunning /\ ~wake /\ CommitFree
       /\ ~stolen /\ toServer = <<>>) => server = Registered

\* The exchange never receives a subscribe for an identity it already streams
\* on the connection, nor an unsubscribe for one it does not: writes that wait
\* for the limiter never reach the wire out of step with earlier ones.
NoRedundantRequest ==
    toServer # <<>> =>
      ((Head(toServer).method = "subscribe") <=> (Head(toServer).id \notin server))

\* After every reconnect a handle returns to subscribed only with a group that
\* was acknowledged on the current connection.
FreshAcknowledgement ==
    mgr = "serving" =>
      \A h \in subs : (life[h] = "open" /\ last[h] = "subscribed") =>
        IdentityOf[h] \in active /\ acked[IdentityOf[h]]

\* A request is pending only while its answer can still arrive; otherwise the
\* acknowledgement timer would tear down a healthy connection.
PendingIsAnswerable ==
    \A p \in pending :
      \/ \E k \in 1..Len(toServer) : toServer[k] = [method |-> p[1], id |-> p[2]]
      \/ \E k \in 1..Len(toClient) : toClient[k].method = p[1] /\ toClient[k].id = p[2]

\* A handle the application can still use is in the registry, and one in the
\* registry has not ended: a rejection that detaches a group by key while its
\* members close and register again leaves no handle that is open but will
\* never receive anything, nor an ended one that keeps its wire subscription.
NoZombieHandle ==
    \A h \in Handle :
      /\ life[h] = "open" => h \in subs
      /\ h \in subs => life[h] \in {"open", "closing"}

\* When Client.Close has returned, no handle is open or registered, no
\* goroutine of the manager runs and no socket is left.
NothingSurvivesClose ==
    client = "closed" =>
      /\ mgr = "stopped" /\ sync = "none" /\ ~up /\ subs = {}
      /\ \A h \in Handle : life[h] # "open"

\* Client.Close returns, whatever the manager, the synchronizer, a dial or a
\* registration were doing when it was called.
CloseTerminates == (client = "closing") ~> (client = "closed")

\* Every registered handle gets an acknowledged wire group unless it is
\* closed, through any finite number of faults.
EventuallySynced ==
    \A h \in Handle :
      (h \in subs) ~> \/ h \notin subs \/ stolen
                      \/ IdentityOf[h] \in active /\ acked[IdentityOf[h]]
===========================================================================
