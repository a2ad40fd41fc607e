---------------------------- MODULE PostManager ----------------------------
(***************************************************************************)
(* Request/response traffic over one reusable socket: postManager and the  *)
(* POST admission gate (websocket/post.go, post_admission.go).             *)
(*                                                                         *)
(* Every request runs in its caller's goroutine; each socket has a reader  *)
(* goroutine; close and the disconnect of a socket may run in any of them. *)
(* A section under m.mu is one step.  What happens after the unlock, the   *)
(* sends on result channels and the close of the socket, are steps of      *)
(* their own: sending and closing hold what some goroutine has still to do. *)
(***************************************************************************)
EXTENDS Integers, FiniteSets

CONSTANTS
    Request,    \* calls of request, each with its own id and result channel
    Limit,      \* capacity of the POST admission gate
    Replies,    \* how the exchange may answer: "ok", "refused"
    MaxConns    \* bound: sockets dialled

ASSUME PostAssumption ==
    /\ IsFiniteSet(Request) /\ Limit \in Nat \ {0} /\ MaxConns \in Nat \ {0}
    /\ Replies \subseteq {"ok", "refused"}

Socket == 1..MaxConns
NoSocket == 0
NoRequest == "noRequest"
NoResult == "noResult"
\* What can be put into a result channel, and what a request returns.
Answer  == {"ok", "refused", "lost", "closed"}
Outcome == Answer \cup {"cancelled", "failed"}
ASSUME RequestAssumption == NoRequest \notin Request

VARIABLES
    pc,         \* where each request is
    permits,    \* requests holding a permit of the gate
    caller,     \* requests whose caller context is cancelled
    ctx,        \* requests whose requestCtx is cancelled
    use,        \* socket each request obtained from connection()
    writing,    \* requests whose atomic writing flag is set
    pending,    \* requests in m.pending
    result,     \* per request: content of its one-slot result channel
    sending,    \* answers some goroutine is about to send: [request, answer]
    outcome,    \* per request: what it returned
    write,      \* request holding the write token, or NoRequest
    conn,       \* m.conn
    dialled,    \* sockets dialled so far
    alive,      \* sockets that are open
    closing,    \* sockets some goroutine is about to close
    closed,     \* m.closed
    sent,       \* requests written completely, as <<request, socket>>
    replies     \* answers of the exchange on their way: [request, socket, answer]

callVars == <<permits, caller, ctx, use, writing, outcome>>
mapVars  == <<pending, result, sending>>
sockVars == <<conn, dialled, alive, closing>>
netVars  == <<sent, replies>>
vars == <<pc, callVars, mapVars, write, sockVars, closed, netVars>>

Places == {"idle", "acquire", "register", "connection", "lockDial", "dial",
           "adopt", "lockWrite", "limiter", "write", "written", "writeFailed",
           "remove", "disconnect", "drop", "wait", "returned"}

TypeOK ==
    /\ pc \in [Request -> Places]
    /\ permits \subseteq Request /\ caller \subseteq Request /\ ctx \subseteq Request
    /\ use \in [Request -> Socket \cup {NoSocket}]
    /\ writing \subseteq Request /\ pending \subseteq Request
    /\ result \in [Request -> Answer \cup {NoResult}]
    /\ sending \subseteq [request : Request, answer : Answer]
    /\ outcome \in [Request -> Outcome \cup {NoResult}]
    /\ write \in Request \cup {NoRequest}
    /\ conn \in Socket \cup {NoSocket}
    /\ dialled \in 0..MaxConns
    /\ alive \subseteq Socket /\ closing \subseteq Socket
    /\ closed \in BOOLEAN
    /\ sent \subseteq Request \X Socket
    /\ replies \subseteq [request : Request, socket : Socket, answer : {"ok", "refused"}]

Init ==
    /\ pc = [r \in Request |-> "idle"]
    /\ permits = {} /\ caller = {} /\ ctx = {} /\ writing = {}
    /\ use = [r \in Request |-> NoSocket]
    /\ pending = {} /\ result = [r \in Request |-> NoResult] /\ sending = {}
    /\ outcome = [r \in Request |-> NoResult]
    /\ write = NoRequest
    /\ conn = NoSocket /\ dialled = 0 /\ alive = {} /\ closing = {}
    /\ closed = FALSE /\ sent = {} /\ replies = {}

---------------------------------------------------------------------------
(* Helpers of the source.                                                  *)

Goto(r, to) == pc' = [pc EXCEPT ![r] = to]

\* contextError: the caller's context, then the closed manager, then the
\* error at hand.
ContextError(r, fallback) ==
    IF r \in caller THEN "cancelled" ELSE IF closed THEN "closed" ELSE fallback

\* request returns and its deferred release gives the permit back.
Return(r, value) ==
    /\ Goto(r, "returned")
    /\ outcome' = [outcome EXCEPT ![r] = value]
    /\ permits' = permits \ {r}

\* Fault: the failed requests stay in the map.
FailPendingKept(answer) ==
    /\ pending' = pending
    /\ sending' = sending \cup {[request |-> q, answer |-> answer] : q \in pending}

\* m.pending is replaced by an empty map; its entries will be answered.
FailPending(answer) ==
    /\ pending' = {}
    /\ sending' = sending \cup {[request |-> q, answer |-> answer] : q \in pending}

\* disconnect, up to the unlock; a socket that is no longer current, because
\* another goroutine got here first, is left alone.
Disconnect(s) ==
    IF conn = s
      THEN /\ conn' = NoSocket /\ closing' = closing \cup {s}
           /\ FailPending("lost")
      ELSE UNCHANGED <<conn, closing, pending, sending>>
---------------------------------------------------------------------------
(* request, in the caller's goroutine.                                     *)

Call(r) ==
    /\ pc[r] = "idle" /\ Goto(r, "acquire")
    /\ UNCHANGED <<callVars, mapVars, write, sockVars, closed, netVars>>

\* postGate.Acquire waits for a permit or for the context.
AcquirePermit(r) ==
    /\ pc[r] = "acquire" /\ Cardinality(permits) < Limit
    /\ permits' = permits \cup {r} /\ Goto(r, "register")
    /\ UNCHANGED <<caller, ctx, use, writing, outcome, mapVars, write,
                   sockVars, closed, netVars>>

\* The request is published in m.pending before it has a socket.
Register(r) ==
    /\ pc[r] = "register"
    /\ IF closed
         THEN Return(r, "closed") /\ UNCHANGED pending
         ELSE /\ pending' = pending \cup {r} /\ Goto(r, "connection")
              /\ UNCHANGED <<permits, outcome>>
    /\ UNCHANGED <<caller, ctx, use, writing, result, sending, write,
                   sockVars, closed, netVars>>

\* connection(): a closed manager refuses, an existing socket is reused, else
\* next is where the goroutine goes.
Connection(r, next) ==
    /\ Goto(r, IF closed THEN "drop" ELSE IF conn # NoSocket THEN "lockWrite"
               ELSE next)
    /\ use' = [use EXCEPT ![r] = conn]
    /\ UNCHANGED <<permits, caller, ctx, writing, outcome, mapVars, sockVars,
                   closed, netVars>>

FindConnection(r) ==
    pc[r] = "connection" /\ Connection(r, "lockDial") /\ UNCHANGED write

\* Fault: no second look at m.conn with the token in hand.
LockDialBlind(r) ==
    /\ pc[r] = "lockDial" /\ write = NoRequest
    /\ write' = r /\ Goto(r, "dial")
    /\ UNCHANGED <<callVars, mapVars, sockVars, closed, netVars>>

\* ... the same test again with the write token, which serialises dialling.
LockDial(r) ==
    /\ pc[r] = "lockDial" /\ write = NoRequest
    /\ Connection(r, "dial")
    /\ write' = (IF closed \/ conn # NoSocket THEN NoRequest ELSE r)

\* client.dial succeeds, or fails (which its context also makes it do).
DialSucceeds(r) ==
    /\ pc[r] = "dial" /\ dialled < MaxConns
    /\ dialled' = dialled + 1 /\ alive' = alive \cup {dialled + 1}
    /\ use' = [use EXCEPT ![r] = dialled + 1] /\ Goto(r, "adopt")
    /\ UNCHANGED <<permits, caller, ctx, writing, outcome, mapVars, write,
                   conn, closing, closed, netVars>>

DialFails(r) ==
    /\ pc[r] = "dial" /\ write' = NoRequest /\ Goto(r, "drop")
    /\ UNCHANGED <<callVars, mapVars, sockVars, closed, netVars>>

\* The new socket becomes m.conn and gets a reader, unless the manager was
\* closed during the dial.
Adopt(r) ==
    /\ pc[r] = "adopt" /\ write' = NoRequest
    /\ IF closed
         THEN closing' = closing \cup {use[r]} /\ Goto(r, "drop") /\ UNCHANGED conn
         ELSE conn' = use[r] /\ Goto(r, "lockWrite") /\ UNCHANGED closing
    /\ UNCHANGED <<callVars, mapVars, dialled, alive, closed, netVars>>

LockWrite(r) ==
    /\ pc[r] = "lockWrite" /\ write = NoRequest
    /\ write' = r /\ Goto(r, "limiter")
    /\ UNCHANGED <<callVars, mapVars, sockVars, closed, netVars>>

\* The message limiter admits the write; the AfterFunc is armed.
Limiter(r) ==
    /\ pc[r] = "limiter" /\ r \notin ctx
    /\ writing' = writing \cup {r} /\ Goto(r, "write")
    /\ UNCHANGED <<permits, caller, ctx, use, outcome, mapVars, write,
                   sockVars, closed, netVars>>

\* Fault: cancellation does not take the socket down.
CancelWriteQuietly(r) ==
    /\ r \in ctx /\ r \in writing
    /\ writing' = writing \ {r}
    /\ UNCHANGED <<pc, permits, caller, ctx, use, outcome, mapVars, write,
                   sockVars, closed, netVars>>

\* The AfterFunc of a cancelled context disconnects the socket, but only if
\* it clears the writing flag before request does.
CancelWrite(r) ==
    /\ r \in ctx /\ r \in writing
    /\ writing' = writing \ {r} /\ Disconnect(use[r])
    /\ UNCHANGED <<pc, permits, caller, ctx, use, outcome, result, write,
                   dialled, alive, closed, netVars>>

\* WriteJSON succeeds on an open socket and fails on a closed one, or
\* because of the network.
WriteSucceeds(r) ==
    /\ pc[r] = "write" /\ use[r] \in alive
    /\ sent' = sent \cup {<<r, use[r]>>} /\ Goto(r, "written")
    /\ UNCHANGED <<callVars, mapVars, write, sockVars, closed, replies>>

WriteFails(r) ==
    /\ pc[r] = "write" /\ Goto(r, "writeFailed")
    /\ UNCHANGED <<callVars, mapVars, write, sockVars, closed, netVars>>

\* request clears the flag, stops the AfterFunc and unlocks the token.
EndWrite(r) ==
    /\ pc[r] \in {"written", "writeFailed"}
    /\ Goto(r, IF pc[r] = "written" THEN "wait" ELSE "remove")
    /\ writing' = writing \ {r} /\ write' = NoRequest
    /\ UNCHANGED <<permits, caller, ctx, use, outcome, mapVars, sockVars,
                   closed, netVars>>

\* After a failed write the request leaves m.pending ...
RemoveFailed(r) ==
    /\ pc[r] = "remove" /\ Goto(r, "disconnect")
    /\ pending' = pending \ {r}
    /\ UNCHANGED <<callVars, result, sending, write, sockVars, closed, netVars>>

\* ... and takes the socket down before it returns.
DisconnectFailed(r) ==
    /\ pc[r] = "disconnect" /\ Disconnect(use[r])
    /\ Return(r, IF r \in ctx THEN ContextError(r, "cancelled") ELSE "failed")
    /\ UNCHANGED <<caller, ctx, use, writing, result, write, dialled, alive,
                   closed, netVars>>

\* A cancelled context ends every wait before the write; what the request
\* held or registered is given back.
GiveUp(r) ==
    /\ pc[r] \in {"acquire", "lockDial", "lockWrite", "limiter"} /\ r \in ctx
    /\ pending' = pending \ {r}
    /\ write' = (IF pc[r] = "limiter" THEN NoRequest ELSE write)
    /\ Return(r, ContextError(r, "cancelled"))
    /\ UNCHANGED <<caller, ctx, use, writing, result, sending, sockVars,
                   closed, netVars>>

\* Fault: a failed connection() leaves the request registered.
DropKeepsPending(r) ==
    /\ pc[r] = "drop"
    /\ Return(r, ContextError(r, "failed"))
    /\ UNCHANGED <<caller, ctx, use, writing, mapVars, write, sockVars, closed,
                   netVars>>

\* connection() returned an error.
Drop(r) ==
    /\ pc[r] = "drop"
    /\ pending' = pending \ {r}
    /\ Return(r, ContextError(r, "failed"))
    /\ UNCHANGED <<caller, ctx, use, writing, result, sending, write, sockVars,
                   closed, netVars>>

\* Fault: a request that lost its socket is tried again.
TakeResultRetry(r) ==
    /\ pc[r] = "wait" /\ result[r] # NoResult
    /\ IF result[r] = "lost"
         THEN Goto(r, "connection") /\ UNCHANGED <<permits, outcome>>
         ELSE Return(r, result[r])
    /\ result' = [result EXCEPT ![r] = NoResult]
    /\ UNCHANGED <<caller, ctx, use, writing, pending, sending, write,
                   sockVars, closed, netVars>>

\* The final select: the answer, or the context.
TakeResult(r) ==
    /\ pc[r] = "wait" /\ result[r] # NoResult
    /\ Return(r, result[r])
    /\ result' = [result EXCEPT ![r] = NoResult]
    /\ UNCHANGED <<caller, ctx, use, writing, pending, sending, write,
                   sockVars, closed, netVars>>

Abandon(r) ==
    /\ pc[r] = "wait" /\ r \in ctx
    /\ pending' = pending \ {r}
    /\ Return(r, ContextError(r, "cancelled"))
    /\ UNCHANGED <<caller, ctx, use, writing, result, sending, write, sockVars,
                   closed, netVars>>
---------------------------------------------------------------------------
(* Cancellation and close.                                                 *)

CallerCancels(r) ==
    /\ pc[r] \notin {"idle", "returned"} /\ r \notin caller
    /\ caller' = caller \cup {r} /\ ctx' = ctx \cup {r}
    /\ UNCHANGED <<pc, permits, use, writing, outcome, mapVars, write,
                   sockVars, closed, netVars>>

\* Fault: the request's context does not follow the manager's.
ManagerNeverCancels(r) == FALSE /\ UNCHANGED vars

\* The AfterFunc on m.ctx reaches the request after close.
ManagerCancels(r) ==
    /\ closed /\ pc[r] \notin {"idle", "returned"} /\ r \notin ctx
    /\ ctx' = ctx \cup {r}
    /\ UNCHANGED <<pc, permits, caller, use, writing, outcome, mapVars, write,
                   sockVars, closed, netVars>>

\* close, up to the unlock.
Close ==
    /\ ~closed /\ closed' = TRUE
    /\ conn' = NoSocket
    /\ closing' = (IF conn = NoSocket THEN closing ELSE closing \cup {conn})
    /\ FailPending("closed")
    /\ UNCHANGED <<pc, callVars, result, write, dialled, alive, netVars>>

CloseSocket(s) ==
    /\ s \in closing
    /\ closing' = closing \ {s} /\ alive' = alive \ {s}
    /\ UNCHANGED <<pc, callVars, mapVars, write, conn, dialled, closed, netVars>>

\* One send on a result channel.  disconnect's send gives up on a full
\* channel; close's and the reader's would block.
Send(message) ==
    /\ message \in sending
    /\ \/ result[message.request] = NoResult
          /\ result' = [result EXCEPT ![message.request] = message.answer]
       \/ result[message.request] # NoResult /\ message.answer = "lost"
          /\ UNCHANGED result
    /\ sending' = sending \ {message}
    /\ UNCHANGED <<pc, callVars, pending, write, sockVars, closed, netVars>>
---------------------------------------------------------------------------
(* The reader of a socket, and the exchange.                               *)

\* A reply takes its request out of m.pending; an unknown id is ignored.  A
\* server error, a reply of the wrong type or a malformed one is "refused".
ReadReply(reply) ==
    /\ reply \in replies /\ reply.socket \in alive
    /\ replies' = replies \ {reply}
    /\ pending' = pending \ {reply.request}
    /\ sending' = sending \cup
         (IF reply.request \in pending
            THEN {[request |-> reply.request, answer |-> reply.answer]} ELSE {})
    /\ UNCHANGED <<pc, callVars, result, write, sockVars, closed, sent>>

\* A read error, of the network or because the socket was closed.
ReadFails(s) ==
    /\ conn = s /\ s # NoSocket
    /\ Disconnect(s)
    /\ UNCHANGED <<pc, callVars, result, write, dialled, alive, closed, netVars>>

\* The exchange answers what it received, possibly more than once.
ExchangeReplies(r, s, answer) ==
    /\ <<r, s>> \in sent /\ s \in alive
    /\ \A q \in replies : q.request # r
    /\ replies' = replies \cup {[request |-> r, socket |-> s, answer |-> answer]}
    /\ UNCHANGED <<pc, callVars, mapVars, write, sockVars, closed, sent>>
---------------------------------------------------------------------------
Step(r) ==
    \/ AcquirePermit(r) \/ Register(r) \/ FindConnection(r) \/ LockDial(r)
    \/ DialSucceeds(r) \/ DialFails(r) \/ Adopt(r) \/ LockWrite(r)
    \/ Limiter(r) \/ WriteSucceeds(r) \/ WriteFails(r) \/ EndWrite(r)
    \/ RemoveFailed(r) \/ DisconnectFailed(r) \/ GiveUp(r) \/ Drop(r)
    \/ TakeResult(r) \/ Abandon(r)

Next ==
    \/ \E r \in Request : \/ Call(r) \/ Step(r) \/ CancelWrite(r)
                          \/ CallerCancels(r) \/ ManagerCancels(r)
    \/ Close
    \/ \E s \in Socket : CloseSocket(s) \/ ReadFails(s)
    \/ \E message \in sending : Send(message)
    \/ \E reply \in replies : ReadReply(reply)
    \/ \E r \in Request, s \in Socket, answer \in Replies :
         ExchangeReplies(r, s, answer)

\* Goroutines that are not waiting run; a wait that watches the context ends
\* with it.  A permit, the token, the limiter, a dial, the network and the
\* exchange may take for ever, and so may a write on an open socket.  A
\* goroutine is at one place at a time, so one condition covers its steps.
Unblocked(r) ==
    \/ Register(r) \/ FindConnection(r) \/ Adopt(r) \/ EndWrite(r)
    \/ RemoveFailed(r) \/ DisconnectFailed(r) \/ Drop(r)
    \/ TakeResult(r) \/ Abandon(r)
    \/ use[r] \notin alive /\ WriteFails(r)
    \/ r \in ctx /\ (GiveUp(r) \/ DialFails(r))

Fairness ==
    /\ \A r \in Request : WF_vars(Unblocked(r)) /\ WF_vars(CancelWrite(r))
                          /\ WF_vars(ManagerCancels(r))
    /\ WF_vars(\E s \in Socket : CloseSocket(s))
    /\ WF_vars(\E message \in sending : Send(message))

Spec == Init /\ [][Next]_vars /\ Fairness
---------------------------------------------------------------------------
(* Properties.                                                             *)

\* Whoever takes a request out of m.pending, and nobody else, sends on its
\* one-slot result channel: the blocking sends of close and of the reader
\* never wait, and a request gets one answer however a reply, its duplicate,
\* a disconnect, a cancellation and a close race for it.
Senders(r) == {m \in sending : m.request = r}
SingleSender ==
    \A r \in Request :
      Cardinality(Senders(r)) + (IF r \in pending THEN 1 ELSE 0)
        + (IF result[r] # NoResult THEN 1 ELSE 0) <= 1

\* A request that has returned, on whichever of its paths, left no entry in
\* m.pending, no permit, no armed cancellation and no write token behind; one
\* that is under way past the gate holds its permit, within the limit.
NothingLeaks ==
    /\ \A r \in Request :
         /\ pc[r] = "returned" => r \notin pending \cup permits \cup writing
         /\ r \in permits <=> pc[r] \notin {"idle", "acquire", "returned"}
         /\ write = r <=> pc[r] \in {"dial", "adopt", "limiter", "write",
                                     "written", "writeFailed"}
    /\ Cardinality(permits) <= Limit

\* Every open socket is the current one, is being closed, or is in the hands
\* of the goroutine that dialled it: no race of dial, disconnect and close
\* orphans a connection, and callers never open a second one.
NoOrphanSocket ==
    /\ alive \subseteq {conn} \cup closing
                      \cup {use[r] : r \in {q \in Request : pc[q] = "adopt"}}
    /\ closed => conn = NoSocket
    /\ conn # NoSocket => conn \in alive \ closing

\* docs/api/websocket.md: "Returns nil only after a matching post response has
\* been received" and "A request is never replayed after disconnection": a
\* request reaches at most one socket, and an answer of the exchange is only
\* returned for a request that reached the one it was using.
SentOnce ==
    \A r \in Request :
      /\ \A s \in Socket : <<r, s>> \in sent => s = use[r]
      /\ outcome[r] \in {"ok", "refused"} => <<r, use[r]>> \in sent

\* The refinement mapping: a request is accepted when it is in m.pending for
\* the first time, and what the exchange said is on its way, about to be sent
\* on the result channel, or in it.
StageOf(r) == CASE pc[r] = "idle" -> "idle"
                [] pc[r] \in {"acquire", "register"} -> "asked"
                [] pc[r] = "returned" -> "over"
                [] OTHER -> "accepted"
Said == {<<q.request, q.answer>> : q \in replies}
        \cup {<<m.request, m.answer>> : m \in {n \in sending : n.answer \in {"ok", "refused"}}}
        \cup {<<r, result[r]>> : r \in {q \in Request : result[q] \in {"ok", "refused"}}}
Promise == INSTANCE PostContract WITH
    stage <- [r \in Request |-> StageOf(r)], open <- ~closed, cancelled <- caller,
    written <- {r \in Request : \E s \in Socket : <<r, s>> \in sent}, answers <- Said

\* request keeps the contract of PostContract, which is what the comment of
\* postManager ("never replayed after a disconnect, because its execution may
\* be unknown") and the failures listed in docs/api/websocket.md let a caller
\* conclude: an error of its own context only if the caller cancelled, "closed"
\* only of a closed client, a failure of the socket only for a request that was
\* not written, an answer only if the exchange gave it.
KeepsPostContract == Promise!ContractSafety

\* A cancelled request returns, wherever it waits: for a permit, the token,
\* the limiter, a dial, a write to a peer that does not read, or a reply.
CancelReturns == \A r \in Request : (r \in ctx) ~> (pc[r] = "returned")

\* After close every call under way returns and every socket gets closed.
CloseDrains ==
    closed ~> /\ alive = {}
              /\ \A r \in Request : pc[r] \in {"idle", "returned"}
===========================================================================
