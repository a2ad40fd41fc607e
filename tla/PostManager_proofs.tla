------------------------ MODULE PostManager_proofs ------------------------
(***************************************************************************)
(* What the POST manager guarantees for any number of concurrent requests, *)
(* any capacity of the gate and any number of sockets.                     *)
(***************************************************************************)
EXTENDS PostManager, FiniteSetTheorems, TLAPS

\* A dial takes the next number, and no socket is NoSocket.
LEMMA SocketNumbers ==
    /\ NoSocket \notin Socket
    /\ \A n \in 0..MaxConns : n < MaxConns => n + 1 \in Socket /\ n + 1 \in 0..MaxConns
BY PostAssumption DEF Socket, NoSocket

---------------------------------------------------------------------------
(* Type correctness.                                                       *)

OnSocket == {"adopt", "lockWrite", "limiter", "write", "written", "writeFailed",
             "remove", "disconnect", "wait"}
Writing == {"write", "written", "writeFailed"}

\* From connection() on a request has a socket, and its writing flag is set
\* only around the write: what CancelWrite disconnects is a socket.
Placed ==
    /\ \A r \in Request : pc[r] \in OnSocket => use[r] \in Socket
    /\ \A r \in writing : pc[r] \in Writing

\* Every step keeps the types and the places of the requests.
LEMMA TypedStep ==
    ASSUME TypeOK, Placed, [Next]_vars PROVE TypeOK' /\ Placed'
<1> USE SocketNumbers, PostAssumption
    DEF callVars, mapVars, sockVars, netVars, vars, Goto, Return, FailPending, Disconnect, NoResult,
        Answer, Outcome, Places, OnSocket, Writing, TypeOK, Placed, ContextError
<1>1. ASSUME NEW r \in Request, Call(r) PROVE TypeOK' /\ Placed'
  BY <1>1 DEF Call
<1>2. ASSUME NEW r \in Request, AcquirePermit(r) PROVE TypeOK' /\ Placed'
  BY <1>2 DEF AcquirePermit
<1>3. ASSUME NEW r \in Request, Register(r) PROVE TypeOK' /\ Placed'
  BY <1>3 DEF Register
<1>4. ASSUME NEW r \in Request, FindConnection(r) PROVE TypeOK' /\ Placed'
  BY <1>4 DEF FindConnection, Connection
<1>5. ASSUME NEW r \in Request, LockDial(r) PROVE TypeOK' /\ Placed'
  BY <1>5 DEF LockDial, Connection
<1>6. ASSUME NEW r \in Request, DialSucceeds(r) PROVE TypeOK' /\ Placed'
  BY <1>6 DEF DialSucceeds
<1>7. ASSUME NEW r \in Request, DialFails(r) PROVE TypeOK' /\ Placed'
  BY <1>7 DEF DialFails
<1>8. ASSUME NEW r \in Request, Adopt(r) PROVE TypeOK' /\ Placed'
  <2>1. use[r] \in Socket /\ pc[r] = "adopt" BY <1>8 DEF Adopt
  <2>2. CASE closed BY <1>8, <2>1, <2>2 DEF Adopt
  <2>3. CASE ~closed BY <1>8, <2>1, <2>3 DEF Adopt
  <2> QED BY <2>2, <2>3
<1>9. ASSUME NEW r \in Request, LockWrite(r) PROVE TypeOK' /\ Placed'
  BY <1>9 DEF LockWrite
<1>10. ASSUME NEW r \in Request, Limiter(r) PROVE TypeOK' /\ Placed'
  BY <1>10 DEF Limiter
<1>11. ASSUME NEW r \in Request, WriteSucceeds(r) PROVE TypeOK' /\ Placed'
  BY <1>11 DEF WriteSucceeds
<1>12. ASSUME NEW r \in Request, WriteFails(r) PROVE TypeOK' /\ Placed'
  BY <1>12 DEF WriteFails
<1>13. ASSUME NEW r \in Request, EndWrite(r) PROVE TypeOK' /\ Placed'
  BY <1>13 DEF EndWrite
<1>14. ASSUME NEW r \in Request, RemoveFailed(r) PROVE TypeOK' /\ Placed'
  BY <1>14 DEF RemoveFailed
<1>15. ASSUME NEW r \in Request, DisconnectFailed(r) PROVE TypeOK' /\ Placed'
  BY <1>15 DEF DisconnectFailed
<1>16. ASSUME NEW r \in Request, GiveUp(r) PROVE TypeOK' /\ Placed'
  BY <1>16 DEF GiveUp
<1>17. ASSUME NEW r \in Request, Drop(r) PROVE TypeOK' /\ Placed'
  BY <1>17 DEF Drop
<1>18. ASSUME NEW r \in Request, TakeResult(r) PROVE TypeOK' /\ Placed'
  BY <1>18 DEF TakeResult
<1>19. ASSUME NEW r \in Request, Abandon(r) PROVE TypeOK' /\ Placed'
  BY <1>19 DEF Abandon
<1>20. ASSUME NEW r \in Request, CancelWrite(r) PROVE TypeOK' /\ Placed'
  <2>1. use[r] \in Socket BY <1>20 DEF CancelWrite
  <2>2. CASE conn = use[r] BY <1>20, <2>1, <2>2 DEF CancelWrite
  <2>3. CASE conn # use[r] BY <1>20, <2>3 DEF CancelWrite
  <2> QED BY <2>2, <2>3
<1>21. ASSUME NEW r \in Request, CallerCancels(r) PROVE TypeOK' /\ Placed'
  BY <1>21 DEF CallerCancels
<1>22. ASSUME NEW r \in Request, ManagerCancels(r) PROVE TypeOK' /\ Placed'
  BY <1>22 DEF ManagerCancels
<1>23. CASE Close BY <1>23 DEF Close
<1>24. ASSUME NEW s \in Socket, CloseSocket(s) PROVE TypeOK' /\ Placed'
  BY <1>24 DEF CloseSocket
<1>25. ASSUME NEW s \in Socket, ReadFails(s) PROVE TypeOK' /\ Placed'
  BY <1>25 DEF ReadFails
<1>26. ASSUME NEW message \in sending, Send(message) PROVE TypeOK' /\ Placed'
  BY <1>26 DEF Send
<1>27. ASSUME NEW reply \in replies, ReadReply(reply) PROVE TypeOK' /\ Placed'
  BY <1>27 DEF ReadReply
<1>28. ASSUME NEW r \in Request, NEW s \in Socket, NEW answer \in Replies,
             ExchangeReplies(r, s, answer) PROVE TypeOK' /\ Placed'
  <2>1. [request |-> r, socket |-> s, answer |-> answer]
          \in [request : Request, socket : Socket, answer : {"ok", "refused"}]
    OBVIOUS
  <2> QED BY <1>28, <2>1 DEF ExchangeReplies
<1>29. CASE UNCHANGED vars BY <1>29
<1> QED BY <1>1, <1>2, <1>3, <1>4, <1>5, <1>6, <1>7, <1>8, <1>9, <1>10, <1>11, <1>12, <1>13, <1>14, <1>15, <1>16, <1>17, <1>18, <1>19, <1>20, <1>21, <1>22, <1>23, <1>24, <1>25, <1>26, <1>27, <1>28, <1>29 DEF Next, Step

\* The types and the places are invariants.
LEMMA Typed == Spec => [](TypeOK /\ Placed)
<1>1. Init => TypeOK /\ Placed
  <2> SUFFICES ASSUME Init PROVE TypeOK /\ Placed
    OBVIOUS
  <2>1. dialled \in 0..MaxConns BY PostAssumption DEF Init
  <2>2. TypeOK BY <2>1 DEF Init, TypeOK, Places
  <2>3. Placed BY DEF Init, Placed, OnSocket
  <2> QED BY <2>2, <2>3
<1> QED BY <1>1, TypedStep, PTL DEF Spec

\* Every variable of postManager and of the gate keeps its type, under any
\* interleaving of requests, cancellations, replies, disconnects and close.
THEOREM TypeCorrect == Spec => []TypeOK
BY Typed, PTL

---------------------------------------------------------------------------
(* One answer per request.                                                 *)

\* A request is in m.pending, or one goroutine is about to answer it, or the
\* answer is in its channel; before it registers it is in none of these.
OneSender ==
    /\ \A m, n \in sending : m.request = n.request => m = n
    /\ \A r \in pending : result[r] = NoResult
    /\ \A m \in sending : m.request \notin pending /\ result[m.request] = NoResult
    /\ \A r \in Request : pc[r] \in {"idle", "acquire", "register"} =>
         r \notin pending /\ result[r] = NoResult /\ \A m \in sending : m.request # r

\* Every step keeps one sender per request.
LEMMA OneSenderStep ==
    ASSUME TypeOK, OneSender, [Next]_vars PROVE OneSender'
<1> USE DEF callVars, mapVars, sockVars, netVars, vars, Goto, Return, FailPending, Disconnect,
            NoResult, Answer, TypeOK, OneSender
<1>1. ASSUME NEW r \in Request, Call(r) PROVE OneSender'
  BY <1>1 DEF Call
<1>2. ASSUME NEW r \in Request, AcquirePermit(r) PROVE OneSender'
  BY <1>2 DEF AcquirePermit
<1>3. ASSUME NEW r \in Request, Register(r) PROVE OneSender'
  BY <1>3 DEF Register
<1>4. ASSUME NEW r \in Request, FindConnection(r) PROVE OneSender'
  BY <1>4 DEF FindConnection, Connection
<1>5. ASSUME NEW r \in Request, LockDial(r) PROVE OneSender'
  BY <1>5 DEF LockDial, Connection
<1>6. ASSUME NEW r \in Request, DialSucceeds(r) PROVE OneSender'
  BY <1>6 DEF DialSucceeds
<1>7. ASSUME NEW r \in Request, DialFails(r) PROVE OneSender'
  BY <1>7 DEF DialFails
<1>8. ASSUME NEW r \in Request, Adopt(r) PROVE OneSender'
  BY <1>8 DEF Adopt
<1>9. ASSUME NEW r \in Request, LockWrite(r) PROVE OneSender'
  BY <1>9 DEF LockWrite
<1>10. ASSUME NEW r \in Request, Limiter(r) PROVE OneSender'
  BY <1>10 DEF Limiter
<1>11. ASSUME NEW r \in Request, WriteSucceeds(r) PROVE OneSender'
  BY <1>11 DEF WriteSucceeds
<1>12. ASSUME NEW r \in Request, WriteFails(r) PROVE OneSender'
  BY <1>12 DEF WriteFails
<1>13. ASSUME NEW r \in Request, EndWrite(r) PROVE OneSender'
  BY <1>13 DEF EndWrite
<1>14. ASSUME NEW r \in Request, RemoveFailed(r) PROVE OneSender'
  BY <1>14 DEF RemoveFailed
<1>15. ASSUME NEW r \in Request, DisconnectFailed(r) PROVE OneSender'
  BY <1>15 DEF DisconnectFailed
<1>16. ASSUME NEW r \in Request, GiveUp(r) PROVE OneSender'
  BY <1>16 DEF GiveUp
<1>17. ASSUME NEW r \in Request, Drop(r) PROVE OneSender'
  BY <1>17 DEF Drop
<1>18. ASSUME NEW r \in Request, TakeResult(r) PROVE OneSender'
  BY <1>18 DEF TakeResult
<1>19. ASSUME NEW r \in Request, Abandon(r) PROVE OneSender'
  BY <1>19 DEF Abandon
<1>20. ASSUME NEW r \in Request, CancelWrite(r) PROVE OneSender'
  BY <1>20 DEF CancelWrite
<1>21. ASSUME NEW r \in Request, CallerCancels(r) PROVE OneSender'
  BY <1>21 DEF CallerCancels
<1>22. ASSUME NEW r \in Request, ManagerCancels(r) PROVE OneSender'
  BY <1>22 DEF ManagerCancels
<1>23. CASE Close BY <1>23 DEF Close
<1>24. ASSUME NEW s \in Socket, CloseSocket(s) PROVE OneSender'
  BY <1>24 DEF CloseSocket
<1>25. ASSUME NEW s \in Socket, ReadFails(s) PROVE OneSender'
  BY <1>25 DEF ReadFails
<1>26. ASSUME NEW message \in sending, Send(message) PROVE OneSender'
  BY <1>26 DEF Send
<1>27. ASSUME NEW reply \in replies, ReadReply(reply) PROVE OneSender'
  BY <1>27 DEF ReadReply
<1>28. ASSUME NEW r \in Request, NEW s \in Socket, NEW answer \in Replies,
             ExchangeReplies(r, s, answer) PROVE OneSender'
  BY <1>28 DEF ExchangeReplies
<1>29. CASE UNCHANGED vars BY <1>29
<1> QED BY <1>1, <1>2, <1>3, <1>4, <1>5, <1>6, <1>7, <1>8, <1>9, <1>10, <1>11, <1>12, <1>13, <1>14, <1>15, <1>16, <1>17, <1>18, <1>19, <1>20, <1>21, <1>22, <1>23, <1>24, <1>25, <1>26, <1>27, <1>28, <1>29 DEF Next, Step

---------------------------------------------------------------------------
(* What a request holds.                                                   *)

\* A request past the gate holds its permit until it returns, the write token
\* exactly while it dials or writes, and an entry of m.pending at most from
\* its registration to its removal.
Held ==
    /\ \A r \in Request : r \in permits <=> pc[r] \notin {"idle", "acquire", "returned"}
    /\ \A r \in Request : write = r <=> pc[r] \in {"dial", "adopt", "limiter"} \cup Writing
    /\ \A r \in pending : pc[r] \notin {"idle", "acquire", "register", "disconnect", "returned"}

\* Every step keeps what the requests hold.
LEMMA HeldStep ==
    ASSUME TypeOK, Placed, OneSender, Held, [Next]_vars PROVE Held'
<1> USE RequestAssumption
    DEF callVars, mapVars, sockVars, netVars, vars, Goto, Return, FailPending, Disconnect,
        TypeOK, Writing, Held
<1>1. ASSUME NEW r \in Request, Call(r) PROVE Held'
  BY <1>1 DEF Call
<1>2. ASSUME NEW r \in Request, AcquirePermit(r) PROVE Held'
  BY <1>2 DEF AcquirePermit
<1>3. ASSUME NEW r \in Request, Register(r) PROVE Held'
  BY <1>3 DEF Register
<1>4. ASSUME NEW r \in Request, FindConnection(r) PROVE Held'
  BY <1>4 DEF FindConnection, Connection
<1>5. ASSUME NEW r \in Request, LockDial(r) PROVE Held'
  BY <1>5 DEF LockDial, Connection
<1>6. ASSUME NEW r \in Request, DialSucceeds(r) PROVE Held'
  BY <1>6 DEF DialSucceeds
<1>7. ASSUME NEW r \in Request, DialFails(r) PROVE Held'
  BY <1>7 DEF DialFails
<1>8. ASSUME NEW r \in Request, Adopt(r) PROVE Held'
  BY <1>8 DEF Adopt
<1>9. ASSUME NEW r \in Request, LockWrite(r) PROVE Held'
  BY <1>9 DEF LockWrite
<1>10. ASSUME NEW r \in Request, Limiter(r) PROVE Held'
  BY <1>10 DEF Limiter
<1>11. ASSUME NEW r \in Request, WriteSucceeds(r) PROVE Held'
  BY <1>11 DEF WriteSucceeds
<1>12. ASSUME NEW r \in Request, WriteFails(r) PROVE Held'
  BY <1>12 DEF WriteFails
<1>13. ASSUME NEW r \in Request, EndWrite(r) PROVE Held'
  BY <1>13 DEF EndWrite
<1>14. ASSUME NEW r \in Request, RemoveFailed(r) PROVE Held'
  BY <1>14 DEF RemoveFailed
<1>15. ASSUME NEW r \in Request, DisconnectFailed(r) PROVE Held'
  BY <1>15 DEF DisconnectFailed
<1>16. ASSUME NEW r \in Request, GiveUp(r) PROVE Held'
  BY <1>16 DEF GiveUp
<1>17. ASSUME NEW r \in Request, Drop(r) PROVE Held'
  BY <1>17 DEF Drop
<1>18. ASSUME NEW r \in Request, TakeResult(r) PROVE Held'
  <2>1. r \notin pending BY <1>18 DEF TakeResult, OneSender
  <2> QED BY <1>18, <2>1 DEF TakeResult
<1>19. ASSUME NEW r \in Request, Abandon(r) PROVE Held'
  BY <1>19 DEF Abandon
<1>20. ASSUME NEW r \in Request, CancelWrite(r) PROVE Held'
  BY <1>20 DEF CancelWrite
<1>21. ASSUME NEW r \in Request, CallerCancels(r) PROVE Held'
  BY <1>21 DEF CallerCancels
<1>22. ASSUME NEW r \in Request, ManagerCancels(r) PROVE Held'
  BY <1>22 DEF ManagerCancels
<1>23. CASE Close BY <1>23 DEF Close
<1>24. ASSUME NEW s \in Socket, CloseSocket(s) PROVE Held'
  BY <1>24 DEF CloseSocket
<1>25. ASSUME NEW s \in Socket, ReadFails(s) PROVE Held'
  BY <1>25 DEF ReadFails
<1>26. ASSUME NEW message \in sending, Send(message) PROVE Held'
  BY <1>26 DEF Send
<1>27. ASSUME NEW reply \in replies, ReadReply(reply) PROVE Held'
  BY <1>27 DEF ReadReply
<1>28. ASSUME NEW r \in Request, NEW s \in Socket, NEW answer \in Replies,
             ExchangeReplies(r, s, answer) PROVE Held'
  BY <1>28 DEF ExchangeReplies
<1>29. CASE UNCHANGED vars BY <1>29
<1> QED BY <1>1, <1>2, <1>3, <1>4, <1>5, <1>6, <1>7, <1>8, <1>9, <1>10, <1>11, <1>12, <1>13, <1>14, <1>15, <1>16, <1>17, <1>18, <1>19, <1>20, <1>21, <1>22, <1>23, <1>24, <1>25, <1>26, <1>27, <1>28, <1>29 DEF Next, Step

\* At most Limit requests hold a permit of the POST admission gate.
PermitsBounded == Cardinality(permits) <= Limit

\* Permits are only taken below the limit, and given back one by one.
LEMMA PermitsStep ==
    ASSUME TypeOK, PermitsBounded, [Next]_vars PROVE PermitsBounded'
<1>1. IsFiniteSet(permits) /\ Cardinality(permits) \in Nat /\ Limit \in Nat
  BY PostAssumption, FS_Subset, FS_CardinalityType DEF TypeOK
<1>2. ASSUME NEW r \in Request, AcquirePermit(r) PROVE PermitsBounded'
  <2>1. Cardinality(permits) < Limit /\ permits' = permits \cup {r} BY <1>2 DEF AcquirePermit
  <2>2. Cardinality(permits \cup {r}) <= Cardinality(permits) + 1
    <3>1. CASE r \in permits
      <4>1. permits \cup {r} = permits BY <3>1
      <4> QED BY <1>1, <4>1
    <3>2. CASE r \notin permits
      <4>1. Cardinality(permits \cup {r}) = Cardinality(permits) + 1 BY <1>1, <3>2, FS_AddElement
      <4> QED BY <1>1, <4>1
    <3> QED BY <3>1, <3>2
  <2>3. Cardinality(permits \cup {r}) \in Nat BY <1>1, FS_AddElement, FS_CardinalityType
  <2> QED BY <1>1, <2>1, <2>2, <2>3 DEF PermitsBounded
<1>3. CASE permits' \subseteq permits
  <2>1. Cardinality(permits') <= Cardinality(permits) /\ Cardinality(permits') \in Nat
    BY <1>1, <1>3, FS_Subset, FS_CardinalityType
  <2> QED BY <1>1, <2>1 DEF PermitsBounded
<1>4. permits' \subseteq permits \/ \E r \in Request : AcquirePermit(r)
  <2> USE DEF callVars, mapVars, Return
  <2>1. ASSUME NEW r \in Request, Call(r) \/ Step(r) PROVE permits' \subseteq permits \/ AcquirePermit(r)
    BY <2>1 DEF Call, Step, Register, FindConnection, LockDial, Connection, DialSucceeds, DialFails, Adopt,
                LockWrite, Limiter, WriteSucceeds, WriteFails, EndWrite, RemoveFailed, DisconnectFailed,
                GiveUp, Drop, TakeResult, Abandon
  <2>2. ASSUME NEW r \in Request, CancelWrite(r) \/ CallerCancels(r) \/ ManagerCancels(r)
        PROVE  permits' = permits
    BY <2>2 DEF CancelWrite, CallerCancels, ManagerCancels
  <2>3. ASSUME NEW s \in Socket, CloseSocket(s) \/ ReadFails(s) PROVE permits' = permits
    BY <2>3 DEF CloseSocket, ReadFails
  <2>4. ASSUME NEW message \in sending, Send(message) PROVE permits' = permits BY <2>4 DEF Send
  <2>5. ASSUME NEW reply \in replies, ReadReply(reply) PROVE permits' = permits BY <2>5 DEF ReadReply
  <2>6. ASSUME NEW r \in Request, NEW s \in Socket, NEW answer \in Replies, ExchangeReplies(r, s, answer)
        PROVE  permits' = permits
    BY <2>6 DEF ExchangeReplies
  <2>7. CASE Close \/ UNCHANGED vars BY <2>7 DEF Close, vars
  <2> QED BY <2>1, <2>2, <2>3, <2>4, <2>5, <2>6, <2>7 DEF Next
<1> QED BY <1>2, <1>3, <1>4

\* The three invariants about who owns a request, together.
Ownership == OneSender /\ Held /\ PermitsBounded

\* Every step of the POST manager keeps senders, permits and what callers hold.
LEMMA OwnershipHolds == Spec => [](TypeOK /\ Placed /\ Ownership)
<1>1. Init => Ownership
  <2> SUFFICES ASSUME Init PROVE Ownership
    OBVIOUS
  <2>1. PermitsBounded BY PostAssumption, FS_EmptySet DEF Init, PermitsBounded
  <2>2. OneSender BY DEF Init, OneSender
  <2>3. Held BY RequestAssumption DEF Init, Held, Writing
  <2> QED BY <2>1, <2>2, <2>3 DEF Ownership
<1>2. TypeOK /\ Placed /\ Ownership /\ [Next]_vars => Ownership'
  BY OneSenderStep, HeldStep, PermitsStep DEF Ownership
<1> QED BY <1>1, <1>2, Typed, PTL DEF Spec

\* However a reply, its duplicate, a disconnect, a cancellation and close race
\* for a request, at most one of them sends on its result channel.
THEOREM OneAnswer == Spec => []SingleSender
<1>1. TypeOK /\ OneSender => SingleSender
  <2> SUFFICES ASSUME TypeOK, OneSender, NEW r \in Request
               PROVE  Cardinality(Senders(r)) + (IF r \in pending THEN 1 ELSE 0)
                        + (IF result[r] # NoResult THEN 1 ELSE 0) <= 1
    BY DEF SingleSender
  <2>1. CASE Senders(r) = {}
    <3>1. Cardinality(Senders(r)) = 0 BY <2>1, FS_EmptySet
    <3> QED BY <3>1 DEF OneSender
  <2>2. CASE Senders(r) # {}
    <3>1. PICK m \in Senders(r) : TRUE BY <2>2
    <3>2. Senders(r) = {m} BY <3>1 DEF Senders, OneSender
    <3>3. Cardinality(Senders(r)) = 1 BY <3>2, FS_Singleton
    <3>4. r \notin pending /\ result[r] = NoResult BY <3>1 DEF Senders, OneSender
    <3> QED BY <3>3, <3>4
  <2> QED BY <2>1, <2>2
<1> QED BY <1>1, OwnershipHolds, PTL DEF Ownership

\* request gives back what it took on every one of its paths.
THEOREM AllGivenBack == Spec => []NothingLeaks
<1>1. TypeOK /\ Placed /\ Ownership => NothingLeaks
  BY DEF TypeOK, Placed, Ownership, Held, PermitsBounded, NothingLeaks, Writing
<1> QED BY <1>1, OwnershipHolds, PTL
---------------------------------------------------------------------------
(* Sockets.                                                                *)

\* NoOrphanSocket, with what makes it inductive: the token serialises dialling,
\* so that nobody has a socket to adopt while there is a current one, and a
\* socket in adoption is open, nobody closes it and its number is new.
Sockets ==
    /\ NoOrphanSocket
    /\ \A r \in Request : pc[r] \in {"dial", "adopt"} => conn = NoSocket
    /\ \A r \in Request : pc[r] = "adopt" => use[r] \in alive \ closing
    /\ \A s \in alive \cup closing : s <= dialled

\* Every step keeps track of the sockets.
LEMMA SocketsStep ==
    ASSUME TypeOK, Placed, Held, Sockets, [Next]_vars PROVE Sockets'
<1> USE SocketNumbers
    DEF callVars, mapVars, sockVars, netVars, vars, Goto, Return, Disconnect, FailPending,
        TypeOK, Sockets, NoOrphanSocket
<1>1. ASSUME NEW r \in Request, Call(r) PROVE Sockets'
  BY <1>1 DEF Call
<1>2. ASSUME NEW r \in Request, AcquirePermit(r) PROVE Sockets'
  BY <1>2 DEF AcquirePermit
<1>3. ASSUME NEW r \in Request, Register(r) PROVE Sockets'
  BY <1>3 DEF Register
<1>4. ASSUME NEW r \in Request, FindConnection(r) PROVE Sockets'
  BY <1>4 DEF FindConnection, Connection
<1>5. ASSUME NEW r \in Request, LockDial(r) PROVE Sockets'
  BY <1>5 DEF LockDial, Connection
<1>6. ASSUME NEW r \in Request, DialSucceeds(r) PROVE Sockets'
  <2> DEFINE n == dialled + 1
  <2>1. /\ pc[r] = "dial" /\ conn = NoSocket /\ n \in Socket /\ dialled \in Nat /\ n \in Nat
        /\ dialled' = n /\ alive' = alive \cup {n} /\ closing' = closing /\ conn' = conn /\ closed' = closed
        /\ use' = [use EXCEPT ![r] = n] /\ pc' = [pc EXCEPT ![r] = "adopt"]
    BY <1>6 DEF DialSucceeds
  <2>2. n > dialled BY <2>1
  <2> HIDE DEF n
  <2>3. alive \subseteq Nat /\ closing \subseteq Nat BY PostAssumption DEF Socket
  <2>4. n \notin alive \cup closing BY <2>1, <2>2, <2>3
  <2>5. \A q \in Request : pc'[q] = "adopt" <=> q = r BY <2>1, RequestAssumption DEF Held
  <2>6. use'[r] = n /\ pc'[r] = "adopt" BY <2>1
  <2>7. \A s \in alive' \cup closing' : s <= dialled' BY <2>1, <2>2, <2>3
  <2>8. alive' \subseteq {conn'} \cup closing' \cup {use'[q] : q \in {p \in Request : pc'[p] = "adopt"}}
    BY <2>1, <2>5, <2>6, RequestAssumption DEF Held
  <2>9. \A q \in Request : pc'[q] = "adopt" => use'[q] \in alive' \ closing' BY <2>1, <2>4, <2>5, <2>6
  <2> QED BY <2>1, <2>7, <2>8, <2>9
<1>7. ASSUME NEW r \in Request, DialFails(r) PROVE Sockets'
  BY <1>7 DEF DialFails
<1>8. ASSUME NEW r \in Request, Adopt(r) PROVE Sockets'
  <2> DEFINE s == use[r]
  <2>1. /\ pc[r] = "adopt" /\ conn = NoSocket /\ s \in alive \ closing
        /\ pc' = [pc EXCEPT ![r] = IF closed THEN "drop" ELSE "lockWrite"]
        /\ UNCHANGED <<use, dialled, alive, closed>>
        /\ IF closed THEN closing' = closing \cup {s} /\ conn' = conn ELSE conn' = s /\ closing' = closing
    BY <1>8 DEF Adopt
  <2>2. \A q \in Request : pc[q] = "adopt" <=> q = r BY <2>1, RequestAssumption DEF Held
  <2>3. \A q \in Request : pc'[q] \notin {"dial", "adopt"} BY <2>1, RequestAssumption DEF Held
  <2> HIDE DEF s
  <2>4. alive \subseteq closing \cup {s} BY <2>1, <2>2 DEF s
  <2> QED BY <2>1, <2>3, <2>4
<1>9. ASSUME NEW r \in Request, LockWrite(r) PROVE Sockets'
  BY <1>9 DEF LockWrite
<1>10. ASSUME NEW r \in Request, Limiter(r) PROVE Sockets'
  BY <1>10 DEF Limiter
<1>11. ASSUME NEW r \in Request, WriteSucceeds(r) PROVE Sockets'
  BY <1>11 DEF WriteSucceeds
<1>12. ASSUME NEW r \in Request, WriteFails(r) PROVE Sockets'
  BY <1>12 DEF WriteFails
<1>13. ASSUME NEW r \in Request, EndWrite(r) PROVE Sockets'
  BY <1>13 DEF EndWrite
<1>14. ASSUME NEW r \in Request, RemoveFailed(r) PROVE Sockets'
  BY <1>14 DEF RemoveFailed
<1>15. ASSUME NEW r \in Request, DisconnectFailed(r) PROVE Sockets'
  <2>1. use[r] \in Socket BY <1>15 DEF DisconnectFailed, Placed, OnSocket, Writing
  <2>2. CASE conn = use[r]
    <3>1. \A q \in Request : pc[q] \notin {"dial", "adopt"} BY <2>1, <2>2
    <3>2. /\ conn' = NoSocket /\ closing' = closing \cup {conn}
          /\ UNCHANGED <<use, dialled, alive, closed>>
          /\ pc' \in {pc, [pc EXCEPT ![r] = "returned"]}
      BY <1>15, <2>2 DEF DisconnectFailed
    <3>3. \A q \in Request : pc'[q] \notin {"dial", "adopt"} BY <3>1, <3>2
    <3>4. alive \subseteq closing' BY <3>1, <3>2
    <3>5. conn \in Socket /\ conn # NoSocket BY <2>1, <2>2
    <3>6. conn \in alive \cup closing /\ ~closed BY <3>5
    <3>7. \A s \in alive' \cup closing' : s <= dialled' BY <3>2, <3>6
    <3>8. NoOrphanSocket' BY <3>2, <3>3, <3>4, <3>6
    <3> QED BY <3>2, <3>3, <3>7, <3>8
  <2>3. CASE conn # use[r] BY <1>15, <2>3 DEF DisconnectFailed
  <2> QED BY <2>2, <2>3
<1>16. ASSUME NEW r \in Request, GiveUp(r) PROVE Sockets'
  BY <1>16 DEF GiveUp
<1>17. ASSUME NEW r \in Request, Drop(r) PROVE Sockets'
  BY <1>17 DEF Drop
<1>18. ASSUME NEW r \in Request, TakeResult(r) PROVE Sockets'
  BY <1>18 DEF TakeResult
<1>19. ASSUME NEW r \in Request, Abandon(r) PROVE Sockets'
  BY <1>19 DEF Abandon
<1>20. ASSUME NEW r \in Request, CancelWrite(r) PROVE Sockets'
  <2>1. use[r] \in Socket BY <1>20 DEF CancelWrite, Placed, OnSocket, Writing
  <2>2. CASE conn = use[r]
    <3>1. \A q \in Request : pc[q] \notin {"dial", "adopt"} BY <2>1, <2>2
    <3>2. /\ conn' = NoSocket /\ closing' = closing \cup {conn}
          /\ UNCHANGED <<use, dialled, alive, closed>>
          /\ pc' \in {pc, [pc EXCEPT ![r] = "returned"]}
      BY <1>20, <2>2 DEF CancelWrite
    <3>3. \A q \in Request : pc'[q] \notin {"dial", "adopt"} BY <3>1, <3>2
    <3>4. alive \subseteq closing' BY <3>1, <3>2
    <3>5. conn \in Socket /\ conn # NoSocket BY <2>1, <2>2
    <3>6. conn \in alive \cup closing /\ ~closed BY <3>5
    <3>7. \A s \in alive' \cup closing' : s <= dialled' BY <3>2, <3>6
    <3>8. NoOrphanSocket' BY <3>2, <3>3, <3>4, <3>6
    <3> QED BY <3>2, <3>3, <3>7, <3>8
  <2>3. CASE conn # use[r] BY <1>20, <2>3 DEF CancelWrite
  <2> QED BY <2>2, <2>3
<1>21. ASSUME NEW r \in Request, CallerCancels(r) PROVE Sockets'
  BY <1>21 DEF CallerCancels
<1>22. ASSUME NEW r \in Request, ManagerCancels(r) PROVE Sockets'
  BY <1>22 DEF ManagerCancels
<1>23. CASE Close BY <1>23 DEF Close
<1>24. ASSUME NEW s \in Socket, CloseSocket(s) PROVE Sockets'
  BY <1>24 DEF CloseSocket
<1>25. ASSUME NEW s \in Socket, ReadFails(s) PROVE Sockets'
  BY <1>25 DEF ReadFails
<1>26. ASSUME NEW message \in sending, Send(message) PROVE Sockets'
  BY <1>26 DEF Send
<1>27. ASSUME NEW reply \in replies, ReadReply(reply) PROVE Sockets'
  BY <1>27 DEF ReadReply
<1>28. ASSUME NEW r \in Request, NEW s \in Socket, NEW answer \in Replies,
             ExchangeReplies(r, s, answer) PROVE Sockets'
  BY <1>28 DEF ExchangeReplies
<1>29. CASE UNCHANGED vars BY <1>29
<1> QED BY <1>1, <1>2, <1>3, <1>4, <1>5, <1>6, <1>7, <1>8, <1>9, <1>10, <1>11, <1>12, <1>13, <1>14, <1>15, <1>16, <1>17, <1>18, <1>19, <1>20, <1>21, <1>22, <1>23, <1>24, <1>25, <1>26, <1>27, <1>28, <1>29 DEF Next, Step

\* No race of dial, disconnect and close orphans a connection or opens a second.
THEOREM SocketsAccounted == Spec => []NoOrphanSocket
<1>1. Init => Sockets BY DEF Init, Sockets, NoOrphanSocket
<1>2. Sockets => NoOrphanSocket BY DEF Sockets
<1> QED BY <1>1, <1>2, SocketsStep, OwnershipHolds, PTL DEF Spec, Ownership

---------------------------------------------------------------------------
(* Nothing is replayed.                                                    *)

Unsent == {"idle", "acquire", "register", "connection", "lockDial", "dial", "adopt", "lockWrite",
           "limiter", "write"}

\* A request that has not written has reached no socket, and what the exchange
\* said, on its way, about to be sent, or received, answers the one it reached.
Replayed ==
    /\ \A r \in Request, s \in Socket : <<r, s>> \in sent => s = use[r] /\ pc[r] \notin Unsent
    /\ \A q \in replies : <<q.request, q.socket>> \in sent
    /\ \A m \in sending : m.answer \in {"ok", "refused"} => <<m.request, use[m.request]>> \in sent
    /\ \A r \in Request : result[r] \in {"ok", "refused"} => <<r, use[r]>> \in sent
    /\ \A r \in Request : outcome[r] \in {"ok", "refused"} => <<r, use[r]>> \in sent

\* Every step keeps the record of what was sent.
LEMMA ReplayedStep ==
    ASSUME TypeOK, Placed, Replayed, [Next]_vars PROVE Replayed'
<1> USE DEF callVars, mapVars, sockVars, netVars, vars, Goto, Return, Disconnect, FailPending,
            ContextError, Unsent, NoResult, Answer, Outcome, OnSocket, TypeOK, Placed, Replayed
<1>1. ASSUME NEW r \in Request, Call(r) PROVE Replayed'
  BY <1>1 DEF Call
<1>2. ASSUME NEW r \in Request, AcquirePermit(r) PROVE Replayed'
  BY <1>2 DEF AcquirePermit
<1>3. ASSUME NEW r \in Request, Register(r) PROVE Replayed'
  BY <1>3 DEF Register
<1>4. ASSUME NEW r \in Request, FindConnection(r) PROVE Replayed'
  <2>1. \A s : <<r, s>> \notin sent BY <1>4 DEF FindConnection, Connection
  <2>2. /\ UNCHANGED <<sent, replies, sending, result, outcome>>
        /\ \A q \in Request \ {r} : use'[q] = use[q] /\ pc'[q] = pc[q]
    BY <1>4 DEF FindConnection, Connection
  <2> QED BY <2>1, <2>2
<1>5. ASSUME NEW r \in Request, LockDial(r) PROVE Replayed'
  <2>1. \A s : <<r, s>> \notin sent BY <1>5 DEF LockDial, Connection
  <2>2. /\ UNCHANGED <<sent, replies, sending, result, outcome>>
        /\ \A q \in Request \ {r} : use'[q] = use[q] /\ pc'[q] = pc[q]
    BY <1>5 DEF LockDial, Connection
  <2> QED BY <2>1, <2>2
<1>6. ASSUME NEW r \in Request, DialSucceeds(r) PROVE Replayed'
  <2>1. \A s : <<r, s>> \notin sent BY <1>6 DEF DialSucceeds
  <2>2. /\ UNCHANGED <<sent, replies, sending, result, outcome>>
        /\ \A q \in Request \ {r} : use'[q] = use[q] /\ pc'[q] = pc[q]
    BY <1>6 DEF DialSucceeds
  <2> QED BY <2>1, <2>2
<1>7. ASSUME NEW r \in Request, DialFails(r) PROVE Replayed'
  BY <1>7 DEF DialFails
<1>8. ASSUME NEW r \in Request, Adopt(r) PROVE Replayed'
  BY <1>8 DEF Adopt
<1>9. ASSUME NEW r \in Request, LockWrite(r) PROVE Replayed'
  BY <1>9 DEF LockWrite
<1>10. ASSUME NEW r \in Request, Limiter(r) PROVE Replayed'
  BY <1>10 DEF Limiter
<1>11. ASSUME NEW r \in Request, WriteSucceeds(r) PROVE Replayed'
  BY <1>11 DEF WriteSucceeds
<1>12. ASSUME NEW r \in Request, WriteFails(r) PROVE Replayed'
  BY <1>12 DEF WriteFails
<1>13. ASSUME NEW r \in Request, EndWrite(r) PROVE Replayed'
  BY <1>13 DEF EndWrite
<1>14. ASSUME NEW r \in Request, RemoveFailed(r) PROVE Replayed'
  BY <1>14 DEF RemoveFailed
<1>15. ASSUME NEW r \in Request, DisconnectFailed(r) PROVE Replayed'
  BY <1>15 DEF DisconnectFailed
<1>16. ASSUME NEW r \in Request, GiveUp(r) PROVE Replayed'
  BY <1>16 DEF GiveUp
<1>17. ASSUME NEW r \in Request, Drop(r) PROVE Replayed'
  BY <1>17 DEF Drop
<1>18. ASSUME NEW r \in Request, TakeResult(r) PROVE Replayed'
  BY <1>18 DEF TakeResult
<1>19. ASSUME NEW r \in Request, Abandon(r) PROVE Replayed'
  BY <1>19 DEF Abandon
<1>20. ASSUME NEW r \in Request, CancelWrite(r) PROVE Replayed'
  BY <1>20 DEF CancelWrite
<1>21. ASSUME NEW r \in Request, CallerCancels(r) PROVE Replayed'
  BY <1>21 DEF CallerCancels
<1>22. ASSUME NEW r \in Request, ManagerCancels(r) PROVE Replayed'
  BY <1>22 DEF ManagerCancels
<1>23. CASE Close BY <1>23 DEF Close
<1>24. ASSUME NEW s \in Socket, CloseSocket(s) PROVE Replayed'
  BY <1>24 DEF CloseSocket
<1>25. ASSUME NEW s \in Socket, ReadFails(s) PROVE Replayed'
  BY <1>25 DEF ReadFails
<1>26. ASSUME NEW message \in sending, Send(message) PROVE Replayed'
  BY <1>26 DEF Send
<1>27. ASSUME NEW reply \in replies, ReadReply(reply) PROVE Replayed'
  <2>1. <<reply.request, use[reply.request]>> \in sent
    <3>1. <<reply.request, reply.socket>> \in sent /\ reply.request \in Request /\ reply.socket \in Socket
      OBVIOUS
    <3> QED BY <3>1
  <2>2. /\ UNCHANGED <<sent, use, pc, result, outcome>> /\ replies' \subseteq replies
        /\ \A m \in sending' : m \in sending \/ m = [request |-> reply.request, answer |-> reply.answer]
    BY <1>27 DEF ReadReply
  <2> QED BY <2>1, <2>2
<1>28. ASSUME NEW r \in Request, NEW s \in Socket, NEW answer \in Replies,
             ExchangeReplies(r, s, answer) PROVE Replayed'
  BY <1>28 DEF ExchangeReplies
<1>29. CASE UNCHANGED vars BY <1>29
<1> QED BY <1>1, <1>2, <1>3, <1>4, <1>5, <1>6, <1>7, <1>8, <1>9, <1>10, <1>11, <1>12, <1>13, <1>14, <1>15, <1>16, <1>17, <1>18, <1>19, <1>20, <1>21, <1>22, <1>23, <1>24, <1>25, <1>26, <1>27, <1>28, <1>29 DEF Next, Step

\* A request is written at most once, whatever it loses, and an answer of the
\* exchange is returned only for one that was written.
THEOREM NeverReplayed == Spec => []SentOnce
<1>1. Init => Replayed BY DEF Init, Replayed, NoResult
<1>2. Replayed => SentOnce BY DEF Replayed, SentOnce
<1> QED BY <1>1, <1>2, ReplayedStep, Typed, PTL DEF Spec

---------------------------------------------------------------------------
(* What a call returns says what became of it: the contract.               *)

\* Why requestCtx is done, and who says "closed"; and where the goroutine is
\* tells whether its request was written: what it returns rests on that.
Explained ==
    /\ \A r \in ctx : r \in caller \/ closed
    /\ \A m \in sending : m.answer = "closed" => closed
    /\ \A r \in Request : result[r] = "closed" => closed
    /\ \A r \in Request : pc[r] \in {"written", "wait"} => <<r, use[r]>> \in sent
    /\ \A r \in Request, s \in Socket :
         pc[r] \in {"writeFailed", "remove", "disconnect", "drop"} => <<r, s>> \notin sent

\* Every step keeps what explains the outcomes.
LEMMA ExplainedStep ==
    ASSUME TypeOK, Placed, Replayed, Explained, [Next]_vars PROVE Explained'
<1> USE DEF callVars, mapVars, sockVars, netVars, vars, Goto, Return, Disconnect, FailPending,
            Unsent, NoResult, OnSocket, TypeOK, Placed, Replayed, Explained
<1>1. ASSUME NEW r \in Request, Call(r) PROVE Explained'
  BY <1>1 DEF Call
<1>2. ASSUME NEW r \in Request, AcquirePermit(r) PROVE Explained'
  BY <1>2 DEF AcquirePermit
<1>3. ASSUME NEW r \in Request, Register(r) PROVE Explained'
  BY <1>3 DEF Register
<1>4. ASSUME NEW r \in Request, FindConnection(r) PROVE Explained'
  BY <1>4 DEF FindConnection, Connection
<1>5. ASSUME NEW r \in Request, LockDial(r) PROVE Explained'
  BY <1>5 DEF LockDial, Connection
<1>6. ASSUME NEW r \in Request, DialSucceeds(r) PROVE Explained'
  BY <1>6 DEF DialSucceeds
<1>7. ASSUME NEW r \in Request, DialFails(r) PROVE Explained'
  BY <1>7 DEF DialFails
<1>8. ASSUME NEW r \in Request, Adopt(r) PROVE Explained'
  BY <1>8 DEF Adopt
<1>9. ASSUME NEW r \in Request, LockWrite(r) PROVE Explained'
  BY <1>9 DEF LockWrite
<1>10. ASSUME NEW r \in Request, Limiter(r) PROVE Explained'
  BY <1>10 DEF Limiter
<1>11. ASSUME NEW r \in Request, WriteSucceeds(r) PROVE Explained'
  BY <1>11 DEF WriteSucceeds
<1>12. ASSUME NEW r \in Request, WriteFails(r) PROVE Explained'
  BY <1>12 DEF WriteFails
<1>13. ASSUME NEW r \in Request, EndWrite(r) PROVE Explained'
  BY <1>13 DEF EndWrite
<1>14. ASSUME NEW r \in Request, RemoveFailed(r) PROVE Explained'
  BY <1>14 DEF RemoveFailed
<1>15. ASSUME NEW r \in Request, DisconnectFailed(r) PROVE Explained'
  BY <1>15 DEF DisconnectFailed
<1>16. ASSUME NEW r \in Request, GiveUp(r) PROVE Explained'
  BY <1>16 DEF GiveUp
<1>17. ASSUME NEW r \in Request, Drop(r) PROVE Explained'
  BY <1>17 DEF Drop
<1>18. ASSUME NEW r \in Request, TakeResult(r) PROVE Explained'
  BY <1>18 DEF TakeResult
<1>19. ASSUME NEW r \in Request, Abandon(r) PROVE Explained'
  BY <1>19 DEF Abandon
<1>20. ASSUME NEW r \in Request, CancelWrite(r) PROVE Explained'
  BY <1>20 DEF CancelWrite
<1>21. ASSUME NEW r \in Request, CallerCancels(r) PROVE Explained'
  BY <1>21 DEF CallerCancels
<1>22. ASSUME NEW r \in Request, ManagerCancels(r) PROVE Explained'
  BY <1>22 DEF ManagerCancels
<1>23. CASE Close BY <1>23 DEF Close
<1>24. ASSUME NEW s \in Socket, CloseSocket(s) PROVE Explained'
  BY <1>24 DEF CloseSocket
<1>25. ASSUME NEW s \in Socket, ReadFails(s) PROVE Explained'
  BY <1>25 DEF ReadFails
<1>26. ASSUME NEW message \in sending, Send(message) PROVE Explained'
  BY <1>26 DEF Send
<1>27. ASSUME NEW reply \in replies, ReadReply(reply) PROVE Explained'
  BY <1>27 DEF ReadReply
<1>28. ASSUME NEW r \in Request, NEW s \in Socket, NEW answer \in Replies,
             ExchangeReplies(r, s, answer) PROVE Explained'
  BY <1>28 DEF ExchangeReplies
<1>29. CASE UNCHANGED vars BY <1>29
<1> QED BY <1>1, <1>2, <1>3, <1>4, <1>5, <1>6, <1>7, <1>8, <1>9, <1>10, <1>11, <1>12, <1>13, <1>14, <1>15, <1>16, <1>17, <1>18, <1>19, <1>20, <1>21, <1>22, <1>23, <1>24, <1>25, <1>26, <1>27, <1>28, <1>29 DEF Next, Step

\* What the proof of the contract rests on.
Accountable == TypeOK /\ Placed /\ Ownership /\ Replayed /\ Explained

\* It holds in every state.
LEMMA AccountableHolds == Spec => []Accountable
<1>1. Init => Replayed /\ Explained BY DEF Init, Replayed, Explained, NoResult
<1>2. TypeOK /\ Placed /\ Replayed /\ Explained /\ [Next]_vars => Replayed' /\ Explained'
  BY ReplayedStep, ExplainedStep
<1> QED BY <1>1, <1>2, OwnershipHolds, PTL DEF Spec, Accountable

\* The mapped stages, and the requests some socket took whole.
Stages == [r \in Request |-> StageOf(r)]
Whole == {r \in Request : \E s \in Socket : <<r, s>> \in sent}

\* The stage of a request follows its goroutine; the others keep theirs.
LEMMA StageMoves ==
    ASSUME TypeOK, NEW r \in Request, NEW to, pc' = [pc EXCEPT ![r] = to]
    PROVE  /\ Stages' = [Stages EXCEPT ![r] = StageOf(r)']
           /\ Stages[r] = StageOf(r) /\ pc'[r] = to
           /\ StageOf(r)' = StageOf(r) => Stages' = Stages
<1>1. pc'[r] = to BY DEF TypeOK
<1>2. \A q \in Request \ {r} : pc'[q] = pc[q] BY DEF TypeOK
<1>3. \A q \in Request \ {r} : StageOf(q)' = StageOf(q) BY <1>2 DEF StageOf
<1> QED BY <1>1, <1>3 DEF Stages

\* What is on its way, about to be sent or received counts as said, and
\* nothing else does.
LEMMA WhatWasSaid ==
    /\ \A q \in replies : <<q.request, q.answer>> \in Said
    /\ \A m \in sending : m.answer \in {"ok", "refused"} => <<m.request, m.answer>> \in Said
    /\ \A r \in Request : result[r] \in {"ok", "refused"} => <<r, result[r]>> \in Said
BY DEF Said

\* Answers that only move from one of the three places to another, or vanish.
LEMMA SaidOnly ==
    ASSUME NEW S,
           \A q \in replies' : <<q.request, q.answer>> \in S,
           \A m \in sending' : m.answer \in {"ok", "refused"} => <<m.request, m.answer>> \in S,
           \A r \in Request : result'[r] \in {"ok", "refused"} => <<r, result'[r]>> \in S
    PROVE  Said' \subseteq S
BY DEF Said

\* A step that leaves the answers where they are, or announces a lost socket or
\* a closed client instead, says nothing new.
LEMMA NothingSaid ==
    ASSUME replies' = replies, result' = result,
           \A m \in sending' : m.answer \in {"ok", "refused"} => m \in sending
    PROVE  Said' \subseteq Said
BY WhatWasSaid, SaidOnly

\* A step of its goroutine that neither writes nor returns a request.
LEMMA MovesUnseen ==
    ASSUME TypeOK, NEW r \in Request, NEW to, Goto(r, to), StageOf(r)' = StageOf(r),
           UNCHANGED <<closed, caller, sent, replies, sending, result, outcome>>
    PROVE  Promise!ContractNext
<1>1. Stages' = Stages BY StageMoves DEF Goto
<1>2. Said' \subseteq Said BY NothingSaid
<1> QED BY <1>1, <1>2 DEF Promise!ContractNext, Promise!Lose, Stages

\* A step of somebody else that at most moves or loses answers.
LEMMA OthersUnseen ==
    ASSUME Said' \subseteq Said, UNCHANGED <<pc, closed, caller, sent, outcome>>
    PROVE  Promise!ContractNext
<1>1. Stages' = Stages BY DEF Stages, StageOf
<1> QED BY <1>1 DEF Promise!ContractNext, Promise!Lose, Stages

\* A call that returns a justified value.
LEMMA ReturnsJustified ==
    ASSUME TypeOK, NEW r \in Request, NEW value \in Outcome, Return(r, value),
           pc[r] \notin {"idle", "returned"}, Promise!Justified(r, value),
           Said' \subseteq Said, UNCHANGED <<closed, caller, sent>>
    PROVE  Promise!ContractNext
<1>1. /\ Stages' = [Stages EXCEPT ![r] = "over"] /\ Stages[r] \in {"asked", "accepted"}
  <2>1. pc' = [pc EXCEPT ![r] = "returned"] BY DEF Return, Goto
  <2>2. /\ Stages' = [Stages EXCEPT ![r] = StageOf(r)'] /\ Stages[r] = StageOf(r)
        /\ pc'[r] = "returned"
    BY <2>1, StageMoves
  <2> QED BY <2>2 DEF StageOf
<1>2. Promise!Return(r, value) BY <1>1 DEF Promise!Return, Return, Stages
<1> QED BY <1>2 DEF Promise!ContractNext, Outcome, Answer

\* contextError explains the end of a done context, whatever it falls back on.
LEMMA ErrorExplained ==
    ASSUME Explained, NEW r \in Request, NEW fallback,
           \/ r \in ctx
           \/ fallback = "failed" /\ r \notin Whole /\ StageOf(r) = "accepted"
    PROVE  /\ Promise!Justified(r, ContextError(r, fallback))
           /\ ContextError(r, fallback) \in Outcome
<1>1. CASE r \in caller
  <2>1. ContextError(r, fallback) = "cancelled" BY <1>1 DEF ContextError
  <2> QED BY <1>1, <2>1 DEF Promise!Justified, Outcome
<1>2. CASE r \notin caller /\ closed
  <2>1. ContextError(r, fallback) = "closed" BY <1>2 DEF ContextError
  <2> QED BY <1>2, <2>1 DEF Promise!Justified, Outcome, Answer
<1>3. CASE r \notin caller /\ ~closed
  <2>1. ContextError(r, fallback) = fallback BY <1>3 DEF ContextError
  <2>2. fallback = "failed" /\ r \notin Whole /\ StageOf(r) = "accepted" BY <1>3 DEF Explained
  <2> QED BY <2>1, <2>2 DEF Promise!Justified, Outcome, Whole
<1> QED BY <1>1, <1>2, <1>3

\* The contract counts as the gate does.
LEMMA SameCount == ASSUME NEW S PROVE Promise!Cardinality(S) = Cardinality(S)
BY DEF Promise!Cardinality, Cardinality

\* Fewer than Limit requests are accepted when another one registers: they
\* hold permits, and so does the one that registers.
LEMMA RoomForAnother ==
    ASSUME TypeOK, Held, PermitsBounded, NEW r \in Request, pc[r] = "register"
    PROVE  Cardinality({q \in Request : Stages[q] = "accepted"}) < Limit
<1> DEFINE A == {q \in Request : Stages[q] = "accepted"}
<1>1. A \subseteq permits \ {r} /\ r \in permits BY DEF Stages, StageOf, Held, TypeOK, Places
<1>2. IsFiniteSet(permits) /\ permits \subseteq Request /\ Cardinality(permits) \in Nat
  BY PostAssumption, FS_Subset, FS_CardinalityType DEF TypeOK
<1>3. IsFiniteSet(permits \ {r}) /\ Cardinality(permits \ {r}) = Cardinality(permits) - 1
  BY <1>1, <1>2, FS_RemoveElement
<1>4. Cardinality(A) <= Cardinality(permits \ {r}) /\ Cardinality(A) \in Nat
  BY <1>1, <1>3, FS_Subset, FS_CardinalityType
<1> QED BY <1>2, <1>3, <1>4, PostAssumption DEF PermitsBounded

\* Registration is acceptance, or the refusal of a closed manager.
LEMMA RegisterAccepts ==
    ASSUME Accountable, NEW r \in Request, Register(r) PROVE Promise!ContractNext
<1> USE DEF Accountable, Ownership
<1>1. pc[r] = "register" /\ UNCHANGED <<closed, caller, sent, replies, sending, result>>
  BY DEF Register, netVars
<1>2. Said' \subseteq Said BY <1>1, NothingSaid
<1>3. CASE closed
  <2>1. Return(r, "closed") BY <1>3 DEF Register
  <2>2. Promise!Justified(r, "closed") /\ "closed" \in Outcome
    BY <1>3 DEF Promise!Justified, Outcome, Answer
  <2> QED BY <1>1, <1>2, <2>1, <2>2, ReturnsJustified
<1>4. CASE ~closed
  <2>1. Goto(r, "connection") /\ outcome' = outcome BY <1>4 DEF Register
  <2>2. Stages[r] = "asked" /\ Stages' = [Stages EXCEPT ![r] = "accepted"]
    <3>1. Stages' = [Stages EXCEPT ![r] = StageOf(r)'] /\ Stages[r] = StageOf(r) /\ pc'[r] = "connection"
      BY <2>1, StageMoves DEF Goto
    <3> QED BY <1>1, <3>1 DEF StageOf
  <2>3. Said' = Said BY <1>1 DEF Said
  <2>4. Promise!Accept(r)
    BY <1>1, <1>4, <2>1, <2>2, <2>3, RoomForAnother, SameCount
    DEF Promise!Accept, Promise!Accepted, Stages
  <2> QED BY <2>4 DEF Promise!ContractNext
<1> QED BY <1>3, <1>4

\* A complete write is the only one of its request.
LEMMA WriteIsFirst ==
    ASSUME Accountable, NEW r \in Request, WriteSucceeds(r) PROVE Promise!ContractNext
<1>1. /\ pc[r] = "write" /\ use[r] \in Socket /\ Goto(r, "written")
      /\ sent' = sent \cup {<<r, use[r]>>}
      /\ UNCHANGED <<closed, caller, replies, sending, result, outcome>>
  BY DEF WriteSucceeds, callVars, mapVars, Accountable, Placed, OnSocket
<1>2. Stages' = Stages /\ Stages[r] = "accepted"
  <2>1. pc'[r] = "written" /\ Stages[r] = StageOf(r) /\ (StageOf(r)' = StageOf(r) => Stages' = Stages)
    BY <1>1, StageMoves DEF Goto, Accountable
  <2> QED BY <1>1, <2>1 DEF StageOf
<1>3. r \notin Whole BY <1>1 DEF Whole, Accountable, Replayed, Unsent
<1>4. Whole' = Whole \cup {r} BY <1>1 DEF Whole
<1>5. Said' = Said BY <1>1 DEF Said
<1>6. Promise!Write(r) BY <1>1, <1>2, <1>3, <1>4, <1>5 DEF Promise!Write, Stages, Whole
<1> QED BY <1>6 DEF Promise!ContractNext

\* After a failed write the request was not written, and says so unless its
\* context is done.
LEMMA FailureExplained ==
    ASSUME Accountable, NEW r \in Request, DisconnectFailed(r) PROVE Promise!ContractNext
<1> DEFINE v == IF r \in ctx THEN ContextError(r, "cancelled") ELSE "failed"
<1>1. /\ pc[r] = "disconnect" /\ Return(r, v)
      /\ UNCHANGED <<closed, caller, sent, replies, result>>
      /\ \A m \in sending' : m.answer \in {"ok", "refused"} => m \in sending
  BY DEF DisconnectFailed, Disconnect, FailPending, netVars
<1>2. Said' \subseteq Said BY <1>1, NothingSaid
<1>3. r \notin Whole /\ StageOf(r) = "accepted" BY <1>1 DEF Whole, Accountable, Explained, StageOf
<1>4. Promise!Justified(r, v) /\ v \in Outcome
  <2>1. CASE r \in ctx BY <2>1, ErrorExplained DEF Accountable
  <2>2. CASE r \notin ctx BY <1>3, <2>2 DEF Promise!Justified, Whole, Outcome
  <2> QED BY <2>1, <2>2
<1> HIDE DEF v
<1> QED BY <1>1, <1>2, <1>4, ReturnsJustified DEF Accountable

\* A wait that its context ends, or a connection that could not be had.
LEMMA EndExplained ==
    ASSUME Accountable, NEW r \in Request, GiveUp(r) \/ Drop(r) \/ Abandon(r)
    PROVE  Promise!ContractNext
<1>1. PICK fallback \in {"cancelled", "failed"} :
        /\ Return(r, ContextError(r, fallback)) /\ pc[r] \notin {"idle", "returned"}
        /\ r \in ctx \/ (fallback = "failed" /\ pc[r] = "drop")
  BY DEF GiveUp, Drop, Abandon
<1>2. UNCHANGED <<closed, caller, sent, replies, sending, result>>
  BY DEF GiveUp, Drop, Abandon, netVars, mapVars
<1>3. Said' \subseteq Said BY <1>2, NothingSaid
<1>4. r \in ctx \/ (fallback = "failed" /\ r \notin Whole /\ StageOf(r) = "accepted")
  BY <1>1 DEF Whole, Accountable, Explained, StageOf
<1>5. /\ Promise!Justified(r, ContextError(r, fallback))
      /\ ContextError(r, fallback) \in Outcome
  BY <1>4, ErrorExplained DEF Accountable
<1> QED BY <1>1, <1>2, <1>3, <1>5, ReturnsJustified DEF Accountable

\* What the channel holds was said by the exchange, or is true of the socket
\* or of the client.
LEMMA ResultExplained ==
    ASSUME Accountable, NEW r \in Request, TakeResult(r) PROVE Promise!ContractNext
<1>1. /\ pc[r] = "wait" /\ result[r] \in Answer /\ Return(r, result[r])
      /\ result' = [result EXCEPT ![r] = NoResult] /\ result \in [Request -> Answer \cup {NoResult}]
      /\ UNCHANGED <<closed, caller, sent, replies, sending>>
  BY DEF TakeResult, netVars, Accountable, TypeOK
<1>2. Said' \subseteq Said
  <2>1. \A q \in Request : result'[q] \in {"ok", "refused"} => result'[q] = result[q]
    BY <1>1 DEF NoResult
  <2> QED BY <1>1, <2>1, WhatWasSaid, SaidOnly
<1>3. r \in Whole BY <1>1 DEF Whole, Accountable, Explained, Placed, OnSocket
<1>4. Promise!Justified(r, result[r])
  <2>1. CASE result[r] \in {"ok", "refused"} BY <2>1, WhatWasSaid DEF Promise!Justified
  <2>2. CASE result[r] = "lost" BY <1>3, <2>2 DEF Promise!Justified, Whole
  <2>3. CASE result[r] = "closed"
    <3>1. closed BY <2>3 DEF Accountable, Explained
    <3> QED BY <2>3, <3>1 DEF Promise!Justified
  <2> QED BY <1>1, <2>1, <2>2, <2>3 DEF Answer
<1> HIDE DEF Accountable
<1>5. result[r] \in Outcome /\ TypeOK BY <1>1 DEF Outcome, Accountable
<1> QED BY <1>1, <1>2, <1>4, <1>5, ReturnsJustified

\* A send moves an answer into the channel or gives it up.
LEMMA SendUnseen ==
    ASSUME TypeOK, NEW message \in sending, Send(message) PROVE Promise!ContractNext
<1>1. /\ UNCHANGED <<pc, closed, caller, sent, outcome, replies>> /\ sending' \subseteq sending
      /\ message.request \in Request
      /\ \A r \in Request : result'[r] = result[r]
           \/ (r = message.request /\ result'[r] = message.answer)
  BY DEF Send, callVars, netVars, TypeOK
<1>2. Said' \subseteq Said BY <1>1, WhatWasSaid, SaidOnly
<1> QED BY <1>1, <1>2, OthersUnseen

\* A reply that nobody waits for vanishes; another one is about to be sent.
LEMMA ReplyUnseen ==
    ASSUME TypeOK, NEW reply \in replies, ReadReply(reply) PROVE Promise!ContractNext
<1>1. /\ UNCHANGED <<pc, closed, caller, sent, outcome, result>> /\ replies' \subseteq replies
      /\ \A m \in sending' : m \in sending
           \/ (m.request = reply.request /\ m.answer = reply.answer)
  BY DEF ReadReply, callVars
<1>2. Said' \subseteq Said BY <1>1, WhatWasSaid, SaidOnly
<1> QED BY <1>1, <1>2, OthersUnseen

\* The exchange only answers what was written.
LEMMA ReplySays ==
    ASSUME TypeOK, NEW r \in Request, NEW s \in Socket, NEW answer \in Replies,
           ExchangeReplies(r, s, answer)
    PROVE  Promise!ContractNext
<1>1. /\ <<r, s>> \in sent /\ answer \in {"ok", "refused"}
      /\ replies' = replies \cup {[request |-> r, socket |-> s, answer |-> answer]}
      /\ UNCHANGED <<pc, closed, caller, sent, outcome, sending, result>>
  BY PostAssumption DEF ExchangeReplies, callVars, mapVars
<1>2. Said' = Said \cup {<<r, answer>>}
  <2> DEFINE new == [request |-> r, socket |-> s, answer |-> answer]
  <2>1. {<<q.request, q.answer>> : q \in replies'}
          = {<<q.request, q.answer>> : q \in replies} \cup {<<r, answer>>}
    <3>1. new.request = r /\ new.answer = answer OBVIOUS
    <3>2. replies' = replies \cup {new} BY <1>1
    <3> HIDE DEF new
    <3> QED BY <3>1, <3>2
  <2> QED BY <1>1, <2>1 DEF Said
<1>3. Stages' = Stages BY <1>1 DEF Stages, StageOf
<1>4. r \in Whole BY <1>1 DEF Whole
<1>5. Promise!Say(r, answer) BY <1>1, <1>2, <1>3, <1>4 DEF Promise!Say, Stages, Whole
<1> QED BY <1>1, <1>5 DEF Promise!ContractNext

\* Cancellation by the caller, and close.
LEMMA CancelAndClose ==
    ASSUME TypeOK, Close \/ \E r \in Request : CallerCancels(r)
    PROVE  Promise!ContractNext
<1>1. ASSUME NEW r \in Request, CallerCancels(r) PROVE Promise!ContractNext
  <2>1. /\ pc[r] \notin {"idle", "returned"} /\ r \notin caller /\ caller' = caller \cup {r}
        /\ UNCHANGED <<pc, closed, sent, replies, sending, result, outcome>>
    BY <1>1 DEF CallerCancels, mapVars, netVars
  <2>2. Stages' = Stages /\ Said' = Said BY <2>1 DEF Stages, StageOf, Said
  <2>3. Stages[r] \in {"asked", "accepted"} BY <2>1 DEF Stages, StageOf
  <2>4. Promise!CancelIt(r) BY <2>1, <2>2, <2>3 DEF Promise!CancelIt, Stages
  <2> QED BY <2>4 DEF Promise!ContractNext
<1>2. ASSUME Close PROVE Promise!ContractNext
  <2>1. /\ ~closed /\ closed' = TRUE
        /\ UNCHANGED <<pc, caller, sent, replies, result, outcome>>
        /\ sending' = sending \cup {[request |-> q, answer |-> "closed"] : q \in pending}
    BY <1>2 DEF Close, FailPending, callVars, netVars
  <2>2. Stages' = Stages BY <2>1 DEF Stages, StageOf
  <2>3. Said' = Said BY <2>1 DEF Said
  <2>4. Promise!Shut BY <2>1, <2>2, <2>3 DEF Promise!Shut, Stages
  <2> QED BY <2>4 DEF Promise!ContractNext
<1> QED BY <1>1, <1>2

\* Every other step of a request's goroutine stays within its stage.
LEMMA RequestUnseen ==
    ASSUME TypeOK, NEW r \in Request,
           \/ AcquirePermit(r) \/ FindConnection(r) \/ LockDial(r) \/ DialSucceeds(r)
           \/ DialFails(r) \/ Adopt(r) \/ LockWrite(r) \/ Limiter(r) \/ WriteFails(r)
           \/ EndWrite(r) \/ RemoveFailed(r)
    PROVE  Promise!ContractNext
<1>1. UNCHANGED <<closed, caller, sent, replies, sending, result, outcome>>
  BY DEF AcquirePermit, FindConnection, LockDial, Connection, DialSucceeds, DialFails, Adopt,
         LockWrite, Limiter, WriteFails, EndWrite, RemoveFailed, callVars, mapVars, netVars
<1>2. \E to : /\ Goto(r, to)
              /\ \/ pc[r] = "acquire" /\ to = "register"
                 \/ /\ pc[r] \notin {"idle", "acquire", "register", "returned"}
                    /\ to \notin {"idle", "acquire", "register", "returned"}
  BY DEF AcquirePermit, FindConnection, LockDial, Connection, DialSucceeds, DialFails, Adopt,
         LockWrite, Limiter, WriteFails, EndWrite, RemoveFailed
<1>3. PICK to : /\ Goto(r, to)
                /\ \/ pc[r] = "acquire" /\ to = "register"
                   \/ /\ pc[r] \notin {"idle", "acquire", "register", "returned"}
                      /\ to \notin {"idle", "acquire", "register", "returned"}
  BY <1>2
<1>4. pc'[r] = to BY <1>3 DEF Goto, TypeOK
<1>5. StageOf(r)' = StageOf(r) BY <1>3, <1>4 DEF StageOf
<1> QED BY <1>1, <1>3, <1>5, MovesUnseen

\* Cancellation by the manager, its AfterFunc, read errors and closing sockets
\* add no answer of the exchange.
LEMMA SocketsUnseen ==
    ASSUME \/ \E r \in Request : CancelWrite(r) \/ ManagerCancels(r)
           \/ \E s \in Socket : CloseSocket(s) \/ ReadFails(s)
    PROVE  Promise!ContractNext
<1> USE DEF callVars, mapVars, netVars, Disconnect, FailPending
<1> DEFINE Silent == /\ UNCHANGED <<pc, closed, caller, sent, outcome, replies, result>>
                     /\ \A m \in sending' : m.answer \in {"ok", "refused"} => m \in sending
<1>1. ASSUME NEW r \in Request, CancelWrite(r) PROVE Silent BY <1>1 DEF CancelWrite
<1>2. ASSUME NEW r \in Request, ManagerCancels(r) PROVE Silent BY <1>2 DEF ManagerCancels
<1>3. ASSUME NEW s \in Socket, CloseSocket(s) PROVE Silent BY <1>3 DEF CloseSocket
<1>4. ASSUME NEW s \in Socket, ReadFails(s) PROVE Silent BY <1>4 DEF ReadFails
<1>5. Silent BY <1>1, <1>2, <1>3, <1>4
<1> QED BY <1>5, NothingSaid, OthersUnseen

\* Every step of the POST manager is one of the contract, or none.
LEMMA PromiseStep ==
    ASSUME Accountable, [Next]_vars PROVE [Promise!ContractNext]_Promise!contractVars
<1>1. ASSUME NEW r \in Request, Call(r) PROVE Promise!ContractNext
  <2>1. /\ pc[r] = "idle" /\ Goto(r, "acquire")
        /\ UNCHANGED <<closed, caller, sent, replies, sending, result, outcome>>
    BY <1>1 DEF Call, callVars, mapVars, netVars
  <2>2. Stages[r] = "idle" /\ Stages' = [Stages EXCEPT ![r] = "asked"]
    BY <2>1, StageMoves DEF Goto, StageOf, Accountable
  <2>3. Said' = Said BY <2>1 DEF Said
  <2>4. Promise!Ask(r) BY <2>1, <2>2, <2>3 DEF Promise!Ask, Stages
  <2> QED BY <2>4 DEF Promise!ContractNext
<1>2. ASSUME NEW r \in Request, Step(r) PROVE Promise!ContractNext
  <2>1. CASE Register(r) BY <2>1, RegisterAccepts
  <2>2. CASE WriteSucceeds(r) BY <2>2, WriteIsFirst
  <2>3. CASE DisconnectFailed(r) BY <2>3, FailureExplained
  <2>4. CASE GiveUp(r) \/ Drop(r) \/ Abandon(r) BY <2>4, EndExplained
  <2>5. CASE TakeResult(r) BY <2>5, ResultExplained
  <2> QED BY <1>2, <2>1, <2>2, <2>3, <2>4, <2>5, RequestUnseen DEF Step, Accountable
<1>3. ASSUME NEW r \in Request, CancelWrite(r) \/ ManagerCancels(r) PROVE Promise!ContractNext
  BY <1>3, SocketsUnseen
<1>4. ASSUME NEW s \in Socket, CloseSocket(s) \/ ReadFails(s) PROVE Promise!ContractNext
  BY <1>4, SocketsUnseen
<1>5. ASSUME NEW r \in Request, CallerCancels(r) PROVE Promise!ContractNext
  BY <1>5, CancelAndClose DEF Accountable
<1>6. CASE Close BY <1>6, CancelAndClose DEF Accountable
<1>7. ASSUME NEW message \in sending, Send(message) PROVE Promise!ContractNext
  BY <1>7, SendUnseen DEF Accountable
<1>8. ASSUME NEW reply \in replies, ReadReply(reply) PROVE Promise!ContractNext
  BY <1>8, ReplyUnseen DEF Accountable
<1>9. ASSUME NEW r \in Request, NEW s \in Socket, NEW answer \in Replies,
             ExchangeReplies(r, s, answer) PROVE Promise!ContractNext
  BY <1>9, ReplySays DEF Accountable
<1>10. CASE UNCHANGED vars
  BY <1>10 DEF vars, callVars, mapVars, netVars, StageOf, Said, Promise!contractVars
<1> QED BY <1>1, <1>2, <1>3, <1>4, <1>5, <1>6, <1>7, <1>8, <1>9, <1>10 DEF Next

\* For any number of requests and sockets and any capacity, postManager keeps
\* the promises of PostContract: a request is written at most once, after it
\* was accepted and with at most Limit accepted at a time, and what request
\* returns tells its caller whether the exchange may have acted on it.
THEOREM KeepsItsPromise == Spec => KeepsPostContract
<1>1. Init => Promise!ContractInit
  <2> SUFFICES ASSUME Init PROVE Promise!ContractInit
    OBVIOUS
  <2>1. Said = {} BY DEF Init, Said, NoResult
  <2>2. \A r \in Request : StageOf(r) = "idle" BY DEF Init, StageOf
  <2> QED BY <2>1, <2>2 DEF Init, NoResult, Promise!ContractInit
<1>2. Accountable /\ [Next]_vars => [Promise!ContractNext]_Promise!contractVars BY PromiseStep
<1> QED BY <1>1, <1>2, AccountableHolds, PTL DEF Spec, KeepsPostContract, Promise!ContractSafety

===========================================================================
