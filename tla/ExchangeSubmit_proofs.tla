----------------------- MODULE ExchangeSubmit_proofs -----------------------
(***************************************************************************)
(* What the Exchange client guarantees for any number of concurrent calls, *)
(* any requests, settings and clock.                                        *)
(***************************************************************************)
EXTENDS ExchangeSubmit, FiniteSetTheorems, SequenceTheorems, WellFoundedInduction, TLAPS

---------------------------------------------------------------------------
(* The nonce manager by itself: the nonces of an address strictly increase, *)
(* for every set of addresses, every clock and any number of calls.         *)

\* What NoncesIncrease needs to be inductive: last bounds what was issued.
NonceInv == NonceTypeOK /\ NoncesIncrease /\ LastBounds

\* MonotonicManager.Next returns more than every nonce before it: the clock when
\* it is ahead of last, and last + 1 otherwise.
LEMMA NextValueGrows ==
    ASSUME NonceTypeOK, NEW a \in Addresses
    PROVE  /\ NextValue(a) \in Nat
           /\ NextValue(a) > last[a]
           /\ NextValue(a) > 0
BY TimesAssumption DEF NonceTypeOK, NextValue

\* One call of MonotonicManager.Next keeps the invariant of every address.
LEMMA NextNonceStep ==
    ASSUME NonceInv, NEW a \in Addresses, NextNonce(a)
    PROVE  NonceInv'
<1> DEFINE v == NextValue(a)
<1>1. v \in Nat /\ v > last[a] /\ v > 0
  BY NextValueGrows DEF NonceInv
<1>2. /\ last' = [last EXCEPT ![a] = v]
      /\ issued' = [issued EXCEPT ![a] = Append(issued[a], v)]
      /\ clock' = clock
  BY DEF NextNonce
<1> HIDE DEF v
<1>3. /\ last \in [Addresses -> Nat]
      /\ issued \in [Addresses -> Seq(Nat)]
      /\ clock \in Times
  BY DEF NonceInv, NonceTypeOK
<1>4. NonceTypeOK'
  BY <1>1, <1>2, <1>3 DEF NonceTypeOK
<1>5. /\ issued'[a] = Append(issued[a], v)
      /\ last'[a] = v
      /\ \A b \in Addresses \ {a} : issued'[b] = issued[b] /\ last'[b] = last[b]
  BY <1>2, <1>3
<1>6. /\ Len(issued'[a]) = Len(issued[a]) + 1
      /\ \A i \in 1..Len(issued[a]) : issued'[a][i] = issued[a][i]
      /\ issued'[a][Len(issued[a]) + 1] = v
      /\ Len(issued[a]) \in Nat
      /\ issued[a] \in Seq(Nat)
      /\ \A i \in 1..Len(issued[a]) : issued[a][i] \in Nat
  BY <1>1, <1>3, <1>5
<1>7. \A i \in 1..Len(issued[a]) : issued[a][i] <= last[a]
  BY DEF NonceInv, LastBounds
<1>8. LastBounds'
  <2>1. SUFFICES ASSUME NEW b \in Addresses, NEW i \in 1..Len(issued'[b])
                 PROVE  issued'[b][i] <= last'[b]
    BY DEF LastBounds
  <2>2. CASE b = a
    <3>1. i \in 1..Len(issued[a]) \/ i = Len(issued[a]) + 1
      BY <1>6, <2>1, <2>2
    <3>2. last'[b] = v /\ last[a] \in Nat
      BY <1>3, <1>5, <2>2
    <3>3. CASE i \in 1..Len(issued[a])
      <4>1. issued'[b][i] = issued[a][i] /\ issued[a][i] \in Nat /\ issued[a][i] <= last[a]
        BY <1>6, <1>7, <2>2, <3>3
      <4>2. QED
        BY <1>1, <3>2, <4>1
    <3>4. CASE i = Len(issued[a]) + 1
      <4>1. issued'[b][i] = v
        BY <1>6, <2>2, <3>4
      <4>2. QED
        BY <1>1, <3>2, <4>1
    <3>5. QED
      BY <3>1, <3>3, <3>4
  <2>3. CASE b # a
    BY <1>5, <2>1, <2>3 DEF NonceInv, LastBounds
  <2>4. QED
    BY <2>2, <2>3
<1>9. NoncesIncrease'
  <2>1. SUFFICES ASSUME NEW b \in Addresses, NEW i \in 1..Len(issued'[b])
                 PROVE  /\ issued'[b][i] > 0
                        /\ \A j \in 1..Len(issued'[b]) : i < j => issued'[b][i] < issued'[b][j]
    BY DEF NoncesIncrease
  <2>2. CASE b = a
    <3>1. \A k \in 1..Len(issued[a]) :
              /\ issued[a][k] > 0
              /\ \A j \in 1..Len(issued[a]) : k < j => issued[a][k] < issued[a][j]
      BY DEF NonceInv, NoncesIncrease
    <3>2. \A k \in 1..Len(issued[a]) : issued[a][k] < v
      BY <1>1, <1>3, <1>6, <1>7
    <3>3. SUFFICES ASSUME NEW k \in 1..(Len(issued[a]) + 1)
                   PROVE  /\ issued'[a][k] > 0
                          /\ \A j \in 1..(Len(issued[a]) + 1) : k < j => issued'[a][k] < issued'[a][j]
      BY <1>6, <2>1, <2>2
    <3>4. CASE k \in 1..Len(issued[a])
      <4>1. issued'[a][k] = issued[a][k] /\ issued[a][k] > 0
        BY <1>6, <3>1, <3>4
      <4>2. ASSUME NEW j \in 1..(Len(issued[a]) + 1), k < j
            PROVE  issued'[a][k] < issued'[a][j]
        <5>1. CASE j \in 1..Len(issued[a])
          BY <1>6, <3>1, <3>4, <4>1, <4>2, <5>1
        <5>2. CASE j = Len(issued[a]) + 1
          BY <1>6, <3>2, <3>4, <4>1, <5>2
        <5>3. QED
          BY <1>6, <4>2, <5>1, <5>2
      <4>3. QED
        BY <4>1, <4>2
    <3>5. CASE k = Len(issued[a]) + 1
      <4>1. issued'[a][k] = v
        BY <1>6, <3>5
      <4>2. \A j \in 1..(Len(issued[a]) + 1) : ~(k < j)
        BY <1>6, <3>5
      <4>3. QED
        BY <1>1, <4>1, <4>2
    <3>6. QED
      BY <1>6, <3>3, <3>4, <3>5
  <2>3. CASE b # a
    BY <1>5, <2>1, <2>3 DEF NonceInv, NoncesIncrease
  <2>4. QED
    BY <2>2, <2>3
<1>10. QED
  BY <1>4, <1>8, <1>9 DEF NonceInv

\* A new manager has handed out nothing.
LEMMA NonceInitInv == NonceInit => NonceInv
<1>1. SUFFICES ASSUME NonceInit PROVE NonceInv
  OBVIOUS
<1>2. /\ clock \in Times
      /\ last = [a \in Addresses |-> 0]
      /\ issued = [a \in Addresses |-> <<>>]
  BY <1>1 DEF NonceInit
<1>3. \A a \in Addresses : Len(issued[a]) = 0 /\ issued[a] \in Seq(Nat)
  <2>1. Len(<<>>) = 0 /\ <<>> \in Seq(Nat)
    BY EmptySeq
  <2>2. QED
    BY <1>2, <2>1
<1>4. QED
  BY <1>2, <1>3 DEF NonceInv, NonceTypeOK, NoncesIncrease, LastBounds

\* MonotonicManager never repeats, reorders or zeroes a nonce of an address
\* (nonce/manager.go Next), for any clock.
THEOREM NonceOrder == NonceSpec => []NoncesIncrease
<1>1. NonceInit => NonceInv
  BY NonceInitInv
<1>2. NonceInv /\ [NonceNext]_nonceVars => NonceInv'
  <2>1. SUFFICES ASSUME NonceInv, [NonceNext]_nonceVars PROVE NonceInv'
    OBVIOUS
  <2>2. CASE Tick
    BY <2>1, <2>2 DEF Tick, NonceInv, NonceTypeOK, NoncesIncrease, LastBounds
  <2>3. CASE \E a \in Addresses : NextNonce(a)
    BY <2>1, <2>3, NextNonceStep
  <2>4. CASE UNCHANGED nonceVars
    BY <2>1, <2>4 DEF nonceVars, NonceInv, NonceTypeOK, NoncesIncrease, LastBounds
  <2>5. QED
    BY <2>1, <2>2, <2>3, <2>4 DEF NonceNext
<1>3. NonceInv => NoncesIncrease
  BY DEF NonceInv
<1>4. QED
  BY <1>1, <1>2, <1>3, PTL DEF NonceSpec

---------------------------------------------------------------------------
(* The nonce manager inside the client.                                    *)

\* Every step leaves the nonce manager alone, is one call of Next for the
\* signer of a request, or a reading of the clock.
LEMMA NonceSteps ==
    ASSUME [Next]_vars
    PROVE  \/ UNCHANGED nonceVars
           \/ Tick
           \/ \E c \in Calls : AllocateNonce(c) /\ NextNonce(SignerOf(req[c]))
<1>1. ASSUME NEW c \in Calls, Begin(c) \/ Resolve(c) \/ Collect(c) \/ Sign(c) \/ Post(c)
      PROVE  UNCHANGED nonceVars
  BY <1>1 DEF Begin, Resolve, Collect, Sign, Post
<1>2. ASSUME NEW c \in Calls, Receive(c) \/ Timeout(c) PROVE UNCHANGED nonceVars
  BY <1>2 DEF Receive, Timeout, nonceVars
<1>3. ASSUME NEW c \in Calls, AllocateNonce(c)
      PROVE  UNCHANGED nonceVars \/ NextNonce(SignerOf(req[c]))
  BY <1>3 DEF AllocateNonce
<1>4. ASSUME NEW m \in wire, ServerHandle(m) \/ Lose(m) PROVE UNCHANGED nonceVars
  BY <1>4 DEF ServerHandle, Lose, nonceVars
<1>5. CASE ClockTick BY <1>5 DEF ClockTick
<1>6. CASE UNCHANGED vars BY <1>6 DEF vars, nonceVars
<1> QED BY <1>1, <1>2, <1>3, <1>4, <1>5, <1>6 DEF Next, CallStep

\* A call of Next for an address nobody signs with cannot happen, so every step
\* keeps the invariant of the manager.
LEMMA NonceInvStep ==
    ASSUME NonceInv, [Next]_vars,
           \A c \in Calls : pc[c] # "idle" => SignerOf(req[c]) \in Addresses
    PROVE  NonceInv'
<1>1. CASE UNCHANGED nonceVars
  BY <1>1 DEF nonceVars, NonceInv, NonceTypeOK, NoncesIncrease, LastBounds
<1>2. CASE Tick
  BY <1>2 DEF Tick, NonceInv, NonceTypeOK, NoncesIncrease, LastBounds
<1>3. ASSUME NEW c \in Calls, AllocateNonce(c), NextNonce(SignerOf(req[c])) PROVE NonceInv'
  <2>1. SignerOf(req[c]) \in Addresses BY <1>3 DEF AllocateNonce
  <2> QED BY <1>3, <2>1, NextNonceStep
<1> QED BY <1>1, <1>2, <1>3, NonceSteps

---------------------------------------------------------------------------
(* Calls and their requests.                                               *)

Stages == {"idle", "resolve", "nonce", "collect", "sign", "post", "wait", "done"}
Answers == {"none", "ok", "malformedData", "gateway", "notOk", "notOkNull"}
Entry == [call : Calls, nonce : Nat]

\* The types of the state of the calls and of the network.
CallsTyped ==
    /\ config \in Configs
    /\ pc \in [Calls -> Stages]
    /\ DOMAIN req = Calls
    /\ nonce \in [Calls -> Nat]
    /\ result \in [Calls -> {"none", "ok", "notOk", "error"}]
    /\ reply \in [Calls -> Answers]
    /\ wire \subseteq Entry
    /\ executed \in Seq(Entry)
    /\ \A c \in Calls : pc[c] # "idle" => SignerOf(req[c]) \in Addresses /\ req[c].nonce \in Nat

\* A step of one call, or of the network, keeps the types.
LEMMA CallsTypedStep ==
    ASSUME NonceInv, CallsTyped, [Next]_vars PROVE CallsTyped'
<1> USE DEF serverVars, callVars
<1>f. ASSUME NEW c \in Calls, pc[c] # "idle", Fail(c) PROVE CallsTyped'
  BY <1>f DEF Fail, CallsTyped, Stages
<1>a. ASSUME NEW c \in Calls, NEW to \in Stages, pc[c] # "idle", Advance(c, to),
             nonce' = nonce
      PROVE  CallsTyped'
  BY <1>a DEF Advance, CallsTyped
<1>1. ASSUME NEW c \in Calls, Begin(c) PROVE CallsTyped'
  <2>1. PICK r \in Menu[config][c] :
          /\ req' = [req EXCEPT ![c] = r]
          /\ \/ pc' = [pc EXCEPT ![c] = "done"] /\ result' = [result EXCEPT ![c] = "error"]
             \/ pc' \in {[pc EXCEPT ![c] = "resolve"], [pc EXCEPT ![c] = "nonce"]} /\ result' = result
          /\ UNCHANGED <<config, nonce, serverVars>>
    BY <1>1 DEF Begin
  <2>2. SignerOf(r) \in Addresses /\ r.nonce \in Nat BY MenuAssumption DEF CallsTyped
  <2>3. \A d \in Calls : pc'[d] # "idle" => SignerOf(req'[d]) \in Addresses /\ req'[d].nonce \in Nat
    BY <2>1, <2>2 DEF CallsTyped
  <2>4. DOMAIN req' = Calls BY <2>1 DEF CallsTyped
  <2>5. pc' \in [Calls -> Stages] /\ result' \in [Calls -> {"none", "ok", "notOk", "error"}]
    BY <2>1 DEF CallsTyped, Stages
  <2> QED BY <2>1, <2>3, <2>4, <2>5 DEF CallsTyped
<1>2. ASSUME NEW c \in Calls, Resolve(c) PROVE CallsTyped'
  BY <1>2, <1>f, <1>a DEF Resolve, Stages
<1>3. ASSUME NEW c \in Calls, AllocateNonce(c) PROVE CallsTyped'
  <2>1. CASE Fail(c) BY <1>3, <1>f, <2>1 DEF AllocateNonce
  <2>2. CASE ~Fail(c)
    <3>1. SignerOf(req[c]) \in Addresses /\ req[c].nonce \in Nat
      BY <1>3 DEF AllocateNonce, CallsTyped
    <3>2. NextValue(SignerOf(req[c])) \in Nat BY <3>1, NextValueGrows DEF NonceInv
    <3>3. PICK to \in {"collect", "sign"}, v \in Nat :
            nonce' = [nonce EXCEPT ![c] = v] /\ Advance(c, to)
      BY <1>3, <2>2, <3>1, <3>2 DEF AllocateNonce
    <3>4. pc[c] # "idle" BY <1>3 DEF AllocateNonce
    <3> QED BY <3>3, <3>4 DEF Advance, CallsTyped, Stages
  <2> QED BY <2>1, <2>2
<1>4. ASSUME NEW c \in Calls, Collect(c) \/ Sign(c) PROVE CallsTyped'
  <2>1. pc[c] # "idle" BY <1>4 DEF Collect, Sign
  <2>2. \/ Fail(c)
        \/ nonce' = nonce /\ \E to \in {"collect", "sign", "post"} : Advance(c, to)
    BY <1>4 DEF Collect, Sign, SignAndVerify
  <2> QED BY <2>1, <2>2, <1>f, <1>a DEF Stages
<1>5. ASSUME NEW c \in Calls, Post(c) PROVE CallsTyped'
  <2>1. CASE Fail(c) BY <1>5, <2>1, <1>f DEF Post
  <2>2. CASE ~Fail(c)
    <3>1. nonce[c] \in Nat BY DEF CallsTyped
    <3>2. wire' \subseteq Entry BY <1>5, <2>2, <3>1 DEF Post, CallsTyped, Entry
    <3> QED BY <1>5, <2>2, <3>2 DEF Post, CallsTyped, Stages
  <2> QED BY <2>1, <2>2
<1>6. ASSUME NEW c \in Calls, Receive(c) PROVE CallsTyped'
  <2>1. DecodeReply(reply[c]) \in {"ok", "notOk", "error"} BY DEF DecodeReply
  <2> QED BY <1>6, <2>1 DEF Receive, CallsTyped, Stages
<1>7. ASSUME NEW c \in Calls, Timeout(c) PROVE CallsTyped'
  BY <1>7, <1>f DEF Timeout
<1>8. ASSUME NEW m \in wire, ServerHandle(m) \/ Lose(m) PROVE CallsTyped'
  <2>1. m \in Entry /\ m.call \in Calls BY DEF CallsTyped, Entry
  <2>2. executed' \in {executed, Append(executed, m)} /\ wire' = wire \ {m}
    BY <1>8 DEF ServerHandle, Lose
  <2>3. executed' \in Seq(Entry)
    <3>1. executed \in Seq(Entry) BY DEF CallsTyped
    <3> QED BY <2>1, <2>2, <3>1, AppendProperties
  <2>4. reply' = reply \/ \E k \in Answers : reply' = [reply EXCEPT ![m.call] = k]
    BY <1>8 DEF ServerHandle, Lose, Answers
  <2>5. reply' \in [Calls -> Answers] BY <2>1, <2>4 DEF CallsTyped
  <2>6. UNCHANGED <<config, pc, req, nonce, result>> BY <1>8 DEF ServerHandle, Lose
  <2> QED BY <2>2, <2>3, <2>5, <2>6 DEF CallsTyped
<1>9. CASE ClockTick \/ UNCHANGED vars
  BY <1>9 DEF ClockTick, vars, CallsTyped
<1> QED BY <1>1, <1>2, <1>3, <1>4, <1>5, <1>6, <1>7, <1>8, <1>9 DEF Next, CallStep

\* The types of the calls, the network and the manager are invariants of the
\* client.
LEMMA CallsTypedHolds == Spec => [](NonceInv /\ CallsTyped)
<1>1. Init => NonceInv /\ CallsTyped
  <2> SUFFICES ASSUME Init PROVE NonceInv /\ CallsTyped
    OBVIOUS
  <2>1. NonceInv BY NonceInitInv DEF Init
  <2>2. executed \in Seq(Entry) BY EmptySeq DEF Init
  <2> QED BY <2>1, <2>2 DEF Init, CallsTyped, Stages, Answers
<1>2. NonceInv /\ CallsTyped /\ [Next]_vars => NonceInv' /\ CallsTyped'
  BY NonceInvStep, CallsTypedStep DEF CallsTyped
<1> QED BY <1>1, <1>2, PTL DEF Spec

\* Under any number of concurrent calls of the client's methods, and any clock,
\* the nonces drawn for an address strictly increase.
THEOREM NoncesInOrder == Spec => []NoncesIncrease
<1>1. NonceInv => NoncesIncrease BY DEF NonceInv
<1> QED BY <1>1, CallsTypedHolds, PTL
---------------------------------------------------------------------------
(* No nonce is used twice.                                                 *)

\* The call has a nonce of the manager.
Drawn(c) == nonce[c] # 0 /\ ~ChoosesNonce(req[c])

\* A nonce stays below the manager's last one, and a call that has come to
\* its post has a nonce.
Ledger ==
    /\ \A c \in Calls : pc[c] \in {"idle", "resolve", "nonce"} => nonce[c] = 0 /\ result[c] = "none"
    /\ \A c \in Calls : pc[c] \in {"collect", "sign", "post", "wait"} => nonce[c] # 0
    /\ \A c \in Calls : Posted(c) => nonce[c] # 0
    /\ \A c \in Calls : Drawn(c) => nonce[c] <= last[SignerOf(req[c])]
    /\ \A c, d \in Calls : c # d /\ Drawn(c) /\ Drawn(d) /\ SignerOf(req[c]) = SignerOf(req[d])
                            => nonce[c] # nonce[d]

\* A step that draws no nonce, and moves one call at most.
LEMMA LedgerKept ==
    ASSUME Ledger, nonce' = nonce, last' = last,
           \A c \in Calls : nonce[c] # 0 => req'[c] = req[c],
           \A c \in Calls : pc'[c] \in {"idle", "resolve", "nonce"} =>
                             pc[c] \in {"idle", "resolve", "nonce"} /\ result'[c] = result[c],
           \A c \in Calls : pc'[c] \in {"collect", "sign", "post", "wait"} =>
                             pc[c] \in {"collect", "sign", "post", "wait"},
           \A c \in Calls : Posted(c)' => Posted(c) \/ nonce[c] # 0
    PROVE  Ledger'
<1>1. \A c \in Calls : pc'[c] \in {"idle", "resolve", "nonce"} => nonce'[c] = 0 /\ result'[c] = "none"
  BY DEF Ledger
<1>2. \A c \in Calls : pc'[c] \in {"collect", "sign", "post", "wait"} => nonce'[c] # 0
  BY DEF Ledger
<1>3. \A c \in Calls : Posted(c)' => nonce'[c] # 0
  BY DEF Ledger
<1>4. \A c \in Calls : Drawn(c)' => Drawn(c) /\ req'[c] = req[c]
  BY DEF Drawn
<1>5. \A c \in Calls : Drawn(c)' => nonce'[c] <= last'[SignerOf(req'[c])]
  BY <1>4 DEF Ledger
<1>6. \A c, d \in Calls : c # d /\ Drawn(c)' /\ Drawn(d)' /\ SignerOf(req'[c]) = SignerOf(req'[d])
                          => nonce'[c] # nonce'[d]
  BY <1>4 DEF Ledger
<1> QED BY <1>1, <1>2, <1>3, <1>5, <1>6 DEF Ledger

\* A call draws a nonce: it is above all that the manager handed to the signer.
LEMMA LedgerDraws ==
    ASSUME NonceInv, CallsTyped, Ledger, NEW c \in Calls, pc[c] = "nonce",
           NEW a \in Addresses, a = SignerOf(req[c]), NextNonce(a),
           nonce' = [nonce EXCEPT ![c] = NextValue(a)],
           NEW to \in {"collect", "sign"}, Advance(c, to)
    PROVE  Ledger'
<1> DEFINE v == NextValue(a)
<1>1. v \in Nat /\ v > last[a] /\ v > 0 BY NextValueGrows DEF NonceInv
<1>2. /\ last' = [last EXCEPT ![a] = v] /\ last \in [Addresses -> Nat]
      /\ nonce' = [nonce EXCEPT ![c] = v] /\ nonce \in [Calls -> Nat]
      /\ req' = req /\ result' = result /\ wire' = wire
      /\ pc' = [pc EXCEPT ![c] = to] /\ pc \in [Calls -> Stages]
  BY DEF NextNonce, NonceInv, NonceTypeOK, CallsTyped, Advance, serverVars
<1> HIDE DEF v
<1>3. nonce'[c] = v /\ \A d \in Calls \ {c} : nonce'[d] = nonce[d] /\ pc'[d] = pc[d]
  BY <1>2
<1>4. pc'[c] = to BY <1>2
<1>5. \A d \in Calls : pc'[d] \in {"idle", "resolve", "nonce"} => nonce'[d] = 0 /\ result'[d] = "none"
  BY <1>2, <1>3, <1>4 DEF Ledger
<1>6. \A d \in Calls : pc'[d] \in {"collect", "sign", "post", "wait"} => nonce'[d] # 0
  BY <1>1, <1>3 DEF Ledger
<1>7. \A d \in Calls : Posted(d)' => nonce'[d] # 0
  <2> SUFFICES ASSUME NEW d \in Calls, Posted(d)' PROVE nonce'[d] # 0
    OBVIOUS
  <2>1. CASE d = c BY <1>1, <1>3, <2>1
  <2>2. CASE d # c
    <3>1. Posted(d) BY <1>2, <1>3, <2>2 DEF Posted
    <3> QED BY <1>3, <2>2, <3>1 DEF Ledger
  <2> QED BY <2>1, <2>2
<1>8. \A d \in Calls \ {c} : Drawn(d)' => Drawn(d) /\ SignerOf(req[d]) \in Addresses
  <2> SUFFICES ASSUME NEW d \in Calls \ {c}, Drawn(d)'
               PROVE  Drawn(d) /\ SignerOf(req[d]) \in Addresses
    OBVIOUS
  <2>1. Drawn(d) BY <1>2, <1>3 DEF Drawn
  <2>2. pc[d] # "idle" BY <2>1 DEF Drawn, Ledger
  <2> QED BY <2>1, <2>2 DEF CallsTyped
<1>9. \A d \in Calls \ {c} : Drawn(d)' => nonce[d] <= last[SignerOf(req[d])]
  BY <1>8 DEF Ledger
<1>10. \A d \in Calls : Drawn(d)' => nonce'[d] <= last'[SignerOf(req'[d])]
  <2> SUFFICES ASSUME NEW d \in Calls, Drawn(d)' PROVE nonce'[d] <= last'[SignerOf(req'[d])]
    OBVIOUS
  <2>1. CASE d = c BY <1>1, <1>2, <1>3, <2>1
  <2>2. CASE d # c
    <3>1. /\ nonce[d] \in Nat /\ SignerOf(req[d]) \in Addresses
          /\ nonce[d] <= last[SignerOf(req[d])] /\ last[SignerOf(req[d])] \in Nat
      BY <1>2, <1>8, <1>9, <2>2
    <3>2. last'[SignerOf(req[d])] \in {last[SignerOf(req[d])], v}
          /\ last[SignerOf(req[d])] <= last'[SignerOf(req[d])]
      BY <1>1, <1>2, <3>1
    <3> QED BY <1>1, <1>2, <1>3, <2>2, <3>1, <3>2
  <2> QED BY <2>1, <2>2
<1>11. \A d \in Calls \ {c} : Drawn(d)' /\ SignerOf(req[d]) = a => nonce'[d] # v
  <2> SUFFICES ASSUME NEW d \in Calls \ {c}, Drawn(d)', SignerOf(req[d]) = a
               PROVE  nonce'[d] # v
    OBVIOUS
  <2>1. nonce[d] <= last[a] /\ nonce[d] \in Nat /\ last[a] \in Nat BY <1>2, <1>9
  <2> QED BY <1>1, <1>3, <2>1
<1>12. \A d, e \in Calls : d # e /\ Drawn(d)' /\ Drawn(e)' /\ SignerOf(req'[d]) = SignerOf(req'[e])
                           => nonce'[d] # nonce'[e]
  <2> SUFFICES ASSUME NEW d \in Calls, NEW e \in Calls, d # e, Drawn(d)', Drawn(e)',
                      SignerOf(req[d]) = SignerOf(req[e])
               PROVE  nonce'[d] # nonce'[e]
    BY <1>2
  <2>1. CASE d = c BY <1>3, <1>11, <2>1
  <2>2. CASE e = c BY <1>3, <1>11, <2>2
  <2>3. CASE d # c /\ e # c
    <3>1. Drawn(d) /\ Drawn(e) BY <1>8, <2>3
    <3> QED BY <1>3, <2>3, <3>1 DEF Ledger
  <2> QED BY <2>1, <2>2, <2>3
<1> QED BY <1>5, <1>6, <1>7, <1>10, <1>12 DEF Ledger

\* A call that chooses its nonce takes none of the manager's.
LEMMA LedgerChosen ==
    ASSUME CallsTyped, Ledger, NEW c \in Calls, pc[c] = "nonce", ChoosesNonce(req[c]),
           last' = last, NEW n, n # 0, nonce' = [nonce EXCEPT ![c] = n],
           NEW to \in {"collect", "sign"}, Advance(c, to)
    PROVE  Ledger'
<1>1. /\ nonce'[c] = n /\ pc'[c] = to /\ req' = req /\ result' = result /\ wire' = wire
      /\ \A d \in Calls \ {c} : nonce'[d] = nonce[d] /\ pc'[d] = pc[d]
  BY DEF CallsTyped, Advance, serverVars
<1>2. ~Drawn(c)' /\ \A d \in Calls \ {c} : Drawn(d)' => Drawn(d)
  BY <1>1 DEF Drawn
<1>3. \A d \in Calls \ {c} : Posted(d)' => Posted(d)
  BY <1>1 DEF Posted
<1>4. \A d \in Calls : Posted(d)' => nonce'[d] # 0
  BY <1>1, <1>3 DEF Ledger
<1>5. \A d \in Calls : Drawn(d)' => nonce'[d] <= last'[SignerOf(req'[d])]
  BY <1>1, <1>2 DEF Ledger
<1>6. \A d, e \in Calls : d # e /\ Drawn(d)' /\ Drawn(e)' /\ SignerOf(req'[d]) = SignerOf(req'[e])
                          => nonce'[d] # nonce'[e]
  BY <1>1, <1>2 DEF Ledger
<1>7. \A d \in Calls : pc'[d] \in {"idle", "resolve", "nonce"} => nonce'[d] = 0 /\ result'[d] = "none"
  BY <1>1 DEF Ledger
<1>8. \A d \in Calls : pc'[d] \in {"collect", "sign", "post", "wait"} => nonce'[d] # 0
  BY <1>1 DEF Ledger
<1> QED BY <1>4, <1>5, <1>6, <1>7, <1>8 DEF Ledger

\* Every step keeps the ledger.
LEMMA LedgerStep ==
    ASSUME NonceInv, CallsTyped, Ledger, [Next]_vars PROVE Ledger'
<1> USE DEF serverVars, callVars, nonceVars
<1>t. /\ pc \in [Calls -> Stages] /\ DOMAIN req = Calls
      /\ result \in [Calls -> {"none", "ok", "notOk", "error"}]
  BY DEF CallsTyped
<1>f. ASSUME NEW c \in Calls, Fail(c), last' = last PROVE Ledger'
  <2>1. /\ nonce' = nonce /\ req' = req /\ wire' = wire
        /\ pc' = [pc EXCEPT ![c] = "done"] /\ result' = [result EXCEPT ![c] = "error"]
    BY <1>f DEF Fail
  <2>2. pc'[c] = "done" /\ result'[c] = "error"
        /\ \A d \in Calls \ {c} : pc'[d] = pc[d] /\ result'[d] = result[d]
    BY <1>t, <2>1
  <2>3. \A d \in Calls : Posted(d)' => Posted(d) BY <2>1, <2>2 DEF Posted
  <2>4. \A d \in Calls : pc'[d] \in {"idle", "resolve", "nonce"} =>
                          pc[d] \in {"idle", "resolve", "nonce"} /\ result'[d] = result[d]
    BY <2>2
  <2>5. \A d \in Calls : pc'[d] \in {"collect", "sign", "post", "wait"} =>
                          pc[d] \in {"collect", "sign", "post", "wait"}
    BY <2>2
  <2> QED BY <1>f, <2>1, <2>3, <2>4, <2>5, LedgerKept
<1>a. ASSUME NEW c \in Calls, last' = last, nonce' = nonce, NEW to, Advance(c, to),
             \/ pc[c] \in {"resolve", "nonce"} /\ to = "nonce"
             \/ pc[c] \in {"collect", "sign"} /\ to \in {"collect", "sign", "post"}
      PROVE  Ledger'
  <2>1. /\ req' = req /\ wire' = wire /\ result' = result /\ pc'[c] = to
        /\ \A d \in Calls \ {c} : pc'[d] = pc[d]
    BY <1>a, <1>t DEF Advance
  <2>2. \A d \in Calls \ {c} : Posted(d)' => Posted(d) BY <2>1 DEF Posted
  <2>3. Posted(c)' => Posted(c) \/ nonce[c] # 0
    <3>1. CASE to = "nonce" BY <1>a, <2>1, <3>1 DEF Posted
    <3>2. CASE pc[c] \in {"collect", "sign"} BY <3>2 DEF Ledger
    <3> QED BY <1>a, <3>1, <3>2
  <2>4. \A d \in Calls : pc'[d] \in {"idle", "resolve", "nonce"} =>
                          pc[d] \in {"idle", "resolve", "nonce"} /\ result'[d] = result[d]
    BY <1>a, <2>1
  <2>5. \A d \in Calls : pc'[d] \in {"collect", "sign", "post", "wait"} =>
                          pc[d] \in {"collect", "sign", "post", "wait"}
    BY <1>a, <2>1
  <2> QED BY <1>a, <2>1, <2>2, <2>3, <2>4, <2>5, LedgerKept
<1>1. ASSUME NEW c \in Calls, Begin(c) PROVE Ledger'
  <2>1. /\ pc[c] = "idle" /\ nonce' = nonce /\ last' = last /\ wire' = wire
        /\ \E r : req' = [req EXCEPT ![c] = r]
        /\ \/ pc' = [pc EXCEPT ![c] = "done"] /\ result' = [result EXCEPT ![c] = "error"]
           \/ pc' \in {[pc EXCEPT ![c] = "resolve"], [pc EXCEPT ![c] = "nonce"]} /\ result' = result
    BY <1>1 DEF Begin
  <2>2. \A d \in Calls \ {c} : pc'[d] = pc[d] /\ result'[d] = result[d] /\ req'[d] = req[d]
    BY <1>t, <2>1
  <2>3. \/ pc'[c] = "done" /\ result'[c] = "error"
        \/ pc'[c] \in {"resolve", "nonce"} /\ result'[c] = result[c]
    BY <1>t, <2>1
  <2>4. nonce[c] = 0 /\ result[c] = "none" BY <2>1 DEF Ledger
  <2>5. \A d \in Calls : Posted(d)' => Posted(d) BY <2>1, <2>2, <2>3, <2>4 DEF Posted
  <2>6. \A d \in Calls : nonce[d] # 0 => req'[d] = req[d] BY <2>2, <2>4
  <2>7. \A d \in Calls : pc'[d] \in {"idle", "resolve", "nonce"} =>
                          pc[d] \in {"idle", "resolve", "nonce"} /\ result'[d] = result[d]
    BY <2>1, <2>2, <2>3
  <2>8. \A d \in Calls : pc'[d] \in {"collect", "sign", "post", "wait"} =>
                          pc[d] \in {"collect", "sign", "post", "wait"}
    BY <2>2, <2>3
  <2> QED BY <2>1, <2>5, <2>6, <2>7, <2>8, LedgerKept
<1>2. ASSUME NEW c \in Calls, Resolve(c) PROVE Ledger'
  <2>1. last' = last /\ pc[c] = "resolve" /\ (Fail(c) \/ (nonce' = nonce /\ Advance(c, "nonce")))
    BY <1>2 DEF Resolve
  <2> QED BY <2>1, <1>f, <1>a
<1>3. ASSUME NEW c \in Calls, AllocateNonce(c) PROVE Ledger'
  <2> DEFINE a == SignerOf(req[c])
  <2>1. pc[c] = "nonce" /\ a \in Addresses BY <1>3 DEF AllocateNonce, CallsTyped
  <2>2. \/ Fail(c) /\ last' = last
        \/ \E to \in {"collect", "sign"} :
             /\ ChoosesNonce(req[c]) /\ last' = last /\ req[c].nonce # 0
             /\ nonce' = [nonce EXCEPT ![c] = req[c].nonce] /\ Advance(c, to)
        \/ \E to \in {"collect", "sign"} :
             /\ NextNonce(a) /\ nonce' = [nonce EXCEPT ![c] = NextValue(a)] /\ Advance(c, to)
    BY <1>3 DEF AllocateNonce, ChoosesNonce
  <2> HIDE DEF a
  <2>3. CASE Fail(c) /\ last' = last BY <2>3, <1>f
  <2>4. ASSUME NEW to \in {"collect", "sign"}, ChoosesNonce(req[c]), last' = last,
               req[c].nonce # 0, nonce' = [nonce EXCEPT ![c] = req[c].nonce], Advance(c, to)
        PROVE  Ledger'
    BY <2>1, <2>4, LedgerChosen
  <2>5. ASSUME NEW to \in {"collect", "sign"}, NextNonce(a),
               nonce' = [nonce EXCEPT ![c] = NextValue(a)], Advance(c, to)
        PROVE  Ledger'
    BY <2>1, <2>5, LedgerDraws DEF a
  <2> QED BY <2>2, <2>3, <2>4, <2>5
<1>4. ASSUME NEW c \in Calls, Collect(c) \/ Sign(c) PROVE Ledger'
  <2>1. last' = last /\ pc[c] \in {"collect", "sign"} BY <1>4 DEF Collect, Sign
  <2>2. \/ Fail(c)
        \/ nonce' = nonce /\ \E to \in {"collect", "sign", "post"} : Advance(c, to)
    BY <1>4 DEF Collect, Sign, SignAndVerify
  <2> QED BY <2>1, <2>2, <1>f, <1>a
<1>5. ASSUME NEW c \in Calls, Post(c) PROVE Ledger'
  <2>1. CASE Fail(c) BY <1>5, <2>1, <1>f DEF Post
  <2>2. CASE ~Fail(c)
    <3>1. /\ pc[c] = "post" /\ last' = last /\ nonce' = nonce /\ req' = req /\ result' = result
          /\ pc' = [pc EXCEPT ![c] = "wait"]
          /\ wire' = wire \cup {[call |-> c, nonce |-> nonce[c]]}
      BY <1>5, <2>2 DEF Post
    <3>2. pc'[c] = "wait" /\ \A d \in Calls \ {c} : pc'[d] = pc[d] BY <1>t, <3>1
    <3>3. nonce[c] # 0 BY <3>1 DEF Ledger
    <3>4. \A d \in Calls \ {c} : Posted(d)' => Posted(d) BY <3>1, <3>2 DEF Posted
    <3>5. \A d \in Calls : Posted(d)' => Posted(d) \/ nonce[d] # 0 BY <3>3, <3>4
    <3>6. \A d \in Calls : pc'[d] \in {"idle", "resolve", "nonce"} =>
                            pc[d] \in {"idle", "resolve", "nonce"} /\ result'[d] = result[d]
      BY <3>1, <3>2
    <3>7. \A d \in Calls : pc'[d] \in {"collect", "sign", "post", "wait"} =>
                            pc[d] \in {"collect", "sign", "post", "wait"}
      BY <3>1, <3>2
    <3> QED BY <3>1, <3>5, <3>6, <3>7, LedgerKept
  <2> QED BY <2>1, <2>2
<1>6. ASSUME NEW c \in Calls, Receive(c) PROVE Ledger'
  <2>1. /\ pc[c] = "wait" /\ last' = last /\ nonce' = nonce /\ req' = req /\ wire' = wire
        /\ pc' = [pc EXCEPT ![c] = "done"]
        /\ \E w : result' = [result EXCEPT ![c] = w]
    BY <1>6 DEF Receive
  <2>2. pc'[c] = "done" /\ \A d \in Calls \ {c} : pc'[d] = pc[d] /\ result'[d] = result[d]
    BY <1>t, <2>1
  <2>3. nonce[c] # 0 BY <2>1 DEF Ledger
  <2>4. \A d \in Calls \ {c} : Posted(d)' => Posted(d) BY <2>1, <2>2 DEF Posted
  <2>5. \A d \in Calls : Posted(d)' => Posted(d) \/ nonce[d] # 0 BY <2>3, <2>4
  <2>6. \A d \in Calls : pc'[d] \in {"idle", "resolve", "nonce"} =>
                          pc[d] \in {"idle", "resolve", "nonce"} /\ result'[d] = result[d]
    BY <2>2
  <2>7. \A d \in Calls : pc'[d] \in {"collect", "sign", "post", "wait"} =>
                          pc[d] \in {"collect", "sign", "post", "wait"}
    BY <2>2
  <2> QED BY <2>1, <2>5, <2>6, <2>7, LedgerKept
<1>7. ASSUME NEW c \in Calls, Timeout(c) PROVE Ledger'
  BY <1>7, <1>f DEF Timeout
<1>8. CASE /\ UNCHANGED <<pc, req, nonce, result, last>> /\ wire' \subseteq wire
  <2>1. \A d \in Calls : Posted(d)' => Posted(d) BY <1>8 DEF Posted
  <2> QED BY <1>8, <2>1, LedgerKept
<1>9. ASSUME NEW m \in wire, ServerHandle(m) \/ Lose(m) PROVE Ledger'
  BY <1>8, <1>9 DEF ServerHandle, Lose
<1>10. CASE ClockTick \/ UNCHANGED vars
  BY <1>8, <1>10 DEF ClockTick, Tick, vars
<1> QED BY <1>1, <1>2, <1>3, <1>4, <1>5, <1>6, <1>7, <1>9, <1>10 DEF Next, CallStep

\* The ledger is an invariant of the specification.
LEMMA LedgerHolds == Spec => [](NonceInv /\ CallsTyped /\ Ledger)
<1>1. Init => Ledger
  BY DEF Init, Ledger, Drawn, Posted
<1> QED BY <1>1, CallsTypedHolds, LedgerStep, PTL DEF Spec

---------------------------------------------------------------------------
(* Nothing is executed twice.                                              *)

Sent(c) == (\E m \in wire : m.call = c) \/ (\E i \in DOMAIN executed : executed[i].call = c)
Ran(c) == \E i \in DOMAIN executed : executed[i] = [call |-> c, nonce |-> nonce[c]]
Accepted(c) == ~Refused(req[c]) /\ Encodes(req[c])

\* A call has at most one request, on the wire or executed, and only from its
\* post on; what was posted had passed every check.
Journal ==
    /\ \A c \in Calls : pc[c] \notin {"wait", "done"} => ~Sent(c)
    /\ \A c \in Calls : pc[c] \notin {"idle", "done"} => ~Refused(req[c])
    /\ \A c \in Calls : pc[c] \in {"post", "wait"} \/ Sent(c) => Accepted(c)
    /\ \A m \in wire : m.nonce = nonce[m.call]
    /\ \A m \in wire : \A i \in DOMAIN executed : executed[i].call # m.call
    /\ \A i, j \in DOMAIN executed : executed[i].call = executed[j].call => i = j
    /\ \A c \in Calls : reply[c] = "ok" \/ result[c] = "ok" => Ran(c)

\* The checks of a request depend on it and on the client's settings alone.
LEMMA ChecksStable ==
    ASSUME NEW c \in Calls, config' = config, req'[c] = req[c]
    PROVE  (Refused(req[c])' <=> Refused(req[c])) /\ (Encodes(req[c])' <=> Encodes(req[c]))
<1>1. Encodes(req[c])' <=> Encodes(req[c]) OBVIOUS
<1>2. IsMulti(req[c])' <=> IsMulti(req[c]) OBVIOUS
<1>3. SourceConflict(req[c])' <=> SourceConflict(req[c]) BY DEF SourceConflict
<1>4. MultiSigValid(req[c].multi)' <=> MultiSigValid(req[c].multi) OBVIOUS
<1> QED BY <1>1, <1>2, <1>3, <1>4 DEF Refused

\* A step that neither posts nor reaches the server.
LEMMA JournalKept ==
    ASSUME CallsTyped, Journal, config' = config, executed' = executed, reply' = reply, wire' = wire,
           \A d \in Calls : pc'[d] \notin {"wait", "done"} => pc[d] \notin {"wait", "done"},
           \A d \in Calls : pc'[d] \notin {"idle", "done"} => ~Refused(req[d])',
           \A d \in Calls : pc'[d] \in {"post", "wait"} => Accepted(d)',
           \A d \in Calls : Sent(d) => req'[d] = req[d] /\ nonce'[d] = nonce[d],
           \A d \in Calls : result'[d] = "ok" => result[d] = "ok" \/ reply[d] = "ok"
    PROVE  Journal'
<1>1. \A d \in Calls : Sent(d)' <=> Sent(d) BY DEF Sent
<1>2. \A d \in Calls : pc'[d] \notin {"wait", "done"} => ~Sent(d)' BY <1>1 DEF Journal
<1>3. ASSUME NEW d \in Calls, pc'[d] \in {"post", "wait"} \/ Sent(d)' PROVE Accepted(d)'
  <2>1. CASE pc'[d] \in {"post", "wait"} BY <2>1
  <2>2. CASE Sent(d)
    <3>1. Accepted(d) /\ req'[d] = req[d] BY <2>2 DEF Journal
    <3> QED BY <3>1, ChecksStable DEF Accepted
  <2> QED BY <1>1, <1>3, <2>1, <2>2
<1>4. \A m \in wire : m.nonce = nonce'[m.call]
  <2> SUFFICES ASSUME NEW m \in wire PROVE m.nonce = nonce'[m.call]
    OBVIOUS
  <2>1. m.call \in Calls BY DEF CallsTyped, Entry
  <2>2. Sent(m.call) BY DEF Sent
  <2> QED BY <2>1, <2>2 DEF Journal
<1>5. ASSUME NEW d \in Calls, reply'[d] = "ok" \/ result'[d] = "ok" PROVE Ran(d)'
  <2>1. Ran(d) BY <1>5 DEF Journal
  <2>2. Sent(d) BY <2>1 DEF Ran, Sent
  <2> QED BY <2>1, <2>2 DEF Ran
<1>6. /\ \A m \in wire' : \A i \in DOMAIN executed' : executed'[i].call # m.call
      /\ \A i, j \in DOMAIN executed' : executed'[i].call = executed'[j].call => i = j
  BY DEF Journal
<1> QED BY <1>2, <1>3, <1>4, <1>5, <1>6 DEF Journal

\* A call posts: the request is its first.
LEMMA JournalPosts ==
    ASSUME CallsTyped, Journal, NEW c \in Calls, pc[c] = "post", pc' = [pc EXCEPT ![c] = "wait"],
           wire' = wire \cup {[call |-> c, nonce |-> nonce[c]]},
           UNCHANGED <<config, req, nonce, result, executed, reply>>
    PROVE  Journal'
<1>1. pc'[c] = "wait" /\ \A d \in Calls \ {c} : pc'[d] = pc[d] BY DEF CallsTyped
<1>2. ~Sent(c) /\ Accepted(c) BY DEF Journal
<1>3. \A d \in Calls \ {c} : Sent(d)' <=> Sent(d) BY DEF Sent
<1>4. \A d \in Calls : Accepted(d)' <=> Accepted(d) BY ChecksStable DEF Accepted
<1>5. \A d \in Calls : Refused(req[d])' <=> Refused(req[d]) BY ChecksStable
<1>6. \A d \in Calls : pc'[d] \notin {"wait", "done"} => ~Sent(d)' BY <1>1, <1>3 DEF Journal
<1>7. \A d \in Calls : pc'[d] \notin {"idle", "done"} => ~Refused(req[d])'
  <2>1. ~Refused(req[c]) BY <1>2 DEF Accepted
  <2> QED BY <1>1, <1>5, <2>1 DEF Journal
<1>8. \A d \in Calls : pc'[d] \in {"post", "wait"} \/ Sent(d)' => Accepted(d)'
  BY <1>1, <1>2, <1>3, <1>4 DEF Journal
<1>9. \A m \in wire' : m.nonce = nonce'[m.call] BY DEF Journal
<1>10. \A m \in wire' : \A i \in DOMAIN executed' : executed'[i].call # m.call
  BY <1>2 DEF Journal, Sent
<1>11. /\ \A i, j \in DOMAIN executed' : executed'[i].call = executed'[j].call => i = j
       /\ \A d \in Calls : reply'[d] = "ok" \/ result'[d] = "ok" => Ran(d)'
  BY DEF Journal, Ran
<1> QED BY <1>6, <1>7, <1>8, <1>9, <1>10, <1>11 DEF Journal

\* The server takes a request off the wire: it executes it or not, and may
\* answer; an ok follows an execution.
LEMMA JournalServed ==
    ASSUME CallsTyped, Journal, NEW m \in wire, wire' = wire \ {m},
           executed' \in {executed, Append(executed, m)},
           \/ reply' = reply
           \/ \E k : reply' = [reply EXCEPT ![m.call] = k] /\ (k = "ok" => executed' = Append(executed, m)),
           UNCHANGED <<config, pc, req, nonce, result>>
    PROVE  Journal'
<1>1. /\ m \in Entry /\ m.call \in Calls /\ m = [call |-> m.call, nonce |-> nonce[m.call]]
      /\ wire \subseteq Entry /\ executed \in Seq(Entry)
  BY DEF CallsTyped, Entry, Journal
<1>2. \A d \in Calls : (Accepted(d)' <=> Accepted(d)) /\ (Refused(req[d])' <=> Refused(req[d]))
  BY ChecksStable DEF Accepted
<1>3. \A q \in wire' : q \in wire /\ q.call # m.call
  <2> SUFFICES ASSUME NEW q \in wire, q # m PROVE q.call # m.call
    OBVIOUS
  <2>1. q = [call |-> q.call, nonce |-> nonce[q.call]] BY <1>1 DEF Entry, Journal
  <2> QED BY <1>1, <2>1
<1>4. CASE executed' = executed
  <2>1. \A d \in Calls : Sent(d)' => Sent(d) BY <1>3, <1>4 DEF Sent
  <2>2. \A d \in Calls : reply'[d] = "ok" \/ result'[d] = "ok" => Ran(d)'
    <3>1. executed # Append(executed, m) BY <1>1
    <3>2. \A d \in Calls : reply'[d] = "ok" => reply[d] = "ok" BY <1>4, <3>1 DEF CallsTyped
    <3> QED BY <1>4, <3>2 DEF Journal, Ran
  <2>3. /\ \A d \in Calls : pc'[d] \notin {"wait", "done"} => ~Sent(d)'
        /\ \A d \in Calls : pc'[d] \notin {"idle", "done"} => ~Refused(req[d])'
        /\ \A d \in Calls : pc'[d] \in {"post", "wait"} \/ Sent(d)' => Accepted(d)'
    BY <1>2, <2>1 DEF Journal
  <2>4. /\ \A q \in wire' : q.nonce = nonce'[q.call]
        /\ \A q \in wire' : \A i \in DOMAIN executed' : executed'[i].call # q.call
        /\ \A i, j \in DOMAIN executed' : executed'[i].call = executed'[j].call => i = j
    BY <1>3, <1>4 DEF Journal
  <2> QED BY <2>2, <2>3, <2>4 DEF Journal
<1>5. CASE executed' = Append(executed, m)
  <2> DEFINE n == Len(executed) + 1
  <2>1. /\ DOMAIN executed = 1..Len(executed) /\ DOMAIN executed' = 1..n /\ Len(executed) \in Nat
        /\ \A i \in 1..Len(executed) : executed'[i] = executed[i]
        /\ executed'[n] = m
    BY <1>1, <1>5
  <2> HIDE DEF n
  <2>2. \A i \in DOMAIN executed' : i \in DOMAIN executed \/ i = n BY <2>1 DEF n
  <2>3. \A i \in DOMAIN executed : i \in DOMAIN executed' /\ i # n BY <2>1 DEF n
  <2>4. \A d \in Calls : Sent(d)' => Sent(d)
    BY <1>3, <2>1, <2>2 DEF Sent
  <2>5. \A d \in Calls : Ran(d) => Ran(d)'
    BY <2>1, <2>3 DEF Ran
  <2>6. Ran(m.call)'
    <3>1. n \in DOMAIN executed' BY <2>1 DEF n
    <3> QED BY <1>1, <2>1, <3>1 DEF Ran
  <2>7. \A d \in Calls \ {m.call} : reply'[d] = reply[d] BY <1>1 DEF CallsTyped
  <2>8. \A d \in Calls : reply'[d] = "ok" \/ result'[d] = "ok" => Ran(d)'
    BY <2>5, <2>6, <2>7 DEF Journal
  <2>9. /\ \A d \in Calls : pc'[d] \notin {"wait", "done"} => ~Sent(d)'
        /\ \A d \in Calls : pc'[d] \notin {"idle", "done"} => ~Refused(req[d])'
        /\ \A d \in Calls : pc'[d] \in {"post", "wait"} \/ Sent(d)' => Accepted(d)'
    BY <1>2, <2>4 DEF Journal
  <2>10. \A q \in wire' : q.nonce = nonce'[q.call] BY <1>3 DEF Journal
  <2>11. \A q \in wire' : \A i \in DOMAIN executed' : executed'[i].call # q.call
    BY <1>3, <2>1, <2>2 DEF Journal
  <2>12. \A i, j \in DOMAIN executed' : executed'[i].call = executed'[j].call => i = j
    <3> SUFFICES ASSUME NEW i \in DOMAIN executed', NEW j \in DOMAIN executed',
                        executed'[i].call = executed'[j].call
                 PROVE  i = j
      OBVIOUS
    <3>1. \A k \in DOMAIN executed : executed[k].call # m.call BY DEF Journal
    <3>2. CASE i \in DOMAIN executed /\ j \in DOMAIN executed BY <2>1, <3>2 DEF Journal
    <3>3. CASE i = n \/ j = n BY <2>1, <2>2, <3>1, <3>3
    <3> QED BY <2>2, <3>2, <3>3
  <2> QED BY <2>8, <2>9, <2>10, <2>11, <2>12 DEF Journal
<1> QED BY <1>4, <1>5

\* Every step keeps the journal.
LEMMA JournalStep ==
    ASSUME CallsTyped, Journal, [Next]_vars PROVE Journal'
<1> USE DEF serverVars, callVars
<1>t. /\ pc \in [Calls -> Stages] /\ DOMAIN req = Calls /\ nonce \in [Calls -> Nat]
      /\ result \in [Calls -> {"none", "ok", "notOk", "error"}]
  BY DEF CallsTyped
<1>k. ASSUME NEW c \in Calls, NEW to \in Stages, config' = config, req' = req, executed' = executed,
             reply' = reply, wire' = wire, pc' = [pc EXCEPT ![c] = to],
             pc[c] # "idle", pc[c] # "done",
             to # "done" => pc[c] # "wait", to = "post" => Encodes(req[c]), to # "wait", to # "idle",
             nonce' = nonce \/ (pc[c] = "nonce" /\ \E n : nonce' = [nonce EXCEPT ![c] = n]),
             \/ result' = result
             \/ \E w : result' = [result EXCEPT ![c] = w] /\ (w = "ok" => reply[c] = "ok")
      PROVE  Journal'
  <2>1. pc'[c] = to /\ \A d \in Calls \ {c} : pc'[d] = pc[d] BY <1>k, <1>t
  <2>2. \A d \in Calls : (Refused(req[d])' <=> Refused(req[d])) /\ (Accepted(d)' <=> Accepted(d))
    BY <1>k, ChecksStable DEF Accepted
  <2>3. \A d \in Calls : pc'[d] \notin {"wait", "done"} => pc[d] \notin {"wait", "done"}
    BY <1>k, <2>1
  <2>4. ~Refused(req[c]) BY <1>k DEF Journal
  <2>5. \A d \in Calls : pc'[d] \notin {"idle", "done"} => ~Refused(req[d])'
    BY <2>1, <2>2, <2>4 DEF Journal
  <2>6. to \in {"post", "wait"} => Accepted(c) BY <1>k, <2>4 DEF Accepted
  <2>7. \A d \in Calls : pc'[d] \in {"post", "wait"} => Accepted(d)'
    BY <2>1, <2>2, <2>6 DEF Journal
  <2>8. pc[c] = "nonce" => ~Sent(c) BY DEF Journal
  <2>9. \A d \in Calls : Sent(d) => req'[d] = req[d] /\ nonce'[d] = nonce[d]
    BY <1>k, <1>t, <2>8
  <2>10. \A d \in Calls : result'[d] = "ok" => result[d] = "ok" \/ reply[d] = "ok"
    BY <1>k, <1>t
  <2> QED BY <1>k, <2>3, <2>5, <2>7, <2>9, <2>10, JournalKept
<1>f. ASSUME NEW c \in Calls, pc[c] # "idle", pc[c] # "done", Fail(c) PROVE Journal'
  <2>1. /\ pc' = [pc EXCEPT ![c] = "done"] /\ result' = [result EXCEPT ![c] = "error"]
        /\ UNCHANGED <<config, req, nonce, wire, executed, reply>>
    BY <1>f DEF Fail
  <2>2. \E w : result' = [result EXCEPT ![c] = w] /\ (w = "ok" => reply[c] = "ok")
    <3> WITNESS "error"
    <3> QED BY <2>1
  <2>3. "done" \in Stages /\ "done" # "post" /\ "done" # "wait" /\ "done" # "idle" BY DEF Stages
  <2> HIDE DEF serverVars, callVars
  <2> QED BY <1>f, <1>k, <2>1, <2>2, <2>3
<1>1. ASSUME NEW c \in Calls, Begin(c) PROVE Journal'
  <2>1. PICK r \in Menu[config][c] :
          /\ pc[c] = "idle" /\ req' = [req EXCEPT ![c] = r]
          /\ UNCHANGED <<config, nonce, wire, executed, reply>>
          /\ \/ pc' = [pc EXCEPT ![c] = "done"] /\ result' = [result EXCEPT ![c] = "error"]
             \/ /\ pc' \in {[pc EXCEPT ![c] = "resolve"], [pc EXCEPT ![c] = "nonce"]}
                /\ result' = result /\ ~Refused(r)
    BY <1>1 DEF Begin
  <2>2. \A d \in Calls \ {c} : pc'[d] = pc[d] /\ result'[d] = result[d] /\ req'[d] = req[d]
    BY <1>t, <2>1
  <2>3. req'[c] = r BY <1>t, <2>1
  <2>4. \/ pc'[c] = "done" /\ result'[c] = "error"
        \/ pc'[c] \in {"resolve", "nonce"} /\ result'[c] = result[c] /\ ~Refused(r)
    BY <1>t, <2>1
  <2>5. ~Sent(c) BY <2>1 DEF Journal
  <2>6. \A d \in Calls \ {c} : (Refused(req[d])' <=> Refused(req[d])) /\ (Accepted(d)' <=> Accepted(d))
    BY <2>1, <2>2, ChecksStable DEF Accepted
  <2>7. ~Refused(r) => ~Refused(req[c])' BY <2>1, <2>3 DEF Refused, SourceConflict
  <2>8. \A d \in Calls : pc'[d] \notin {"wait", "done"} => pc[d] \notin {"wait", "done"}
    BY <2>1, <2>2
  <2>9. \A d \in Calls : pc'[d] \notin {"idle", "done"} => ~Refused(req[d])'
    BY <2>2, <2>4, <2>6, <2>7 DEF Journal
  <2>10. \A d \in Calls : pc'[d] \in {"post", "wait"} => Accepted(d)'
    BY <2>2, <2>4, <2>6 DEF Journal
  <2>11. \A d \in Calls : Sent(d) => req'[d] = req[d] /\ nonce'[d] = nonce[d]
    BY <2>1, <2>2, <2>5
  <2>12. \A d \in Calls : result'[d] = "ok" => result[d] = "ok" \/ reply[d] = "ok"
    BY <2>2, <2>4
  <2> QED BY <2>1, <2>8, <2>9, <2>10, <2>11, <2>12, JournalKept
<1>2. ASSUME NEW c \in Calls, Resolve(c) PROVE Journal'
  <2>1. pc[c] = "resolve" /\ (Fail(c) \/ (nonce' = nonce /\ Advance(c, "nonce")))
    BY <1>2 DEF Resolve
  <2> QED BY <2>1, <1>f, <1>k DEF Advance, Stages
<1>3. ASSUME NEW c \in Calls, AllocateNonce(c) PROVE Journal'
  <2>1. /\ pc[c] = "nonce"
        /\ \/ Fail(c)
           \/ \E to \in {"collect", "sign"} :
                 (\E n : nonce' = [nonce EXCEPT ![c] = n]) /\ Advance(c, to)
    BY <1>3 DEF AllocateNonce
  <2> QED BY <2>1, <1>f, <1>k DEF Advance, Stages
<1>4. ASSUME NEW c \in Calls, Collect(c) \/ Sign(c) PROVE Journal'
  <2>1. /\ pc[c] \in {"collect", "sign"}
        /\ \/ Fail(c)
           \/ /\ nonce' = nonce /\ Encodes(req[c])
              /\ \E to \in {"collect", "sign", "post"} : Advance(c, to)
    BY <1>4 DEF Collect, Sign, SignAndVerify
  <2> QED BY <2>1, <1>f, <1>k DEF Advance, Stages
<1>5. ASSUME NEW c \in Calls, Post(c) PROVE Journal'
  <2>1. CASE Fail(c) BY <1>5, <2>1, <1>f DEF Post
  <2>2. CASE ~Fail(c) BY <1>5, <2>2, JournalPosts DEF Post
  <2> QED BY <2>1, <2>2
<1>6. ASSUME NEW c \in Calls, Receive(c) PROVE Journal'
  <2>1. DecodeReply(reply[c]) = "ok" => reply[c] = "ok" BY DEF DecodeReply
  <2>2. /\ pc[c] = "wait" /\ pc' = [pc EXCEPT ![c] = "done"]
        /\ result' = [result EXCEPT ![c] = DecodeReply(reply[c])]
        /\ UNCHANGED <<config, req, nonce, wire, executed, reply>>
    BY <1>6 DEF Receive
  <2> QED BY <1>k, <2>1, <2>2 DEF Stages
<1>7. ASSUME NEW c \in Calls, Timeout(c) PROVE Journal'
  BY <1>7, <1>f DEF Timeout
<1>8. ASSUME NEW m \in wire, ServerHandle(m) \/ Lose(m) PROVE Journal'
  <2>1. /\ wire' = wire \ {m} /\ executed' \in {executed, Append(executed, m)}
        /\ UNCHANGED <<config, pc, req, nonce, result>>
    BY <1>8 DEF ServerHandle, Lose
  <2>2. \/ reply' = reply
        \/ \E k : reply' = [reply EXCEPT ![m.call] = k] /\ (k = "ok" => executed' = Append(executed, m))
    BY <1>8 DEF ServerHandle, Lose
  <2> QED BY <2>1, <2>2, JournalServed
<1>9. CASE ClockTick \/ UNCHANGED vars
  <2>1. UNCHANGED <<config, pc, req, nonce, result, wire, executed, reply>>
    BY <1>9 DEF ClockTick, vars
  <2>2. \A d \in Calls : (Refused(req[d])' <=> Refused(req[d])) /\ (Accepted(d)' <=> Accepted(d))
    BY <2>1, ChecksStable DEF Accepted
  <2> QED BY <2>1, <2>2, JournalKept DEF Journal
<1> QED BY <1>1, <1>2, <1>3, <1>4, <1>5, <1>6, <1>7, <1>8, <1>9 DEF Next, CallStep

\* What the venue has run, what is under way and what the calls know agree.
LEMMA JournalHolds == Spec => []Journal
<1>1. Init => Journal
  <2> SUFFICES ASSUME Init PROVE Journal
    OBVIOUS
  <2>1. /\ wire = {} /\ executed = <<>> /\ DOMAIN executed = {}
        /\ \A c \in Calls : pc[c] = "idle" /\ reply[c] = "none" /\ result[c] = "none"
    BY DEF Init
  <2> QED BY <2>1 DEF Journal, Sent
<1> QED BY <1>1, CallsTypedHolds, JournalStep, PTL DEF Spec

\* Whatever the network loses, delays or spoils, an action of post runs at most
\* once, only if its method let it through, and whenever the method says so.
THEOREM RunsOnce == Spec => []ExecutedOnce
<1>1. Journal => ExecutedOnce
  BY DEF Journal, ExecutedOnce, Ran, Sent, Accepted
<1> QED BY <1>1, JournalHolds, PTL

---------------------------------------------------------------------------
(* An action that carries a nonce carries the envelope's.                  *)

NonceCarriers == {"AgentSendAssetAction", "CreateVaultAction"}
OwnPaths == {"ownNonce", "ownNonceNoVault"}

\* A method is in one of the tables.
LEMMA MethodFacts ==
    ASSUME NEW m \in DOMAIN Methods
    PROVE  \E t \in MethodTables : m \in DOMAIN t /\ Methods[m] = t[m]
<1>1. m \in UNION {DOMAIN t : t \in MethodTables} BY DEF Methods
<1>2. \E t \in MethodTables : m \in DOMAIN t BY <1>1
<1>3. Methods[m] = (CHOOSE t \in MethodTables : m \in DOMAIN t)[m] BY <1>1 DEF Methods
<1> QED BY <1>2, <1>3

\* AgentSendAsset and CreateVault are the methods that build such an action, and
\* both write the nonce they draw into it.
LEMMA CarriersOwn ==
    ASSUME NEW r, ~IsMulti(r), r.method \in DOMAIN Methods, ActionOf(r) \in NonceCarriers
    PROVE  OwnsNonce(r)
<1>1. PICK t \in MethodTables : r.method \in DOMAIN t /\ Methods[r.method] = t[r.method] BY MethodFacts
<1>2. t[r.method].action \in NonceCarriers BY <1>1 DEF ActionOf
<1> DEFINE Right(u) == \A m \in DOMAIN u : u[m].action \in NonceCarriers => u[m].path \in OwnPaths
<1>3. Right(OrderMethods) /\ Right(CancelMethods) /\ Right(ModifyMethods) /\ Right(TWAPMethods)
      BY DEF OrderMethods, CancelMethods, ModifyMethods, TWAPMethods, M, NonceCarriers
<1>4. Right(CoreMethods) BY DEF CoreMethods, M, NonceCarriers
<1>5. Right(StakingMethods) BY DEF StakingMethods, M, NonceCarriers
<1>6. Right(TransferMethods) /\ Right(DeployMethods) BY DEF TransferMethods, DeployMethods, M, NonceCarriers
<1>7. Right(CompatMethods) BY DEF CompatMethods, M, NonceCarriers
<1>8. Right(AgentMethods) BY DEF AgentMethods, M, NonceCarriers, OwnPaths
<1>9. Right(AbstractionMethods) BY DEF AbstractionMethods, M, NonceCarriers
<1>10. Right(UserMethods) BY DEF UserMethods, M, NonceCarriers
<1>11. Right(AccountMethods) BY DEF AccountMethods, M, NonceCarriers, OwnPaths
<1>12. Right(t)
  <2> HIDE DEF Right
  <2> QED BY <1>3, <1>4, <1>5, <1>6, <1>7, <1>8, <1>9, <1>10, <1>11 DEF MethodTables
<1>13. t[r.method].path \in OwnPaths BY <1>1, <1>2, <1>12
<1>14. r.method \notin {"SubmitMultiSigL1", "SubmitMultiSigUserAction"} BY DEF IsMulti
<1>15. PathOf(r) = Methods[r.method].path BY <1>14, Zenon DEF PathOf
<1> QED BY <1>1, <1>13, <1>15 DEF OwnsNonce, OwnPaths

\* A request is one of the menu's from the beginning of its call.
Asked ==
    \A c \in Calls : pc[c] # "idle" =>
        /\ IsMulti(req[c]) \/ req[c].method \in DOMAIN Methods
        /\ IsMulti(req[c]) => /\ req[c].multi.signers \in Seq(Nat) /\ req[c].multi.authorized \in Seq(Nat)
                              /\ req[c].multi.threshold \in Nat
        /\ req[c].list \in Seq([key : Nat, num : Int])
        /\ req[c].orders \in Seq([builder : STRING, fee : Nat, kind : STRING])
        /\ req[c].method = "TransferUSDClass" => req[c].from = "nil"
        /\ req[c].method = "SubmitMultiSigL1" => req[c].action \in L1ActionTypes
        /\ req[c].method = "SubmitMultiSigUserAction" => req[c].action \in UserActionTypes
        /\ req[c].o \in Shapes(ActionOf(req[c]))
\* Where an action owns its nonce, it is the one drawn for the envelope.
Carried ==
    /\ DOMAIN inner = Calls
    /\ \A c \in Calls : nonce[c] # 0 /\ OwnsNonce(req[c]) => inner[c] = nonce[c]

\* What a step does to the requests and nonces of the calls.
LEMMA RequestSteps ==
    ASSUME CallsTyped, [Next]_vars
    PROVE  \/ /\ UNCHANGED <<req, nonce, inner>>
              /\ \A c \in Calls : pc[c] = "idle" => pc'[c] = "idle"
           \/ \E c \in Calls : Begin(c) \/ (AllocateNonce(c) /\ UNCHANGED req)
<1> USE DEF serverVars, callVars
<1>0. pc \in [Calls -> Stages] BY DEF CallsTyped
<1>1. ASSUME NEW c \in Calls, Fail(c), pc[c] # "idle"
      PROVE  UNCHANGED <<req, nonce, inner>> /\ \A d \in Calls : pc[d] = "idle" => pc'[d] = "idle"
      BY <1>0, <1>1 DEF Fail
<1>2. ASSUME NEW c \in Calls, NEW to, Advance(c, to), pc[c] # "idle"
      PROVE  UNCHANGED req /\ \A d \in Calls : pc[d] = "idle" => pc'[d] = "idle"
      BY <1>0, <1>2 DEF Advance
<1>3. ASSUME NEW c \in Calls, Resolve(c) PROVE UNCHANGED <<req, nonce, inner>> /\ \A d \in Calls : pc[d] = "idle" => pc'[d] = "idle"
      BY <1>1, <1>2, <1>3 DEF Resolve
<1>4. ASSUME NEW c \in Calls, Collect(c) PROVE UNCHANGED <<req, nonce, inner>> /\ \A d \in Calls : pc[d] = "idle" => pc'[d] = "idle"
      BY <1>1, <1>2, <1>4 DEF Collect, SignAndVerify
<1>5. ASSUME NEW c \in Calls, Sign(c) PROVE UNCHANGED <<req, nonce, inner>> /\ \A d \in Calls : pc[d] = "idle" => pc'[d] = "idle"
      BY <1>1, <1>2, <1>5 DEF Sign, SignAndVerify
<1>6. ASSUME NEW c \in Calls, Post(c) \/ Receive(c) \/ Timeout(c)
      PROVE UNCHANGED <<req, nonce, inner>> /\ \A d \in Calls : pc[d] = "idle" => pc'[d] = "idle"
      BY <1>0, <1>1, <1>6 DEF Post, Receive, Timeout
<1>7. ASSUME NEW c \in Calls, AllocateNonce(c) PROVE UNCHANGED req BY <1>7 DEF AllocateNonce, Fail, Advance
<1>8. ASSUME NEW m \in wire, ServerHandle(m) \/ Lose(m) PROVE UNCHANGED <<pc, req, nonce, inner>>
      BY <1>8 DEF ServerHandle, Lose
<1>9. ClockTick \/ UNCHANGED vars => UNCHANGED <<pc, req, nonce, inner>> BY DEF ClockTick, vars
<1> QED BY <1>3, <1>4, <1>5, <1>6, <1>7, <1>8, <1>9 DEF Next, CallStep

\* Every step keeps the requests those of the menu.
LEMMA AskedStep ==
    ASSUME CallsTyped, Asked, [Next]_vars PROVE Asked'
<1>0. config \in Configs /\ DOMAIN req = Calls /\ pc \in [Calls -> Stages] BY DEF CallsTyped
<1>1. CASE UNCHANGED <<req, nonce, inner>> /\ \A c \in Calls : pc[c] = "idle" => pc'[c] = "idle"
      BY <1>1 DEF Asked
<1>2. ASSUME NEW c \in Calls, Begin(c) PROVE Asked'
  <2>1. PICK r \in Menu[config][c] : req' = [req EXCEPT ![c] = r] BY <1>2 DEF Begin
  <2>2. req'[c] = r /\ \A d \in Calls \ {c} : req'[d] = req[d] BY <1>0, <2>1
  <2>3. \A d \in Calls \ {c} : pc'[d] = pc[d] BY <1>0, <1>2 DEF Begin
  <2>4. /\ IsMulti(r) \/ r.method \in DOMAIN Methods
        /\ IsMulti(r) => /\ r.multi.signers \in Seq(Nat) /\ r.multi.authorized \in Seq(Nat)
                         /\ r.multi.threshold \in Nat
        /\ r.list \in Seq([key : Nat, num : Int])
        /\ r.orders \in Seq([builder : STRING, fee : Nat, kind : STRING])
        /\ r.method = "TransferUSDClass" => r.from = "nil"
        /\ r.method = "SubmitMultiSigL1" => r.action \in L1ActionTypes
        /\ r.method = "SubmitMultiSigUserAction" => r.action \in UserActionTypes
        /\ r.o \in Shapes(ActionOf(r))
        BY <1>0, MenuAssumption
  <2> QED BY <2>2, <2>3, <2>4 DEF Asked
<1>3. ASSUME NEW c \in Calls, AllocateNonce(c), UNCHANGED req PROVE Asked'
  <2>1. pc[c] # "idle" /\ \A d \in Calls \ {c} : pc'[d] = pc[d] BY <1>0, <1>3 DEF AllocateNonce, Fail, Advance
  <2> QED BY <1>3, <2>1 DEF Asked
<1> QED BY <1>1, <1>2, <1>3, RequestSteps

\* Every step keeps the nonce of an action that of its envelope.
LEMMA CarriedStep ==
    ASSUME CallsTyped, Ledger, Carried, [Next]_vars PROVE Carried'
<1>0. DOMAIN req = Calls /\ nonce \in [Calls -> Nat] /\ DOMAIN inner = Calls BY DEF CallsTyped, Carried
<1>1. CASE UNCHANGED <<req, nonce, inner>>
  <2>1. \A c \in Calls : OwnsNonce(req[c])' <=> OwnsNonce(req[c]) BY <1>1 DEF OwnsNonce
  <2> QED BY <1>1, <2>1 DEF Carried
<1>2. ASSUME NEW c \in Calls, Begin(c) PROVE Carried'
  <2>1. UNCHANGED <<nonce, inner>> /\ nonce[c] = 0 BY <1>2 DEF Begin, Ledger
  <2>2. \A d \in Calls \ {c} : req'[d] = req[d] BY <1>0, <1>2 DEF Begin
  <2>3. \A d \in Calls \ {c} : OwnsNonce(req[d])' <=> OwnsNonce(req[d]) BY <2>2 DEF OwnsNonce
  <2> QED BY <2>1, <2>3 DEF Carried
<1>3. ASSUME NEW c \in Calls, AllocateNonce(c), UNCHANGED req PROVE Carried'
  <2>1. \/ UNCHANGED <<nonce, inner>>
        \/ \E n : nonce' = [nonce EXCEPT ![c] = n] /\ inner' = [inner EXCEPT ![c] = n]
        \/ ~OwnsNonce(req[c]) /\ \E n, k : nonce' = [nonce EXCEPT ![c] = n] /\ inner' = [inner EXCEPT ![c] = k]
        BY <1>3 DEF AllocateNonce, Fail
  <2>2. \A d \in Calls : OwnsNonce(req[d])' <=> OwnsNonce(req[d]) BY <1>3 DEF OwnsNonce
  <2> QED BY <1>0, <1>3, <2>1, <2>2 DEF Carried
<1> QED BY <1>1, <1>2, <1>3, RequestSteps

\* However many calls run at once, two of them never post the same nonce of one
\* signer unless a caller chose it, and what AgentSendAsset and CreateVault sign
\* carries the nonce of its envelope.
THEOREM NoNonceReused == Spec => []NoNonceReuse
<1>1. Init => Asked /\ Carried BY DEF Init, Asked, Carried
<1>2. CallsTyped /\ Ledger /\ Asked /\ Carried => NoNonceReuse
  <2> SUFFICES ASSUME CallsTyped, Ledger, Asked, Carried PROVE NoNonceReuse OBVIOUS
  <2>1. PostedNoncesDiffer BY DEF Ledger, PostedNoncesDiffer, Drawn
  <2>2. ASSUME NEW c \in Calls, Posted(c), ActionOf(req[c]) \in {"AgentSendAssetAction", "CreateVaultAction"}, ~IsMulti(req[c])
        PROVE  inner[c] = nonce[c]
    <3>1. nonce[c] # 0 /\ pc[c] # "idle" BY <2>2 DEF Ledger
    <3>2. req[c].method \in DOMAIN Methods BY <2>2, <3>1 DEF Asked
    <3>3. OwnsNonce(req[c]) BY <2>2, <3>2, CarriersOwn DEF NonceCarriers
    <3> QED BY <3>1, <3>3 DEF Carried
  <2> QED BY <2>1, <2>2 DEF NoNonceReuse
<1> QED BY <1>1, <1>2, LedgerHolds, AskedStep, CarriedStep, PTL DEF Spec

---------------------------------------------------------------------------
(* A multi-sig envelope carries its quorum.                                *)

\* The addresses of a sequence without duplicates can be put in order: the place
\* of an address is the number of those that are not above it.
LEMMA OrderExists ==
    ASSUME NEW s \in Seq(Nat), IsInjective(s)
    PROVE  \E p \in Bijection(DOMAIN s, DOMAIN s) :
              \A i, j \in DOMAIN s : i < j => s[p[i]] <= s[p[j]]
<1> DEFINE n == Len(s)
           D == 1..n
           Below(k) == {l \in D : s[l] <= s[k]}
           rank == [k \in D |-> Cardinality(Below(k))]
<1>1. n \in Nat /\ DOMAIN s = D /\ \A k \in D : s[k] \in Nat OBVIOUS
<1>2. \A j, k \in D : s[j] = s[k] => j = k BY <1>1 DEF IsInjective
<1> HIDE DEF n
<1>3. IsFiniteSet(D) /\ Cardinality(D) = n
  <2>1. IsFiniteSet(1..n) /\ Cardinality(1..n) = IF 1 > n THEN 0 ELSE n - 1 + 1 BY <1>1, FS_Interval
  <2> QED BY <1>1, <2>1
<1>4. \A k \in D : Below(k) \in SUBSET D /\ k \in Below(k) BY <1>1
<1>5. \A k \in D : IsFiniteSet(Below(k)) /\ Cardinality(Below(k)) \in Nat /\ Cardinality(Below(k)) <= n
  <2> TAKE k \in D
  <2>1. Below(k) \in SUBSET D BY <1>4
  <2> HIDE DEF Below
  <2>2. IsFiniteSet(Below(k)) /\ Cardinality(Below(k)) <= Cardinality(D) BY <1>3, <2>1, FS_Subset
  <2> QED BY <1>3, <2>2, FS_CardinalityType
<1>6. \A k \in D : Cardinality(Below(k)) \in D
  <2> TAKE k \in D
  <2>1. Cardinality(Below(k)) # 0
    <3>1. Below(k) # {} BY <1>4
    <3> HIDE DEF Below
    <3> QED BY <1>5, <3>1, FS_EmptySet
  <2> HIDE DEF Below
  <2> QED BY <1>1, <1>5, <2>1
<1>7. ASSUME NEW j \in D, NEW k \in D, s[j] < s[k] PROVE Cardinality(Below(j)) < Cardinality(Below(k))
  <2>1. Below(j) \in SUBSET Below(k) BY <1>1, <1>7
  <2>2. Below(j) # Below(k)
    <3>1. k \in Below(k) BY <1>4
    <3>2. k \notin Below(j) BY <1>1, <1>7
    <3> QED BY <3>1, <3>2
  <2> HIDE DEF Below
  <2>3. Cardinality(Below(j)) <= Cardinality(Below(k)) /\ Cardinality(Below(j)) # Cardinality(Below(k))
        BY <1>5, <2>1, <2>2, FS_Subset
  <2> QED BY <1>5, <2>3
<1>8. \A k \in D : rank[k] = Cardinality(Below(k)) OBVIOUS
<1>9. rank \in [D -> D] BY <1>6
<1> HIDE DEF rank, Below
<1>10. rank \in Injection(D, D)
  <2>1. ASSUME NEW j \in D, NEW k \in D, rank[j] = rank[k] PROVE j = k
    <3>1. ~(s[j] < s[k]) /\ ~(s[k] < s[j]) BY <1>5, <1>7, <1>8, <2>1
    <3>2. s[j] = s[k] BY <1>1, <3>1
    <3> QED BY <1>2, <3>2
  <2> QED BY <1>9, <2>1 DEF Injection, IsInjective
<1>11. rank \in Surjection(D, D) BY <1>3, <1>10, FS_Injection
<1>12. \A i \in D : \E k \in D : rank[k] = i BY <1>11 DEF Surjection
<1> DEFINE p == [i \in D |-> CHOOSE k \in D : rank[k] = i]
<1>13. \A i \in D : p[i] \in D /\ rank[p[i]] = i BY <1>12
<1>14. p \in [D -> D] BY <1>13
<1> HIDE DEF p
<1>15. p \in Injection(D, D) BY <1>13, <1>14 DEF Injection, IsInjective
<1>16. p \in Surjection(D, D) BY <1>3, <1>15, FS_Injection
<1>17. ASSUME NEW i \in D, NEW j \in D, i < j PROVE s[p[i]] <= s[p[j]]
  <2>1. p[i] \in D /\ p[j] \in D /\ Cardinality(Below(p[i])) = i /\ Cardinality(Below(p[j])) = j BY <1>8, <1>13
  <2>2. ~(s[p[j]] < s[p[i]])
    <3> SUFFICES ASSUME s[p[j]] < s[p[i]] PROVE FALSE OBVIOUS
    <3>1. j < i BY <1>7, <2>1
    <3> QED BY <1>17, <3>1
  <2> QED BY <1>1, <2>1, <2>2
<1>18. p \in Bijection(D, D) BY <1>15, <1>16 DEF Bijection
<1> QED BY <1>1, <1>17, <1>18

\* sortMultiSigSignatures: the same addresses, in ascending order.
LEMMA SortedFacts ==
    ASSUME NEW s \in Seq(Nat), IsInjective(s)
    PROVE  /\ Sorted(s) \in Seq(Nat) /\ DOMAIN Sorted(s) = DOMAIN s /\ ToSet(Sorted(s)) = ToSet(s)
           /\ \A i, j \in DOMAIN s : i < j => Sorted(s)[i] < Sorted(s)[j]
<1> DEFINE D == DOMAIN s
           Right(p) == \A i, j \in D : i < j => s[p[i]] <= s[p[j]]
           order == CHOOSE p \in Bijection(D, D) : Right(p)
<1>0. D = 1..Len(s) /\ Len(s) \in Nat /\ \A k \in D : s[k] \in Nat OBVIOUS
<1>1. \E p \in Bijection(D, D) : Right(p) BY OrderExists
<1>2. order \in Bijection(D, D) /\ Right(order)
  <2> HIDE DEF Right
  <2> QED BY <1>1
<1>3. Sorted(s) = [i \in D |-> s[order[i]]] BY DEF Sorted
<1> HIDE DEF order
<1>4. order \in [D -> D] /\ (\A i, j \in D : order[i] = order[j] => i = j) /\ \A k \in D : \E i \in D : order[i] = k
      BY <1>2 DEF Bijection, Injection, Surjection, IsInjective
<1> HIDE DEF D
<1>5. Sorted(s) \in [1..Len(s) -> Nat] /\ DOMAIN Sorted(s) = D /\ \A i \in D : Sorted(s)[i] = s[order[i]]
  <2>1. \A i \in D : order[i] \in D BY <1>4
  <2>2. \A i \in D : s[order[i]] \in Nat BY <1>0, <2>1
  <2>3. DOMAIN Sorted(s) = D /\ \A i \in D : Sorted(s)[i] = s[order[i]] BY <1>3
  <2>4. [i \in D |-> s[order[i]]] \in [D -> Nat] BY <2>2
  <2> QED BY <1>0, <1>3, <2>3, <2>4
<1>6. Sorted(s) \in Seq(Nat) BY <1>0, <1>5
<1>7. ASSUME NEW i \in D, NEW j \in D, i < j PROVE Sorted(s)[i] < Sorted(s)[j]
  <2>0. i # j BY <1>0, <1>7
  <2>1. order[i] \in D /\ order[j] \in D /\ order[i] # order[j] BY <1>4, <2>0
  <2>2. s[order[i]] <= s[order[j]] BY <1>2, <1>7
  <2>3. s[order[i]] # s[order[j]] BY <2>1 DEF IsInjective, D
  <2>4. s[order[i]] \in Nat /\ s[order[j]] \in Nat BY <1>0, <2>1
  <2>5. s[order[i]] < s[order[j]] BY <2>2, <2>3, <2>4
  <2> QED BY <1>5, <2>5
<1>8. ToSet(Sorted(s)) = ToSet(s)
  <2>1. ToSet(Sorted(s)) = {Sorted(s)[i] : i \in D} /\ ToSet(s) = {s[i] : i \in D} BY <1>5 DEF ToSet, D
  <2>2. ASSUME NEW i \in D PROVE Sorted(s)[i] \in {s[k] : k \in D}
    <3>1. order[i] \in D /\ Sorted(s)[i] = s[order[i]] BY <1>4, <1>5
    <3> QED BY <3>1
  <2>3. ASSUME NEW k \in D PROVE s[k] \in {Sorted(s)[i] : i \in D}
    <3>1. PICK i \in D : order[i] = k BY <1>4
    <3>2. Sorted(s)[i] = s[k] BY <1>5, <3>1
    <3> QED BY <3>2
  <2> QED BY <2>1, <2>2, <2>3
<1> QED BY <1>5, <1>6, <1>7, <1>8 DEF D

\* As many addresses as the sequence is long.
LEMMA DistinctCount ==
    ASSUME NEW s \in Seq(Nat), IsInjective(s)
    PROVE  Cardinality(ToSet(s)) = Len(s)
<1> DEFINE n == Len(s)
           T == ToSet(s)
<1>1. n \in Nat /\ DOMAIN s = 1..n OBVIOUS
<1>2. s \in Bijection(1..n, T)
  <2>1. T = {s[i] : i \in 1..n} BY <1>1 DEF ToSet
  <2>2. s \in [1..n -> T] BY <1>1, <2>1
  <2>3. s \in Injection(1..n, T) BY <2>2 DEF Injection
  <2>4. s \in Surjection(1..n, T) BY <2>1, <2>2 DEF Surjection
  <2> QED BY <2>3, <2>4 DEF Bijection
<1> HIDE DEF n, T
<1>3. IsFiniteSet(1..n) /\ Cardinality(1..n) = IF 1 > n THEN 0 ELSE n - 1 + 1 BY <1>1, FS_Interval
<1>4. Cardinality(T) = Cardinality(1..n) BY <1>2, <1>3, FS_Bijection DEF ExistsBijection
<1>5. Cardinality(T) = n BY <1>1, <1>3, <1>4
<1> QED BY <1>5 DEF n, T

\* The contributions of a call: none before collect, those of the first signers
\* of the configuration there, and from sign on those of all, sorted.
Contributed ==
    /\ DOMAIN sigs = Calls
    /\ \A c \in Calls : pc[c] \in {"idle", "resolve", "nonce"} => sigs[c] = <<>>
    /\ \A c \in Calls : pc[c] = "collect" =>
        /\ IsMulti(req[c]) /\ sigs[c] \in Seq(Nat) /\ Len(sigs[c]) < Len(req[c].multi.signers)
        /\ \A i \in 1..Len(sigs[c]) : sigs[c][i] = req[c].multi.signers[i]
    /\ \A c \in Calls : pc[c] \in {"sign", "post", "wait"} /\ IsMulti(req[c]) => sigs[c] = Sorted(req[c].multi.signers)

\* The last contribution completes the configuration.
LEMMA Completed ==
    ASSUME NEW s \in Seq(Nat), NEW t \in Seq(Nat), Len(t) < Len(s), \A i \in 1..Len(t) : t[i] = s[i],
           NEW u, u = Append(t, s[Len(t) + 1])
    PROVE  /\ u \in Seq(Nat) /\ Len(u) = Len(t) + 1 /\ \A i \in 1..Len(u) : u[i] = s[i]
           /\ Len(u) = Len(s) => u = s
<1>1. Len(t) \in Nat /\ Len(s) \in Nat /\ Len(t) + 1 \in 1..Len(s) OBVIOUS
<1>2. s[Len(t) + 1] \in Nat BY <1>1
<1>3. u \in Seq(Nat) /\ Len(u) = Len(t) + 1 BY <1>2
<1>4. ASSUME NEW i \in 1..Len(u) PROVE u[i] = s[i]
  <2>1. CASE i = Len(t) + 1 BY <1>2, <2>1
  <2>2. CASE i \in 1..Len(t) BY <1>2, <2>2
  <2> QED BY <1>1, <1>3, <2>1, <2>2
<1>5. ASSUME Len(u) = Len(s) PROVE u = s
  <2>1. u = [i \in 1..Len(u) |-> u[i]] /\ s = [i \in 1..Len(s) |-> s[i]] BY <1>3
  <2> HIDE <1>1
  <2> QED BY <1>4, <1>5, <2>1
<1> QED BY <1>3, <1>4, <1>5

\* Steps that leave the contributions and the request of a call alone.
LEMMA ContributedKept ==
    ASSUME CallsTyped, Contributed, UNCHANGED sigs,
           \A c \in Calls : \/ req'[c] = req[c] /\ pc'[c] = pc[c]
                            \/ pc'[c] = "done"
                            \/ pc[c] \in {"idle", "resolve", "nonce"} /\ pc'[c] \in {"idle", "resolve", "nonce"}
                            \/ pc[c] \in {"sign", "post", "wait"} /\ pc'[c] \in {"sign", "post", "wait"} /\ req'[c] = req[c]
    PROVE  Contributed'
<1>1. \A c \in Calls : req'[c] = req[c] => (IsMulti(req[c])' <=> IsMulti(req[c])) BY DEF IsMulti
<1>2. ASSUME NEW c \in Calls, pc'[c] \in {"idle", "resolve", "nonce"} PROVE sigs'[c] = <<>> BY <1>2 DEF Contributed
<1>3. ASSUME NEW c \in Calls, pc'[c] = "collect"
      PROVE  /\ IsMulti(req[c])' /\ sigs'[c] \in Seq(Nat) /\ Len(sigs'[c]) < Len(req'[c].multi.signers)
             /\ \A i \in 1..Len(sigs'[c]) : sigs'[c][i] = req'[c].multi.signers[i]
  <2>1. req'[c] = req[c] /\ pc[c] = "collect" BY <1>3
  <2> QED BY <1>1, <2>1 DEF Contributed
<1>4. ASSUME NEW c \in Calls, pc'[c] \in {"sign", "post", "wait"}, IsMulti(req[c])'
      PROVE  sigs'[c] = Sorted(req'[c].multi.signers)
  <2>1. req'[c] = req[c] /\ pc[c] \in {"sign", "post", "wait"} BY <1>4
  <2>2. sigs[c] = Sorted(req[c].multi.signers) BY <1>1, <1>4, <2>1 DEF Contributed
  <2> QED BY <2>1, <2>2
<1> QED BY <1>2, <1>3, <1>4 DEF Contributed

\* A call goes on to its contributions, or to the next one.
LEMMA ContributedStep ==
    ASSUME CallsTyped, Journal, Asked, Contributed, [Next]_vars PROVE Contributed'
<1> USE DEF serverVars, callVars
<1>0. pc \in [Calls -> Stages] /\ DOMAIN req = Calls /\ DOMAIN sigs = Calls BY DEF CallsTyped, Contributed
<1>1. ASSUME NEW c \in Calls, Fail(c) PROVE Contributed'
  <2>1. pc' = [pc EXCEPT ![c] = "done"] /\ UNCHANGED <<req, sigs>> BY <1>1 DEF Fail
  <2> QED BY <1>0, <2>1, ContributedKept
<1>2. ASSUME NEW c \in Calls, Begin(c) PROVE Contributed'
  <2>1. UNCHANGED sigs /\ pc[c] = "idle" /\ \A d \in Calls \ {c} : req'[d] = req[d] /\ pc'[d] = pc[d]
        BY <1>0, <1>2 DEF Begin
  <2>2. pc'[c] \in {"done", "resolve", "nonce"} BY <1>0, <1>2 DEF Begin
  <2> QED BY <2>1, <2>2, ContributedKept
<1>3. ASSUME NEW c \in Calls, Resolve(c) PROVE Contributed'
  <2>1. CASE Advance(c, "nonce") /\ UNCHANGED sigs
    <3>1. UNCHANGED <<req, sigs>> /\ pc[c] = "resolve" /\ pc' = [pc EXCEPT ![c] = "nonce"] BY <1>3, <2>1 DEF Resolve, Advance
    <3> QED BY <1>0, <3>1, ContributedKept
  <2> QED BY <1>1, <1>3, <2>1 DEF Resolve
<1>4. ASSUME NEW c \in Calls, Sign(c) PROVE Contributed'
  <2>1. CASE Advance(c, "post") /\ UNCHANGED sigs
    <3>1. UNCHANGED <<req, sigs>> /\ pc[c] = "sign" /\ pc' = [pc EXCEPT ![c] = "post"] BY <1>4, <2>1 DEF Sign, Advance
    <3> QED BY <1>0, <3>1, ContributedKept
  <2> QED BY <1>1, <1>4, <2>1 DEF Sign, SignAndVerify
<1>5. ASSUME NEW c \in Calls, Post(c) \/ Receive(c) \/ Timeout(c) PROVE Contributed'
  <2>1. Fail(c) \/ (UNCHANGED <<req, sigs>> /\ ((pc[c] = "post" /\ pc' = [pc EXCEPT ![c] = "wait"]) \/ pc' = [pc EXCEPT ![c] = "done"]))
        BY <1>5 DEF Post, Receive, Timeout
  <2> QED BY <1>0, <1>1, <2>1, ContributedKept
<1>6. ASSUME UNCHANGED <<pc, req, sigs>> PROVE Contributed' BY <1>6, ContributedKept
<1>7. ASSUME NEW c \in Calls, pc[c] \in {"nonce", "collect"}, IsMulti(req[c])
      PROVE  /\ MultiSigValid(req[c].multi) /\ req[c].multi.signers \in Seq(Nat) /\ Len(req[c].multi.signers) >= 1
             /\ Len(req[c].multi.signers) \in Nat
  <2>1. MultiSigValid(req[c].multi) BY <1>7 DEF Journal, Refused
  <2>2. req[c].multi.signers \in Seq(Nat) /\ req[c].multi.authorized \in Seq(Nat) BY <1>7 DEF Asked
  <2>3. Len(req[c].multi.signers) \in Nat /\ Len(req[c].multi.authorized) \in Nat BY <2>2
  <2>4. Len(req[c].multi.signers) \in req[c].multi.threshold..Len(req[c].multi.authorized)
        /\ req[c].multi.threshold \in 1..Len(req[c].multi.authorized)
        BY <2>1 DEF MultiSigValid
  <2> QED BY <2>1, <2>2, <2>3, <2>4
<1>8. ASSUME NEW c \in Calls, AllocateNonce(c) PROVE Contributed'
  <2>1. pc[c] = "nonce" /\ sigs[c] = <<>> BY <1>8 DEF AllocateNonce, Contributed
  <2>2. CASE Advance(c, IF IsMulti(req[c]) THEN "collect" ELSE "sign") /\ UNCHANGED sigs
    <3>1. UNCHANGED <<req, sigs>> /\ pc' = [pc EXCEPT ![c] = IF IsMulti(req[c]) THEN "collect" ELSE "sign"]
          BY <2>2 DEF Advance
    <3>2. \A d \in Calls : IsMulti(req[d])' <=> IsMulti(req[d]) BY <3>1 DEF IsMulti
    <3>3. \A d \in Calls \ {c} : pc'[d] = pc[d] BY <1>0, <3>1
    <3>4. pc'[c] = IF IsMulti(req[c]) THEN "collect" ELSE "sign" BY <1>0, <3>1
    <3>5. \A d \in Calls : pc'[d] \in {"idle", "resolve", "nonce"} => sigs'[d] = <<>> BY <3>1, <3>3, <3>4 DEF Contributed
    <3>6. ASSUME NEW d \in Calls, pc'[d] = "collect"
          PROVE  /\ IsMulti(req[d])' /\ sigs'[d] \in Seq(Nat) /\ Len(sigs'[d]) < Len(req'[d].multi.signers)
                 /\ \A i \in 1..Len(sigs'[d]) : sigs'[d][i] = req'[d].multi.signers[i]
      <4>1. CASE d # c BY <3>1, <3>2, <3>3, <3>6, <4>1 DEF Contributed
      <4>2. CASE d = c
        <5>1. IsMulti(req[c]) BY <3>4, <3>6, <4>2
        <5>2. Len(req[c].multi.signers) >= 1 /\ Len(req[c].multi.signers) \in Nat BY <1>7, <2>1, <5>1
        <5>3. sigs'[c] = <<>> /\ Len(sigs'[c]) = 0 /\ sigs'[c] \in Seq(Nat) 
          <6>1. sigs'[c] = <<>> BY <2>1, <3>1
          <6> QED BY <6>1
        <5>4. 1..0 = {} OBVIOUS
        <5> QED BY <3>1, <3>2, <4>2, <5>1, <5>2, <5>3, <5>4
      <4> QED BY <4>1, <4>2
    <3>7. \A d \in Calls : pc'[d] \in {"sign", "post", "wait"} /\ IsMulti(req[d])' => sigs'[d] = Sorted(req'[d].multi.signers)
          BY <3>1, <3>2, <3>3, <3>4 DEF Contributed
    <3> QED BY <1>0, <3>1, <3>5, <3>6, <3>7 DEF Contributed
  <2> QED BY <1>1, <1>8, <2>2 DEF AllocateNonce
<1>9. ASSUME NEW c \in Calls, Collect(c) PROVE Contributed'
  <2> DEFINE s == req[c].multi.signers
             k == Len(sigs[c]) + 1
             collected == Append(sigs[c], s[k])
  <2>1. /\ pc[c] = "collect" /\ IsMulti(req[c]) /\ sigs[c] \in Seq(Nat) /\ Len(sigs[c]) < Len(s)
        /\ \A i \in 1..Len(sigs[c]) : sigs[c][i] = s[i]
        BY <1>9 DEF Collect, Contributed
  <2>2. s \in Seq(Nat) BY <1>7, <2>1
  <2>3. \/ Fail(c)
        \/ k = Len(s) /\ sigs' = [sigs EXCEPT ![c] = Sorted(collected)] /\ Advance(c, "sign")
        \/ k # Len(s) /\ sigs' = [sigs EXCEPT ![c] = collected] /\ Advance(c, "collect")
        BY <1>9 DEF Collect, SignAndVerify
  <2>4. /\ collected \in Seq(Nat) /\ Len(collected) = k /\ (\A i \in 1..Len(collected) : collected[i] = s[i])
        /\ Len(collected) = Len(s) => collected = s
    <3>1. collected = Append(sigs[c], s[Len(sigs[c]) + 1]) OBVIOUS
    <3> HIDE DEF s, collected
    <3> QED BY <2>1, <2>2, <3>1, Completed
  <2> HIDE DEF collected
  <2>5. ASSUME NEW to \in {"sign", "collect"}, Advance(c, to), NEW v, sigs' = [sigs EXCEPT ![c] = v],
               to = "sign" => v = Sorted(s),
               to = "collect" => v \in Seq(Nat) /\ Len(v) < Len(s) /\ \A i \in 1..Len(v) : v[i] = s[i]
        PROVE  Contributed'
    <3>1. UNCHANGED req /\ pc' = [pc EXCEPT ![c] = to] BY <2>5 DEF Advance
    <3>2. \A d \in Calls : IsMulti(req[d])' <=> IsMulti(req[d]) BY <3>1 DEF IsMulti
    <3>3. pc'[c] = to /\ sigs'[c] = v /\ \A d \in Calls \ {c} : pc'[d] = pc[d] /\ sigs'[d] = sigs[d] BY <1>0, <2>5, <3>1
    <3>4. \A d \in Calls : pc'[d] \in {"idle", "resolve", "nonce"} => sigs'[d] = <<>> BY <3>3 DEF Contributed
    <3>5. ASSUME NEW d \in Calls, pc'[d] = "collect"
          PROVE  /\ IsMulti(req[d])' /\ sigs'[d] \in Seq(Nat) /\ Len(sigs'[d]) < Len(req'[d].multi.signers)
                 /\ \A i \in 1..Len(sigs'[d]) : sigs'[d][i] = req'[d].multi.signers[i]
      <4>1. CASE d # c BY <3>1, <3>2, <3>3, <3>5, <4>1 DEF Contributed
      <4>2. CASE d = c BY <2>1, <2>5, <3>1, <3>2, <3>3, <3>5, <4>2
      <4> QED BY <4>1, <4>2
    <3>6. ASSUME NEW d \in Calls, pc'[d] \in {"sign", "post", "wait"}, IsMulti(req[d])'
          PROVE sigs'[d] = Sorted(req'[d].multi.signers)
      <4>1. CASE d # c BY <3>1, <3>2, <3>3, <3>6, <4>1 DEF Contributed
      <4>2. CASE d = c BY <2>5, <3>1, <3>3, <3>6, <4>2
      <4> QED BY <4>1, <4>2
    <3>7. DOMAIN sigs' = Calls BY <1>0, <2>5
    <3> QED BY <3>4, <3>5, <3>6, <3>7 DEF Contributed
  <2>6. CASE k = Len(s) /\ sigs' = [sigs EXCEPT ![c] = Sorted(collected)] /\ Advance(c, "sign")
        BY <2>4, <2>5, <2>6
  <2>7. CASE k # Len(s) /\ sigs' = [sigs EXCEPT ![c] = collected] /\ Advance(c, "collect")
    <3>1. Len(collected) < Len(s)
      <4>1. Len(s) \in Nat /\ Len(sigs[c]) \in Nat BY <2>1, <2>2
      <4> QED BY <2>1, <2>4, <2>7, <4>1
    <3> QED BY <2>4, <2>5, <2>7, <3>1
  <2> QED BY <1>1, <2>3, <2>6, <2>7
<1>10. ASSUME NEW m \in wire, ServerHandle(m) \/ Lose(m) PROVE Contributed' BY <1>6, <1>10 DEF ServerHandle, Lose
<1>11. ClockTick \/ UNCHANGED vars => Contributed' BY <1>6 DEF ClockTick, vars
<1> QED BY <1>2, <1>3, <1>4, <1>5, <1>8, <1>9, <1>10, <1>11 DEF Next, CallStep

\* Whoever signs, refuses or answers with another key, the envelope of a multi-sig
\* submission carries at least the threshold of contributions, of distinct
\* authorized users in ascending order.
THEOREM QuorumCarried == Spec => []QuorumVerified
<1>1. Init => Asked /\ Contributed BY DEF Init, Asked, Contributed
<1>2. Journal /\ Asked /\ Contributed => QuorumVerified
  <2> SUFFICES ASSUME Journal, Asked, Contributed, NEW c \in Calls, pc[c] \in {"post", "wait"}, IsMulti(req[c])
               PROVE  LET m == req[c].multi
                      IN /\ ToSet(sigs[c]) \subseteq ToSet(m.authorized) \ {0}
                         /\ \A i, j \in DOMAIN sigs[c] : i < j => sigs[c][i] < sigs[c][j]
                         /\ Cardinality(ToSet(sigs[c])) >= m.threshold /\ m.threshold > 0
                         /\ {m.leader, m.owner} \cap ToSet(m.authorized) # {}
      BY DEF QuorumVerified
  <2> DEFINE m == req[c].multi
  <2>1. MultiSigValid(m) BY DEF Journal, Refused
  <2>2. m.signers \in Seq(Nat) /\ m.authorized \in Seq(Nat) /\ m.threshold \in Nat BY DEF Asked
  <2>3. sigs[c] = Sorted(m.signers) BY DEF Contributed
  <2> HIDE DEF m
  <2>4. IsInjective(m.signers) BY <2>1 DEF MultiSigValid, UniqueSigners
  <2>5. /\ DOMAIN sigs[c] = DOMAIN m.signers /\ ToSet(sigs[c]) = ToSet(m.signers)
        /\ \A i, j \in DOMAIN m.signers : i < j => sigs[c][i] < sigs[c][j]
        BY <2>2, <2>3, <2>4, SortedFacts
  <2>6. ToSet(m.signers) \subseteq ToSet(m.authorized) \ {0} BY <2>1 DEF MultiSigValid
  <2>7. Cardinality(ToSet(m.signers)) >= m.threshold /\ m.threshold > 0
    <3>1. Cardinality(ToSet(m.signers)) = Len(m.signers) BY <2>2, <2>4, DistinctCount
    <3>2. Len(m.signers) \in m.threshold..Len(m.authorized) /\ m.threshold \in 1..Len(m.authorized)
          BY <2>1 DEF MultiSigValid
    <3>3. Len(m.signers) \in Nat /\ Len(m.authorized) \in Nat BY <2>2
    <3> QED BY <2>2, <3>1, <3>2, <3>3
  <2>8. {m.leader, m.owner} \cap ToSet(m.authorized) # {} BY <2>1 DEF MultiSigValid
  <2> QED BY <2>5, <2>6, <2>7, <2>8 DEF m
<1> QED BY <1>1, <1>2, CallsTypedHolds, JournalHolds, AskedStep, ContributedStep, PTL DEF Spec

---------------------------------------------------------------------------
(* What is posted was asked for.                                           *)

\* PlaceOrders resolves first, SubmitPerpDeploy builds the action of a deployer,
\* SendAsset and TransferUSDClass are user actions without an outer vault.
LEMMA MethodRows ==
    /\ \A m \in DOMAIN Methods : m = "PlaceOrders" => Methods[m].resolves
    /\ \A m \in DOMAIN Methods : m = "SubmitPerpDeploy" => Methods[m].action = "PerpDeployAction"
    /\ \A m \in DOMAIN Methods : m \in {"SendAsset", "TransferUSDClass"} =>
            Methods[m].path = "user" /\ Methods[m].action \in OmitOuterVault
<1> DEFINE Row(m, row) ==
              /\ m = "PlaceOrders" => row.resolves
              /\ m = "SubmitPerpDeploy" => row.action = "PerpDeployAction"
              /\ m \in {"SendAsset", "TransferUSDClass"} => row.path = "user" /\ row.action \in OmitOuterVault
           Right(u) == \A m \in DOMAIN u : Row(m, u[m])
<1>1. Right(OrderMethods) /\ Right(CancelMethods) /\ Right(ModifyMethods) /\ Right(TWAPMethods)
      BY DEF OrderMethods, CancelMethods, ModifyMethods, TWAPMethods, M
<1>2. Right(CoreMethods) BY DEF CoreMethods, M
<1>3. Right(StakingMethods) BY DEF StakingMethods, M
<1>4. Right(TransferMethods) /\ Right(DeployMethods) BY DEF TransferMethods, DeployMethods, M
<1>5. Right(CompatMethods) BY DEF CompatMethods, M
<1>6. Right(AgentMethods) BY DEF AgentMethods, M
<1>7. Right(AbstractionMethods) BY DEF AbstractionMethods, M
<1>8. Right(UserMethods) BY DEF UserMethods, M, OmitOuterVault
<1>9. Right(AccountMethods) BY DEF AccountMethods, M
<1>10. \A t \in MethodTables : Right(t)
  <2> HIDE DEF Right
  <2> QED BY <1>1, <1>2, <1>3, <1>4, <1>5, <1>6, <1>7, <1>8, <1>9 DEF MethodTables
<1>11. \A m \in DOMAIN Methods : Row(m, Methods[m])
  <2> TAKE m \in DOMAIN Methods
  <2>1. PICK t \in MethodTables : m \in DOMAIN t /\ Methods[m] = t[m] BY MethodFacts
  <2> HIDE DEF Row
  <2> QED BY <1>10, <2>1
<1> QED BY <1>11

\* Where every entry of a list stands in a transitive relation to the one before
\* it, it does to every earlier one.
LEMMA Chained ==
    ASSUME NEW T, NEW s \in Seq(T), NEW R,
           \A x, y, z \in T : <<x, y>> \in R /\ <<y, z>> \in R => <<x, z>> \in R,
           \A i \in DOMAIN s : i > 1 => <<s[i - 1], s[i]>> \in R
    PROVE  \A i, j \in DOMAIN s : i < j => <<s[i], s[j]>> \in R
<1>0. Len(s) \in Nat /\ DOMAIN s = 1..Len(s) /\ \A i \in 1..Len(s) : s[i] \in T OBVIOUS
<1> SUFFICES ASSUME NEW i \in 1..Len(s) PROVE \A j \in 1..Len(s) : i < j => <<s[i], s[j]>> \in R BY <1>0
<1> DEFINE Bad == {j \in 1..Len(s) : i < j /\ <<s[i], s[j]>> \notin R}
<1> SUFFICES ASSUME Bad # {} PROVE FALSE OBVIOUS
<1>1. \E x \in Bad : \A y \in Bad : ~(<<y, x>> \in OpToRel(<, Nat))
  <2>1. Bad \in SUBSET Nat OBVIOUS
  <2> HIDE DEF Bad
  <2> QED BY <2>1, NatLessThanWellFounded, WFMin
<1>2. PICK j \in Bad : \A k \in Bad : ~(k < j)
  <2>1. \A k \in Bad : k \in Nat OBVIOUS
  <2> HIDE DEF Bad
  <2> QED BY <1>1, <2>1 DEF OpToRel
<1>3. j \in 1..Len(s) /\ i < j /\ <<s[i], s[j]>> \notin R OBVIOUS
<1>4. j - 1 \in 1..Len(s) /\ j - 1 < j /\ j > 1 BY <1>0, <1>3
<1>5. <<s[j - 1], s[j]>> \in R BY <1>0, <1>3, <1>4
<1>6. j - 1 # i BY <1>3, <1>5
<1>7. i < j - 1 BY <1>0, <1>3, <1>6
<1>8. j - 1 \notin Bad BY <1>2, <1>4
<1>9. <<s[i], s[j - 1]>> \in R BY <1>4, <1>7, <1>8
<1> QED BY <1>0, <1>3, <1>4, <1>5, <1>9

\* The variants whose list is sorted by key alone.
KeyVariants == {"SetFundingMultipliers", "SetFundingInterestRates", "SetMarginTableIDs",
                "SetOpenInterestCaps", "SetMarginModes", "SetGrowthModes"}
Pairs == [key : Nat, num : Int]

\* validatePerpDeploy: the list a deployer posts is sorted as its variant asks.
LEMMA ListSorted ==
    ASSUME NEW v \in ListVariants, NEW s \in Seq(Pairs), validatePerpDeploy(v, s)
    PROVE  \A i, j \in DOMAIN s : /\ i < j => Before(v, s[i], s[j])
                                  /\ v # "InsertMarginTable" => s[i].key # 0
<1>0. Len(s) \in Nat /\ DOMAIN s = 1..Len(s) /\ \A i \in 1..Len(s) : s[i] \in Pairs OBVIOUS
<1>00. \A i \in 1..Len(s) : s[i].key \in Nat /\ s[i].num \in Int BY <1>0 DEF Pairs
<1>1. v \in KeyVariants \cup {"InsertMarginTable", "SetSubDeployers"} BY DEF ListVariants, KeyVariants
<1> DEFINE R == {p \in Pairs \X Pairs : Before(v, p[1], p[2])}
<1>2. ASSUME \A x, y, z \in Pairs : Before(v, x, y) /\ Before(v, y, z) => Before(v, x, z),
             \A i \in DOMAIN s : i > 1 => Before(v, s[i - 1], s[i])
      PROVE  \A i, j \in DOMAIN s : i < j => Before(v, s[i], s[j])
  <2>1. \A x, y \in Pairs : <<x, y>> \in R <=> Before(v, x, y) OBVIOUS
  <2> HIDE DEF R
  <2>2. \A x, y, z \in Pairs : <<x, y>> \in R /\ <<y, z>> \in R => <<x, z>> \in R BY <1>2, <2>1
  <2>3. \A i \in DOMAIN s : i > 1 => <<s[i - 1], s[i]>> \in R
    <3> SUFFICES ASSUME NEW i \in 1..Len(s), i > 1 PROVE <<s[i - 1], s[i]>> \in R BY <1>0
    <3>1. i - 1 \in 1..Len(s) BY <1>0
    <3> QED BY <1>0, <1>2, <2>1, <3>1
  <2>4. \A i, j \in DOMAIN s : i < j => <<s[i], s[j]>> \in R BY <2>2, <2>3, Chained
  <2> QED BY <1>0, <2>1, <2>4
<1>3. CASE v \in KeyVariants
  <2>1. \A x, y : Before(v, x, y) <=> x.key < y.key
    <3>1. v \notin {"SetSubDeployers", "InsertMarginTable"} BY <1>3 DEF KeyVariants
    <3> QED BY <3>1, Zenon DEF Before
  <2>2. SortedKeys(s)
    <3>1. CASE v = "SetFundingMultipliers"
      <4>1. validSortedUnsignedDecimalPairs(s) BY <3>1, Zenon DEF validatePerpDeploy
      <4> QED BY <4>1 DEF validSortedUnsignedDecimalPairs
    <3>2. CASE v = "SetFundingInterestRates"
      <4>1. validSortedDecimalPairs(s) BY <3>2, Zenon DEF validatePerpDeploy
      <4> QED BY <4>1 DEF validSortedDecimalPairs
    <3>3. CASE v \in {"SetMarginTableIDs", "SetOpenInterestCaps"}
      <4>1. validSortedUintPairs(s) BY <3>3, Zenon DEF validatePerpDeploy
      <4> QED BY <4>1 DEF validSortedUintPairs
    <3>4. CASE v \in {"SetMarginModes", "SetGrowthModes"} BY <3>4, Zenon DEF validatePerpDeploy
    <3> QED BY <1>3, <3>1, <3>2, <3>3, <3>4 DEF KeyVariants
  <2>3. \A i \in DOMAIN s : s[i].key # 0 BY <2>2 DEF SortedKeys
  <2>4. \A i \in DOMAIN s : i > 1 => s[i - 1].key < s[i].key
    <3> SUFFICES ASSUME NEW i \in 1..Len(s), i > 1 PROVE s[i - 1].key < s[i].key BY <1>0
    <3>1. i - 1 \in 1..Len(s) BY <1>0
    <3>0. i # 1 BY <1>0
    <3>2. KeyFollows(s[i - 1].key, s[i].key)
      <4>1. KeyFollows(IF i = 1 THEN 0 ELSE s[i - 1].key, s[i].key) BY <1>0, <2>2, Zenon DEF SortedKeys
      <4> QED BY <3>0, <4>1
    <3> QED BY <1>0, <1>00, <2>3, <3>1, <3>2 DEF KeyFollows
  <2>5. \A x, y, z \in Pairs : Before(v, x, y) /\ Before(v, y, z) => Before(v, x, z) BY <2>1 DEF Pairs
  <2>6. \A i \in DOMAIN s : i > 1 => Before(v, s[i - 1], s[i]) BY <2>1, <2>4
  <2> QED BY <1>2, <2>3, <2>5, <2>6
<1>4. CASE v = "InsertMarginTable"
  <2>1. \A x, y : Before(v, x, y) <=> x.key < y.key /\ y.num <= x.num BY <1>4, Zenon DEF Before
  <2>2. validMarginTiers(s) BY <1>4, Zenon DEF validatePerpDeploy
  <2>3. \A i \in DOMAIN s : i > 1 => Before(v, s[i - 1], s[i])
    <3> SUFFICES ASSUME NEW i \in 1..Len(s), i > 1 PROVE Before(v, s[i - 1], s[i]) BY <1>0
    <3>1. i - 1 \in 1..Len(s) BY <1>0
    <3>2. s[i].key > s[i - 1].key /\ s[i].num <= s[i - 1].num BY <1>0, <2>2 DEF validMarginTiers
    <3> QED BY <1>00, <2>1, <3>1, <3>2
  <2>4. ASSUME NEW x \in Pairs, NEW y \in Pairs, NEW z \in Pairs, Before(v, x, y), Before(v, y, z)
        PROVE  Before(v, x, z)
    <3>1. x.key \in Nat /\ y.key \in Nat /\ z.key \in Nat /\ x.num \in Int /\ y.num \in Int /\ z.num \in Int
          BY DEF Pairs
    <3>2. x.key < y.key /\ y.num <= x.num /\ y.key < z.key /\ z.num <= y.num BY <2>1, <2>4
    <3>3. x.key < z.key /\ z.num <= x.num BY <3>1, <3>2
    <3> QED BY <2>1, <3>3
  <2> QED BY <1>2, <1>4, <2>3, <2>4
<1>5. CASE v = "SetSubDeployers"
  <2>1. \A x, y : Before(v, x, y) <=> x.key < y.key \/ (x.key = y.key /\ x.num < y.num) BY <1>5, Zenon DEF Before
  <2>2. validSubDeployers(s) BY <1>5, Zenon DEF validatePerpDeploy
  <2>3. \A i \in DOMAIN s : s[i].key # 0 BY <2>2 DEF validSubDeployers
  <2>4. \A i \in DOMAIN s : i > 1 => Before(v, s[i - 1], s[i])
    <3> SUFFICES ASSUME NEW i \in 1..Len(s), i > 1 PROVE Before(v, s[i - 1], s[i]) BY <1>0
    <3>1. i - 1 \in 1..Len(s) BY <1>0
    <3>2. ~(s[i].key < s[i - 1].key \/ (s[i].key = s[i - 1].key /\ s[i].num <= s[i - 1].num))
          BY <1>0, <2>2 DEF validSubDeployers
    <3> QED BY <1>00, <2>1, <3>1, <3>2
  <2>5. ASSUME NEW x \in Pairs, NEW y \in Pairs, NEW z \in Pairs, Before(v, x, y), Before(v, y, z)
        PROVE  Before(v, x, z)
    <3>1. x.key \in Nat /\ y.key \in Nat /\ z.key \in Nat /\ x.num \in Int /\ y.num \in Int /\ z.num \in Int
          BY DEF Pairs
    <3>2. /\ x.key < y.key \/ (x.key = y.key /\ x.num < y.num)
          /\ y.key < z.key \/ (y.key = z.key /\ y.num < z.num)
          BY <2>1, <2>5
    <3>3. x.key < z.key \/ (x.key = z.key /\ x.num < z.num) BY <3>1, <3>2
    <3> QED BY <2>1, <3>3
  <2> QED BY <1>2, <2>3, <2>4, <2>5
<1> QED BY <1>1, <1>3, <1>4, <1>5

\* The loop of builderForOrders, as the equation its accumulator satisfies.
BuilderLoop(f, orders, n) ==
    f = [i \in 0..n |-> IF i = 0 THEN [ok |-> TRUE, output |-> <<>>]
                        ELSE BuilderStep(orders[1].builder # "nil", f[i - 1], orders[i])]

\* The loop of builderForOrders ends: its accumulator has a value after every order.
LEMMA BuilderLoopExists ==
    ASSUME NEW orders, NEW n \in Nat
    PROVE  \E f : BuilderLoop(f, orders, n)
<1> DEFINE Start == [ok |-> TRUE, output |-> <<>>]
           F(acc, i) == BuilderStep(orders[1].builder # "nil", acc, orders[i])
           Eq(f, m) == f = [i \in 0..m |-> IF i = 0 THEN Start ELSE F(f[i - 1], i)]
           Good(m) == \E f : Eq(f, m)
           Bad == {m \in Nat : ~Good(m)}
<1>0. \A f : BuilderLoop(f, orders, n) <=> Eq(f, n) BY DEF BuilderLoop
<1> HIDE DEF Start, F
<1> SUFFICES Bad = {} BY <1>0
<1> SUFFICES ASSUME Bad # {} PROVE FALSE OBVIOUS
<1>1. \E x \in Bad : \A y \in Bad : ~(<<y, x>> \in OpToRel(<, Nat))
  <2>1. Bad \in SUBSET Nat OBVIOUS
  <2> HIDE DEF Bad
  <2> QED BY <2>1, NatLessThanWellFounded, WFMin
<1>2. PICK x \in Bad : \A y \in Bad : ~(y < x)
  <2>1. \A y \in Bad : y \in Nat OBVIOUS
  <2> HIDE DEF Bad
  <2> QED BY <1>1, <2>1 DEF OpToRel
<1>3. x \in Nat /\ ~Good(x) OBVIOUS
<1>4. x # 0
  <2>1. Good(0)
    <3> DEFINE g == [i \in 0..0 |-> Start]
    <3>1. g = [i \in 0..0 |-> IF i = 0 THEN Start ELSE F(g[i - 1], i)] OBVIOUS
    <3> QED BY <3>1
  <2> QED BY <1>3, <2>1
<1>5. x - 1 \in Nat /\ x - 1 < x BY <1>3, <1>4
<1>6. Good(x - 1) BY <1>2, <1>5
<1>7. PICK f : f = [i \in 0..(x - 1) |-> IF i = 0 THEN Start ELSE F(f[i - 1], i)] BY <1>6
<1> DEFINE g == [i \in 0..x |-> IF i = x THEN F(f[x - 1], x) ELSE f[i]]
<1> HIDE DEF Good, Bad
<1>8. \A i \in 0..x : g[i] = IF i = 0 THEN Start ELSE F(g[i - 1], i)
  <2> TAKE i \in 0..x
  <2>1. CASE i = x
    <3>1. x - 1 \in 0..x /\ x - 1 # x BY <1>3, <1>5
    <3>2. g[x] = F(f[x - 1], x) /\ g[x - 1] = f[x - 1] BY <1>3, <3>1
    <3> HIDE DEF g
    <3> QED BY <1>4, <2>1, <3>2
  <2>2. CASE i # x
    <3>1. i \in 0..(x - 1) BY <1>3, <2>2
    <3>2. f[i] = IF i = 0 THEN Start ELSE F(f[i - 1], i) BY <1>7, <3>1
    <3>3. g[i] = f[i] BY <2>2
    <3>4. CASE i = 0 BY <3>2, <3>3, <3>4
    <3>5. CASE i # 0
      <4>1. i - 1 \in 0..x /\ i - 1 # x BY <1>3, <3>1, <3>5
      <4>2. g[i - 1] = f[i - 1] BY <4>1
      <4> HIDE DEF g
      <4> QED BY <3>2, <3>3, <3>5, <4>2
    <3> QED BY <3>4, <3>5
  <2> QED BY <2>1, <2>2
<1>9. Eq(g, x)
  <2>1. g = [i \in 0..x |-> g[i]] OBVIOUS
  <2> HIDE DEF g
  <2> QED BY <1>8, <2>1
<1>10. Good(x)
  <2> HIDE DEF g
  <2> QED BY <1>9 DEF Good
<1> QED BY <1>3, <1>10

Order == [builder : STRING, fee : Nat, kind : STRING]
\* The order agrees with the builder the loop has collected.
Agreed(output, r) ==
    IF output = <<>> THEN r.builder = "nil"
    ELSE <<r.builder, r.fee>> = output /\ r.fee \in 1..MaxBuilderFee(r.kind)

\* builderForOrders: where it succeeds, every order agrees with what it returns.
LEMMA BuilderOfAll ==
    ASSUME NEW orders \in Seq(Order), builderForOrders(orders).ok
    PROVE  \A i \in DOMAIN orders : Agreed(builderForOrders(orders).output, orders[i])
<1> DEFINE n == Len(orders)
           first == orders[1].builder # "nil"
           f == CHOOSE g : BuilderLoop(g, orders, n)
<1>1. n \in Nat /\ DOMAIN orders = 1..n /\ \A i \in 1..n : orders[i] \in Order OBVIOUS
<1>2. builderForOrders(orders) = f[n] BY DEF builderForOrders, BuilderLoop
<1> HIDE DEF n
<1>3. BuilderLoop(f, orders, n) BY <1>1, BuilderLoopExists
<1> HIDE DEF f
<1>4. \A i \in 0..n : f[i] = IF i = 0 THEN [ok |-> TRUE, output |-> <<>>] ELSE BuilderStep(first, f[i - 1], orders[i])
      BY <1>3, Zenon DEF BuilderLoop
<1>5. f[0] = [ok |-> TRUE, output |-> <<>>] BY <1>1, <1>4
<1>6. \A i \in 1..n : f[i] = BuilderStep(first, f[i - 1], orders[i]) BY <1>1, <1>4
<1> HIDE DEF first
<1> DEFINE I(j) == f[j].ok => (/\ \A i \in 1..j : Agreed(f[j].output, orders[i])
                               /\ j >= 1 => ((f[j].output = <<>>) = ~first))
           Bad == {j \in 0..n : ~I(j)}
<1> SUFFICES Bad = {} BY <1>1, <1>2
<1> SUFFICES ASSUME Bad # {} PROVE FALSE OBVIOUS
<1>7. \E x \in Bad : \A y \in Bad : ~(<<y, x>> \in OpToRel(<, Nat))
  <2>1. Bad \in SUBSET Nat OBVIOUS
  <2> HIDE DEF Bad
  <2> QED BY <2>1, NatLessThanWellFounded, WFMin
<1>8. PICK j \in Bad : \A y \in Bad : ~(y < j)
  <2>1. \A y \in Bad : y \in Nat OBVIOUS
  <2> HIDE DEF Bad
  <2> QED BY <1>7, <2>1 DEF OpToRel
<1>9. j \in 0..n /\ ~I(j) OBVIOUS
<1>10. j # 0
  <2>1. I(0) OBVIOUS
  <2> QED BY <1>9, <2>1
<1>11. j \in 1..n /\ j - 1 \in 0..n /\ j - 1 < j BY <1>1, <1>9, <1>10
<1>12. I(j - 1)
  <2> HIDE DEF I
  <2> QED BY <1>8, <1>11
<1>13. f[j] = BuilderStep(first, f[j - 1], orders[j]) /\ orders[j] \in Order BY <1>1, <1>6, <1>11
<1> DEFINE r == orders[j]
           acc == f[j - 1]
<1>14. ASSUME f[j].ok
       PROVE  /\ \A i \in 1..j : Agreed(f[j].output, orders[i])
              /\ (f[j].output = <<>>) = ~first
  <2>1. CASE r.builder = "nil" /\ ~first
    <3>1. f[j] = acc BY <1>13, <2>1 DEF BuilderStep
    <3>2. acc.output = <<>>
      <4>1. CASE j = 1 BY <1>5, <4>1
      <4>2. CASE j # 1 BY <1>11, <1>12, <1>14, <2>1, <3>1, <4>2
      <4> QED BY <4>1, <4>2
    <3>3. \A i \in 1..(j - 1) : Agreed(f[j].output, orders[i]) BY <1>12, <1>14, <3>1
    <3>4. Agreed(f[j].output, orders[j]) BY <2>1, <3>1, <3>2 DEF Agreed
    <3>5. \A i \in 1..j : i = j \/ i \in 1..(j - 1) BY <1>11
    <3> QED BY <2>1, <3>1, <3>2, <3>3, <3>4, <3>5
  <2>2. CASE ~(r.builder = "nil" /\ ~first)
    <3>1. acc.ok BY <1>13, <1>14, <2>2 DEF BuilderStep
    <3> DEFINE candidate == <<r.builder, r.fee>>
    <3>2. f[j] = [ok |-> /\ (r.builder # "nil") = first
                         /\ r.builder # "zero" /\ r.fee # 0
                         /\ r.fee <= MaxBuilderFee(r.kind)
                         /\ SameBuilder(acc.output, candidate),
                  output |-> candidate]
          BY <1>13, <2>2, <3>1 DEF BuilderStep
    <3>3. /\ (r.builder # "nil") = first /\ r.fee # 0 /\ r.fee <= MaxBuilderFee(r.kind)
          /\ acc.output \in {<<>>, candidate} /\ f[j].output = candidate
          BY <1>14, <3>2 DEF SameBuilder
    <3>4. candidate # <<>> BY <1>13
    <3>5. first BY <2>2, <3>3
    <3>6. Agreed(f[j].output, orders[j])
      <4>1. r.fee \in Nat BY <1>13 DEF Order
      <4>2. MaxBuilderFee(r.kind) \in Nat BY DEF MaxBuilderFee
      <4>3. r.fee \in 1..MaxBuilderFee(r.kind) BY <3>3, <4>1, <4>2
      <4> QED BY <3>3, <3>4, <4>3 DEF Agreed
    <3>7. \A i \in 1..(j - 1) : Agreed(f[j].output, orders[i])
      <4>1. CASE j = 1 BY <4>1
      <4>2. CASE j # 1
        <5>1. acc.output # <<>> BY <1>11, <1>12, <3>1, <3>5, <4>2
        <5>2. acc.output = f[j].output BY <3>3, <5>1
        <5> QED BY <1>12, <3>1, <5>2
      <4> QED BY <4>1, <4>2
    <3>8. \A i \in 1..j : i = j \/ i \in 1..(j - 1) BY <1>11
    <3> QED BY <3>3, <3>4, <3>5, <3>6, <3>7, <3>8
  <2> QED BY <2>1, <2>2
<1> QED BY <1>9, <1>14

\* The stages past the checks that need the resolved assets.
Late == {"nonce", "collect", "sign", "post", "wait"}
\* A batch past them has passed builderForOrders.
Checked ==
    \A c \in Calls : pc[c] \in Late /\ req[c].method = "PlaceOrders" => builderForOrders(req[c].orders).ok

\* Every step keeps what builderForOrders accepted.
LEMMA CheckedStep ==
    ASSUME CallsTyped, Checked, [Next]_vars PROVE Checked'
<1> USE DEF serverVars, callVars
<1>0. config \in Configs /\ DOMAIN req = Calls /\ pc \in [Calls -> Stages] BY DEF CallsTyped
<1>1. ASSUME req' = req, \A c \in Calls : pc'[c] \in Late => pc[c] \in Late PROVE Checked'
  <2> HIDE DEF Late
  <2> QED BY <1>1, Zenon DEF Checked
<1>2. ASSUME NEW c \in Calls, Fail(c) PROVE Checked'
  <2>1. req' = req /\ \A d \in Calls : pc'[d] \in Late => pc[d] \in Late BY <1>0, <1>2 DEF Fail, Late
  <2> QED BY <1>1, <2>1
<1>3. ASSUME NEW c \in Calls, NEW to, Advance(c, to), pc[c] \in Late PROVE Checked'
  <2>1. req' = req /\ \A d \in Calls : pc'[d] \in Late => pc[d] \in Late BY <1>0, <1>3 DEF Advance
  <2> QED BY <1>1, <2>1
<1>4. ASSUME NEW c \in Calls, Begin(c) PROVE Checked'
  <2>1. PICK r \in Menu[config][c] :
            /\ req' = [req EXCEPT ![c] = r]
            /\ pc' = [pc EXCEPT ![c] = "done"] \/ pc' = [pc EXCEPT ![c] = IF Resolves(r) THEN "resolve" ELSE "nonce"]
        BY <1>4 DEF Begin
  <2>2. req'[c] = r /\ \A d \in Calls \ {c} : req'[d] = req[d] /\ pc'[d] = pc[d] BY <1>0, <2>1
  <2>3. r.method = "PlaceOrders" => pc'[c] \notin Late
    <3> SUFFICES ASSUME r.method = "PlaceOrders" PROVE pc'[c] \notin Late OBVIOUS
    <3>1. ~IsMulti(r) BY DEF IsMulti
    <3>2. r.method \in DOMAIN Methods BY <1>0, <3>1, MenuAssumption
    <3>3. Resolves(r) BY <3>1, <3>2, MethodRows DEF Resolves
    <3>4. pc'[c] \in {"done", "resolve"} BY <1>0, <2>1, <3>3
    <3> QED BY <3>4 DEF Late
  <2> HIDE DEF Late
  <2>4. \A d \in Calls \ {c} : pc'[d] \in Late /\ req'[d].method = "PlaceOrders" => builderForOrders(req'[d].orders).ok
        BY <2>2, Zenon DEF Checked
  <2>5. pc'[c] \in Late /\ req'[c].method = "PlaceOrders" => builderForOrders(req'[c].orders).ok BY <2>2, <2>3
  <2> QED BY <2>4, <2>5, Zenon DEF Checked
<1>5. ASSUME NEW c \in Calls, Resolve(c) PROVE Checked'
  <2>1. CASE Fail(c) BY <1>2, <2>1
  <2>2. CASE (req[c].method = "PlaceOrders" => builderForOrders(req[c].orders).ok) /\ Advance(c, "nonce")
    <3>1. req' = req /\ \A d \in Calls \ {c} : pc'[d] = pc[d] BY <1>0, <2>2 DEF Advance
    <3> HIDE DEF Late
    <3>2. \A d \in Calls \ {c} : pc'[d] \in Late /\ req'[d].method = "PlaceOrders" => builderForOrders(req'[d].orders).ok
          BY <3>1, Zenon DEF Checked
    <3> QED BY <2>2, <3>1, <3>2, Zenon DEF Checked
  <2> QED BY <1>5, <2>1, <2>2 DEF Resolve
<1>6. ASSUME NEW c \in Calls, AllocateNonce(c) PROVE Checked'
  <2>1. pc[c] \in Late BY <1>6 DEF AllocateNonce, Late
  <2>2. Fail(c) \/ \E to : Advance(c, to) BY <1>6 DEF AllocateNonce
  <2> QED BY <1>2, <1>3, <2>1, <2>2
<1>7. ASSUME NEW c \in Calls, Collect(c) PROVE Checked'
  <2>1. pc[c] \in Late BY <1>7 DEF Collect, Late
  <2>2. Fail(c) \/ \E to : Advance(c, to) BY <1>7 DEF Collect, SignAndVerify
  <2> QED BY <1>2, <1>3, <2>1, <2>2
<1>8. ASSUME NEW c \in Calls, Sign(c) PROVE Checked'
  <2>1. pc[c] \in Late BY <1>8 DEF Sign, Late
  <2>2. Fail(c) \/ \E to : Advance(c, to) BY <1>8 DEF Sign, SignAndVerify
  <2> QED BY <1>2, <1>3, <2>1, <2>2
<1>9. ASSUME NEW c \in Calls, Post(c) \/ Receive(c) \/ Timeout(c) PROVE Checked'
  <2>1. pc[c] \in Late /\ req' = req BY <1>9 DEF Post, Receive, Timeout, Fail, Late
  <2>2. \A d \in Calls \ {c} : pc'[d] = pc[d] BY <1>0, <1>9 DEF Post, Receive, Timeout, Fail
  <2> QED BY <1>1, <2>1, <2>2
<1>10. ASSUME NEW m \in wire, ServerHandle(m) \/ Lose(m) PROVE Checked'
  <2>1. UNCHANGED <<pc, req>> BY <1>10 DEF ServerHandle, Lose
  <2> QED BY <1>1, <2>1
<1>11. CASE ClockTick \/ UNCHANGED vars
  <2>1. UNCHANGED <<pc, req>> BY <1>11 DEF ClockTick, vars
  <2> QED BY <1>1, <2>1
<1> QED BY <1>4, <1>5, <1>6, <1>7, <1>8, <1>9, <1>10, <1>11 DEF Next, CallStep

\* What PlaceOrders, SubmitPerpDeploy, SendAsset and TransferUSDClass post respects
\* the rules their argument checks enforce: one builder for the whole batch, sorted
\* deploy lists, and a configured vault that the transfer names.
THEOREM PostsAsAsked == Spec => []PostedAsAsked
<1>1. Init => Asked /\ Checked BY DEF Init, Asked, Checked, Late
<1>2. ASSUME Asked, Journal PROVE VaultNotDropped
  <2> SUFFICES ASSUME NEW c \in Calls, pc[c] = "post", req[c].method \in {"SendAsset", "TransferUSDClass"},
                      config.vault # "nil"
               PROVE  /\ OuterVault(req[c]) = "nil" /\ SourceOf(req[c]) = config.vault
                      /\ req[c].from \in {"nil", config.vault}
      BY DEF VaultNotDropped
  <2> DEFINE r == req[c]
  <2>1. ~IsMulti(r) BY DEF IsMulti
  <2>2. r.method \in DOMAIN Methods BY <1>2, <2>1 DEF Asked
  <2>3. Methods[r.method].path = "user" /\ Methods[r.method].action \in OmitOuterVault BY <2>2, MethodRows
  <2>4. ActionOf(r) \in OmitOuterVault BY <2>1, <2>3 DEF ActionOf
  <2>5. PathOf(r) = "user"
    <3>1. r.method # "SubmitMultiSigL1" /\ r.method # "SubmitMultiSigUserAction" OBVIOUS
    <3> QED BY <2>3, <3>1, Zenon DEF PathOf
  <2>6. UserVault(r) = "nil" BY <2>4 DEF UserVault
  <2>7. OuterVault(r) = "nil"
    <3>1. PathOf(r) \notin {"withoutVault", "noop", "ownNonceNoVault"} /\ PathOf(r) \in {"user", "multiUser"} /\ PathOf(r) # "multiL1"
          BY <2>5
    <3> QED BY <2>6, <3>1, Zenon DEF OuterVault
  <2>8. r.from \in {"nil", config.vault}
    <3>1. CASE r.method = "TransferUSDClass" BY <1>2, <3>1 DEF Asked
    <3>2. CASE r.method = "SendAsset"
      <4>1. ~SourceConflict(r) BY <1>2 DEF Journal, Refused
      <4> QED BY <3>2, <4>1 DEF SourceConflict
    <3> QED BY <3>1, <3>2
  <2> QED BY <2>7, <2>8 DEF SourceOf
<1>3. ASSUME Asked, Journal PROVE DeployListsSorted
  <2> SUFFICES ASSUME NEW c \in Calls, pc[c] = "post", req[c].method = "SubmitPerpDeploy",
                      NEW v \in req[c].o \cap ListVariants
               PROVE  \A i, j \in DOMAIN req[c].list :
                          /\ i < j => Before(v, req[c].list[i], req[c].list[j])
                          /\ v # "InsertMarginTable" => req[c].list[i].key # 0
      BY DEF DeployListsSorted
  <2>1. Encodes(req[c]) BY <1>3 DEF Journal, Accepted
  <2>2. ~IsMulti(req[c]) BY DEF IsMulti
  <2>3. ActionOf(req[c]) = "PerpDeployAction" BY <1>3, <2>2, MethodRows DEF Asked, ActionOf
  <2>4. validatePerpDeploy(v, req[c].list) BY <2>1, <2>3 DEF Encodes
  <2>5. req[c].list \in Seq(Pairs) BY <1>3 DEF Asked, Pairs
  <2> QED BY <2>4, <2>5, ListSorted
<1>4. ASSUME Asked, Checked PROVE BuilderAgreed
  <2> SUFFICES ASSUME NEW c \in Calls, pc[c] = "post", req[c].method = "PlaceOrders",
                      NEW i \in DOMAIN req[c].orders
               PROVE  Agreed(builderForOrders(req[c].orders).output, req[c].orders[i])
      BY DEF BuilderAgreed, Agreed
  <2>1. builderForOrders(req[c].orders).ok BY <1>4 DEF Checked, Late
  <2>2. req[c].orders \in Seq(Order) BY <1>4 DEF Asked, Order
  <2> QED BY <2>1, <2>2, BuilderOfAll
<1>5. Asked /\ Journal /\ Checked => PostedAsAsked BY <1>2, <1>3, <1>4 DEF PostedAsAsked
<1> QED BY <1>1, <1>5, CallsTypedHolds, JournalHolds, AskedStep, CheckedStep, PTL DEF Spec

---------------------------------------------------------------------------
(* Maps of distinct keys, written with a length that counts them.           *)

\* A struct encoded with a length that counts its entries, under distinct keys.
LEMMA Faithful ==
    ASSUME NEW n, NEW s, NEW js, Len(s) = n, DOMAIN s = 1..n,
           \A i, j \in 1..n : s[i][1] = s[j][1] => i = j, {s[i] : i \in 1..n} = js
    PROVE  Agrees(Codec(Map(n, s), js)) /\ Agrees(Tagged(s))
<1>1. ToSet(s) = js BY DEF ToSet
<1>2. Codec(Map(n, s), js) = Tagged(s) BY <1>1 DEF Tagged
<1>3. Tagged(s).bytes.len = n /\ Tagged(s).bytes.entries = s /\ Tagged(s).json = js
      BY <1>1 DEF Tagged, Codec, Map
<1> QED BY <1>1, <1>2, <1>3 DEF Agrees

\* One lemma for each length of map or struct in the tables.
LEMMA Agree1 ==
    ASSUME NEW k1, NEW v1
    PROVE  /\ Agrees(Codec(Map(1, <<<<k1, v1>>>>),
                           {<<k1, v1>>}))
           /\ Agrees(Tagged(<<<<k1, v1>>>>))
<1> DEFINE s == <<<<k1, v1>>>>
           js == {<<k1, v1>>}
<1>1. Len(s) = 1 /\ DOMAIN s = 1..1 OBVIOUS
<1>2. \A i, j \in 1..1 : s[i][1] = s[j][1] => i = j OBVIOUS
<1>3. {s[i] : i \in 1..1} = js OBVIOUS
<1>4. Agrees(Codec(Map(1, s), js)) /\ Agrees(Tagged(s))
  <2> HIDE DEF s, js
  <2> QED BY <1>1, <1>2, <1>3, Faithful
<1> QED BY <1>4

LEMMA Agree2 ==
    ASSUME NEW k1, NEW v1, NEW k2, NEW v2, k1 # k2
    PROVE  /\ Agrees(Codec(Map(2, <<<<k1, v1>>, <<k2, v2>>>>),
                           {<<k1, v1>>, <<k2, v2>>}))
           /\ Agrees(Tagged(<<<<k1, v1>>, <<k2, v2>>>>))
<1> DEFINE s == <<<<k1, v1>>, <<k2, v2>>>>
           js == {<<k1, v1>>, <<k2, v2>>}
<1>1. Len(s) = 2 /\ DOMAIN s = 1..2 OBVIOUS
<1>2. \A i, j \in 1..2 : s[i][1] = s[j][1] => i = j OBVIOUS
<1>3. {s[i] : i \in 1..2} = js OBVIOUS
<1>4. Agrees(Codec(Map(2, s), js)) /\ Agrees(Tagged(s))
  <2> HIDE DEF s, js
  <2> QED BY <1>1, <1>2, <1>3, Faithful
<1> QED BY <1>4

LEMMA Agree3 ==
    ASSUME NEW k1, NEW v1, NEW k2, NEW v2, NEW k3, NEW v3, k1 # k2, k1 # k3, k2 # k3
    PROVE  /\ Agrees(Codec(Map(3, <<<<k1, v1>>, <<k2, v2>>, <<k3, v3>>>>),
                           {<<k1, v1>>, <<k2, v2>>, <<k3, v3>>}))
           /\ Agrees(Tagged(<<<<k1, v1>>, <<k2, v2>>, <<k3, v3>>>>))
<1> DEFINE s == <<<<k1, v1>>, <<k2, v2>>, <<k3, v3>>>>
           js == {<<k1, v1>>, <<k2, v2>>, <<k3, v3>>}
<1>1. Len(s) = 3 /\ DOMAIN s = 1..3 OBVIOUS
<1>2. \A i, j \in 1..3 : s[i][1] = s[j][1] => i = j OBVIOUS
<1>3. {s[i] : i \in 1..3} = js OBVIOUS
<1>4. Agrees(Codec(Map(3, s), js)) /\ Agrees(Tagged(s))
  <2> HIDE DEF s, js
  <2> QED BY <1>1, <1>2, <1>3, Faithful
<1> QED BY <1>4

LEMMA Agree4 ==
    ASSUME NEW k1, NEW v1, NEW k2, NEW v2, NEW k3, NEW v3, NEW k4, NEW v4, k1 # k2, k1 # k3,
           k1 # k4, k2 # k3, k2 # k4, k3 # k4
    PROVE  /\ Agrees(Codec(Map(4, <<<<k1, v1>>, <<k2, v2>>, <<k3, v3>>, <<k4, v4>>>>),
                           {<<k1, v1>>, <<k2, v2>>, <<k3, v3>>, <<k4, v4>>}))
           /\ Agrees(Tagged(<<<<k1, v1>>, <<k2, v2>>, <<k3, v3>>, <<k4, v4>>>>))
<1> DEFINE s == <<<<k1, v1>>, <<k2, v2>>, <<k3, v3>>, <<k4, v4>>>>
           js == {<<k1, v1>>, <<k2, v2>>, <<k3, v3>>, <<k4, v4>>}
<1>1. Len(s) = 4 /\ DOMAIN s = 1..4 OBVIOUS
<1>2. \A i, j \in 1..4 : s[i][1] = s[j][1] => i = j OBVIOUS
<1>3. {s[i] : i \in 1..4} = js OBVIOUS
<1>4. Agrees(Codec(Map(4, s), js)) /\ Agrees(Tagged(s))
  <2> HIDE DEF s, js
  <2> QED BY <1>1, <1>2, <1>3, Faithful
<1> QED BY <1>4

LEMMA Agree5 ==
    ASSUME NEW k1, NEW v1, NEW k2, NEW v2, NEW k3, NEW v3, NEW k4, NEW v4, NEW k5, NEW v5, k1 # k2,
           k1 # k3, k1 # k4, k1 # k5, k2 # k3, k2 # k4, k2 # k5, k3 # k4, k3 # k5, k4 # k5
    PROVE  /\ Agrees(Codec(Map(5, <<<<k1, v1>>, <<k2, v2>>, <<k3, v3>>, <<k4, v4>>, <<k5, v5>>>>),
                           {<<k1, v1>>, <<k2, v2>>, <<k3, v3>>, <<k4, v4>>, <<k5, v5>>}))
           /\ Agrees(Tagged(<<<<k1, v1>>, <<k2, v2>>, <<k3, v3>>, <<k4, v4>>, <<k5, v5>>>>))
<1> DEFINE s == <<<<k1, v1>>, <<k2, v2>>, <<k3, v3>>, <<k4, v4>>, <<k5, v5>>>>
           js == {<<k1, v1>>, <<k2, v2>>, <<k3, v3>>, <<k4, v4>>, <<k5, v5>>}
<1>1. Len(s) = 5 /\ DOMAIN s = 1..5 OBVIOUS
<1>2. \A i, j \in 1..5 : s[i][1] = s[j][1] => i = j OBVIOUS
<1>3. {s[i] : i \in 1..5} = js OBVIOUS
<1>4. Agrees(Codec(Map(5, s), js)) /\ Agrees(Tagged(s))
  <2> HIDE DEF s, js
  <2> QED BY <1>1, <1>2, <1>3, Faithful
<1> QED BY <1>4

LEMMA Agree6 ==
    ASSUME NEW k1, NEW v1, NEW k2, NEW v2, NEW k3, NEW v3, NEW k4, NEW v4, NEW k5, NEW v5,
           NEW k6, NEW v6, k1 # k2, k1 # k3, k1 # k4, k1 # k5, k1 # k6, k2 # k3, k2 # k4, k2 # k5,
           k2 # k6, k3 # k4, k3 # k5, k3 # k6, k4 # k5, k4 # k6, k5 # k6
    PROVE  /\ Agrees(Codec(Map(6, <<<<k1, v1>>, <<k2, v2>>, <<k3, v3>>, <<k4, v4>>, <<k5, v5>>,
                                  <<k6, v6>>>>),
                           {<<k1, v1>>, <<k2, v2>>, <<k3, v3>>, <<k4, v4>>, <<k5, v5>>, <<k6, v6>>}))
           /\ Agrees(Tagged(<<<<k1, v1>>, <<k2, v2>>, <<k3, v3>>, <<k4, v4>>, <<k5, v5>>, <<k6, v6>>>>))
<1> DEFINE s == <<<<k1, v1>>, <<k2, v2>>, <<k3, v3>>, <<k4, v4>>, <<k5, v5>>, <<k6, v6>>>>
           js == {<<k1, v1>>, <<k2, v2>>, <<k3, v3>>, <<k4, v4>>, <<k5, v5>>, <<k6, v6>>}
<1>1. Len(s) = 6 /\ DOMAIN s = 1..6 OBVIOUS
<1>2. \A i, j \in 1..6 : s[i][1] = s[j][1] => i = j OBVIOUS
<1>3. {s[i] : i \in 1..6} = js OBVIOUS
<1>4. Agrees(Codec(Map(6, s), js)) /\ Agrees(Tagged(s))
  <2> HIDE DEF s, js
  <2> QED BY <1>1, <1>2, <1>3, Faithful
<1> QED BY <1>4

LEMMA Agree7 ==
    ASSUME NEW k1, NEW v1, NEW k2, NEW v2, NEW k3, NEW v3, NEW k4, NEW v4, NEW k5, NEW v5,
           NEW k6, NEW v6, NEW k7, NEW v7, k1 # k2, k1 # k3, k1 # k4, k1 # k5, k1 # k6, k1 # k7,
           k2 # k3, k2 # k4, k2 # k5, k2 # k6, k2 # k7, k3 # k4, k3 # k5, k3 # k6, k3 # k7, k4 # k5,
           k4 # k6, k4 # k7, k5 # k6, k5 # k7, k6 # k7
    PROVE  /\ Agrees(Codec(Map(7, <<<<k1, v1>>, <<k2, v2>>, <<k3, v3>>, <<k4, v4>>, <<k5, v5>>,
                                  <<k6, v6>>, <<k7, v7>>>>),
                           {<<k1, v1>>, <<k2, v2>>, <<k3, v3>>, <<k4, v4>>, <<k5, v5>>, <<k6, v6>>,
                            <<k7, v7>>}))
           /\ Agrees(Tagged(<<<<k1, v1>>, <<k2, v2>>, <<k3, v3>>, <<k4, v4>>, <<k5, v5>>, <<k6, v6>>,
                             <<k7, v7>>>>))
<1> DEFINE s == <<<<k1, v1>>, <<k2, v2>>, <<k3, v3>>, <<k4, v4>>, <<k5, v5>>, <<k6, v6>>, <<k7, v7>>>>
           js == {<<k1, v1>>, <<k2, v2>>, <<k3, v3>>, <<k4, v4>>, <<k5, v5>>, <<k6, v6>>, <<k7, v7>>}
<1>1. Len(s) = 7 /\ DOMAIN s = 1..7 OBVIOUS
<1>2. \A i, j \in 1..7 : s[i][1] = s[j][1] => i = j OBVIOUS
<1>3. {s[i] : i \in 1..7} = js OBVIOUS
<1>4. Agrees(Codec(Map(7, s), js)) /\ Agrees(Tagged(s))
  <2> HIDE DEF s, js
  <2> QED BY <1>1, <1>2, <1>3, Faithful
<1> QED BY <1>4

LEMMA Agree8 ==
    ASSUME NEW k1, NEW v1, NEW k2, NEW v2, NEW k3, NEW v3, NEW k4, NEW v4, NEW k5, NEW v5,
           NEW k6, NEW v6, NEW k7, NEW v7, NEW k8, NEW v8, k1 # k2, k1 # k3, k1 # k4, k1 # k5,
           k1 # k6, k1 # k7, k1 # k8, k2 # k3, k2 # k4, k2 # k5, k2 # k6, k2 # k7, k2 # k8, k3 # k4,
           k3 # k5, k3 # k6, k3 # k7, k3 # k8, k4 # k5, k4 # k6, k4 # k7, k4 # k8, k5 # k6, k5 # k7,
           k5 # k8, k6 # k7, k6 # k8, k7 # k8
    PROVE  /\ Agrees(Codec(Map(8, <<<<k1, v1>>, <<k2, v2>>, <<k3, v3>>, <<k4, v4>>, <<k5, v5>>,
                                  <<k6, v6>>, <<k7, v7>>, <<k8, v8>>>>),
                           {<<k1, v1>>, <<k2, v2>>, <<k3, v3>>, <<k4, v4>>, <<k5, v5>>, <<k6, v6>>,
                            <<k7, v7>>, <<k8, v8>>}))
           /\ Agrees(Tagged(<<<<k1, v1>>, <<k2, v2>>, <<k3, v3>>, <<k4, v4>>, <<k5, v5>>, <<k6, v6>>,
                             <<k7, v7>>, <<k8, v8>>>>))
<1> DEFINE s == <<<<k1, v1>>, <<k2, v2>>, <<k3, v3>>, <<k4, v4>>, <<k5, v5>>, <<k6, v6>>,
                  <<k7, v7>>, <<k8, v8>>>>
           js == {<<k1, v1>>, <<k2, v2>>, <<k3, v3>>, <<k4, v4>>, <<k5, v5>>, <<k6, v6>>,
                  <<k7, v7>>, <<k8, v8>>}
<1>1. Len(s) = 8 /\ DOMAIN s = 1..8 OBVIOUS
<1>2. \A i, j \in 1..8 : s[i][1] = s[j][1] => i = j OBVIOUS
<1>3. {s[i] : i \in 1..8} = js OBVIOUS
<1>4. Agrees(Codec(Map(8, s), js)) /\ Agrees(Tagged(s))
  <2> HIDE DEF s, js
  <2> QED BY <1>1, <1>2, <1>3, Faithful
<1> QED BY <1>4

\* An array, or a lone value, is read by position.
LEMMA Listed ==
    ASSUME NEW v1, NEW v2
    PROVE  /\ Agrees(Codec(Lone(v1), ArrayJSON(<<v1>>)))
           /\ Agrees(Codec(Array(2, <<v1, v2>>), ArrayJSON(<<v1, v2>>)))
<1>1. ASSUME NEW n \in 1..2, NEW vs, Len(vs) = n, DOMAIN vs = 1..n
      PROVE  Agrees(Codec(Array(n, vs), ArrayJSON(vs)))
  <2> DEFINE s == [i \in DOMAIN vs |-> <<Position[i], vs[i]>>]
  <2>1. DOMAIN s = 1..n /\ Len(s) = n BY <1>1
  <2>2. Position[1] = "0" /\ Position[2] = "1" BY DEF Position
  <2>3. \A i, j \in 1..n : s[i][1] = s[j][1] => i = j BY <1>1, <2>2
  <2>4. {s[i] : i \in 1..n} = ArrayJSON(vs) BY <1>1 DEF ArrayJSON
  <2>5. Array(n, vs) = Map(n, s) BY DEF Array
  <2> HIDE DEF s
  <2> QED BY <2>1, <2>3, <2>4, <2>5, Faithful
<1>2. Len(<<v1>>) = 1 /\ DOMAIN <<v1>> = 1..1 /\ Len(<<v1, v2>>) = 2 /\ DOMAIN <<v1, v2>> = 1..2 OBVIOUS
<1> QED BY <1>1, <1>2 DEF Lone

\* The entry of an optional field, when it is set, comes last under a key of its own.
LEMMA OptionalLast ==
    ASSUME NEW n \in Nat, NEW s, s \in Seq({s[i] : i \in 1..n}), Len(s) = n,
           \A i, j \in 1..n : s[i][1] = s[j][1] => i = j, NEW js, {s[i] : i \in 1..n} = js,
           NEW o, NEW f, NEW k, \A i \in 1..n : s[i][1] # k
    PROVE  /\ Agrees(Codec(Map(n + Count(o, f), s \o IfSet(o, f, k)), js \cup IfSetJSON(o, f, k)))
           /\ Agrees(Tagged(s \o IfSet(o, f, k)))
<1>1. CASE f \notin o
  <2>1. s \o IfSet(o, f, k) = s /\ js \cup IfSetJSON(o, f, k) = js /\ n + Count(o, f) = n
        BY <1>1 DEF IfSet, IfSetJSON, Count
  <2>2. DOMAIN s = 1..n OBVIOUS
  <2> QED BY <2>1, <2>2, Faithful
<1>2. CASE f \in o
  <2> DEFINE t == s \o <<<<k, f>>>>
  <2>1. s \o IfSet(o, f, k) = t /\ js \cup IfSetJSON(o, f, k) = js \cup {<<k, f>>} /\ n + Count(o, f) = n + 1
        BY <1>2 DEF IfSet, IfSetJSON, Count
  <2>2. Len(t) = n + 1 /\ DOMAIN t = 1..(n + 1) OBVIOUS
  <2>3. t[n + 1] = <<k, f>> /\ \A i \in 1..n : t[i] = s[i] OBVIOUS
  <2> HIDE DEF t
  <2>4. \A i \in 1..(n + 1) : i \in 1..n \/ i = n + 1 OBVIOUS
  <2>5. \A i, j \in 1..(n + 1) : t[i][1] = t[j][1] => i = j
    <3>1. t[n + 1][1] = k BY <2>3
    <3> QED BY <2>3, <2>4, <3>1
  <2>6. {t[i] : i \in 1..(n + 1)} = js \cup {<<k, f>>}
    <3>1. \A i \in 1..n : t[i] \in js BY <2>3
    <3>2. \A e \in js : \E i \in 1..n : t[i] = e
      <4>1. \A e \in js : \E i \in 1..n : s[i] = e OBVIOUS
      <4> QED BY <2>3, <4>1
    <3>3. \A i \in 1..(n + 1) : t[i] \in js \cup {<<k, f>>} BY <2>3, <2>4, <3>1
    <3>4. 1..n \subseteq 1..(n + 1) /\ n + 1 \in 1..(n + 1) OBVIOUS
    <3> QED BY <2>3, <3>2, <3>3, <3>4
  <2>7. Agrees(Codec(Map(n + 1, t), js \cup {<<k, f>>})) /\ Agrees(Tagged(t)) BY <2>2, <2>5, <2>6, Faithful
  <2> QED BY <2>1, <2>7
<1> QED BY <1>1, <1>2


---------------------------------------------------------------------------
(* The tables of signing/, one after the other.                            *)

\* Every codec of a table agrees.
Whole(table) == \A t \in DOMAIN table : Agrees(table[t])

\* The tables of types that always write the same fields.
LEMMA ConstantTables ==
    /\ Whole(TWAPCodecs) /\ Whole(TransferCodecs) /\ Whole(MarginCodecs) /\ Whole(WeightCodecs)
    /\ Whole(AgentCodecs) /\ Whole(AQACodecs) /\ Whole(LiquidatorCodecs) /\ Whole(ValidatorCodecs)
    /\ Whole(EVMGossipCodecs) /\ Whole(CValidatorProfileCodecs) /\ Whole(FinalizeEVMInputCodecs)
    /\ Whole(NameCodecs) /\ Whole(LegacyCodecs) /\ Whole(PairCodecs)
    /\ Whole(OracleCodecs) /\ Whole(DeployerCodecs) /\ Whole(FreezeCodecs)
<1> USE DEF Whole
<1>1. Whole(TWAPCodecs) BY Agree2, Agree3, Agree6 DEF TWAPCodecs
<1>2. Whole(TransferCodecs) BY Agree4, Agree5 DEF TransferCodecs
<1>3. Whole(MarginCodecs) BY Agree3, Agree4 DEF MarginCodecs
<1>4. Whole(WeightCodecs) BY Agree1, Agree2 DEF WeightCodecs
<1>5. Whole(AgentCodecs) BY Agree1, Agree2, Agree8 DEF AgentCodecs
<1>6. Whole(AQACodecs) /\ Whole(LiquidatorCodecs) BY Agree3, Agree4 DEF AQACodecs, LiquidatorCodecs
<1>7. Whole(ValidatorCodecs) /\ Whole(EVMGossipCodecs) BY Agree1, Agree2, Agree4 DEF ValidatorCodecs, EVMGossipCodecs
<1>8. Whole(CValidatorProfileCodecs) BY Agree6 DEF CValidatorProfileCodecs
<1>9. Whole(FinalizeEVMInputCodecs) BY Agree1 DEF FinalizeEVMInputCodecs
<1>10. Whole(NameCodecs) /\ Whole(LegacyCodecs) BY Agree2, Agree3 DEF NameCodecs, LegacyCodecs
<1>11. Whole(PairCodecs)
  <2>1. Agrees(Codec(Array(2, <<"Key", "Value">>), ArrayJSON(<<"Key", "Value">>))) BY Listed
  <2> QED BY <2>1 DEF PairCodecs
<1>12. Agrees(Codec(Lone("Values"), ArrayJSON(<<"Values">>))) BY Listed
<1>13. Whole(OracleCodecs)
  <2>1. Agrees(OracleCodecs.SetOracle) BY Agree4 DEF OracleCodecs
  <2>2. Agrees(OracleCodecs.HaltTrading) BY Agree2 DEF OracleCodecs
  <2>3. Agrees(OracleCodecs.RawMarginTier) BY Agree2 DEF OracleCodecs
  <2>4. Agrees(OracleCodecs.RawMarginTable) BY Agree2 DEF OracleCodecs
  <2>5. Agrees(OracleCodecs.InsertMarginTable) BY Agree2 DEF OracleCodecs
  <2> QED BY <1>12, <2>1, <2>2, <2>3, <2>4, <2>5 DEF OracleCodecs
<1>14. Whole(DeployerCodecs)
  <2>1. Agrees(DeployerCodecs.SetSubDeployers) BY Agree2 DEF DeployerCodecs
  <2> QED BY <1>12, <2>1, Agree2, Agree3 DEF DeployerCodecs
<1>15. Whole(FreezeCodecs)
  <2>1. Agrees(Tagged(<<<<"token", "Token">>>>)) BY Agree1
  <2> QED BY <2>1, Agree3 DEF FreezeCodecs
<1> QED BY <1>1, <1>2, <1>3, <1>4, <1>5, <1>6, <1>7, <1>8, <1>9, <1>10, <1>11, <1>13, <1>14, <1>15

\* The tables of types with optional, nullable or alternative fields.
LEMMA ShapedTables ==
    ASSUME NEW o
    PROVE  /\ Whole(CancelCodecs(o)) /\ Whole(ModifyCodecs(o)) /\ Whole(CValidatorVariantCodecs(o))
           /\ Whole(VaultCodecs(o)) /\ Whole(SchemaCodecs(o)) /\ Whole(RegisterAssetCodecs(o))
           /\ Whole(ModeCodecs(o)) /\ Whole(GenesisCodecs(o)) /\ Whole(SpotCodecs(o))
           /\ Whole(Paired(CancelOrderMsgpack(o), OrderJSON(o)))
           /\ Whole(Paired(OrderWireMsgpack(o), OrderJSON(o)))
<1> USE DEF Whole
<1>1. Whole(CancelCodecs(o))
  <2> DEFINE s == <<<<"type", "scheduleCancel">>>>
  <2>1. /\ s \in Seq({s[i] : i \in 1..1}) /\ Len(s) = 1 /\ {s[i] : i \in 1..1} = {<<"type", "scheduleCancel">>}
        /\ \A i, j \in 1..1 : s[i][1] = s[j][1] => i = j
        /\ \A i \in 1..1 : s[i][1] # "time"
        OBVIOUS
  <2>2. Agrees(Codec(Map(1 + Count(o, "Time"), s \o IfSet(o, "Time", "time")),
                     {<<"type", "scheduleCancel">>} \cup IfSetJSON(o, "Time", "time")))
    <3> HIDE DEF s
    <3> QED BY <2>1, OptionalLast
  <2>3. Agrees(CancelCodecs(o).ScheduleCancelAction) BY <2>2 DEF CancelCodecs
  <2>4. Agrees(CancelCodecs(o).CancelByCloidAction) BY Agree2 DEF CancelCodecs
  <2>5. Agrees(CancelCodecs(o).CancelByCloidWire) BY Agree2 DEF CancelCodecs
  <2> QED BY <2>3, <2>4, <2>5 DEF CancelCodecs
<1>2. Whole(ModifyCodecs(o)) BY Agree2 DEF ModifyCodecs, ModifyWireJSON
<1>3. Whole(CValidatorVariantCodecs(o))
  <2>1. Agrees(CValidatorVariantCodecs(o).CValidatorRegister) BY Agree3 DEF CValidatorVariantCodecs
  <2>2. Agrees(CValidatorVariantCodecs(o).CValidatorChangeProfile) BY Agree7 DEF CValidatorVariantCodecs
  <2> QED BY <2>1, <2>2 DEF CValidatorVariantCodecs
<1>4. Whole(VaultCodecs(o)) BY Agree5, Agree4, Agree3 DEF VaultCodecs
<1>5. Whole(SchemaCodecs(o)) BY Agree3 DEF SchemaCodecs
<1>6. Whole(RegisterAssetCodecs(o))
  <2>1. Agrees(RegisterAssetCodecs(o).RegisterAssetRequest) BY Agree5 DEF RegisterAssetCodecs
  <2>2. Agrees(RegisterAssetCodecs(o).RegisterAssetRequest2) BY Agree5 DEF RegisterAssetCodecs
  <2>3. Agrees(RegisterAssetCodecs(o).RegisterAsset) BY Agree4 DEF RegisterAssetCodecs
  <2>4. Agrees(RegisterAssetCodecs(o).RegisterAsset2) BY Agree4 DEF RegisterAssetCodecs
  <2> QED BY <2>1, <2>2, <2>3, <2>4 DEF RegisterAssetCodecs
<1>7. Whole(ModeCodecs(o))
  <2>1. /\ Agrees(Codec(Array(2, <<"Coin", "Mode">>), ArrayJSON(<<"Coin", "Mode">>)))
        /\ Agrees(Codec(Lone("Values"), ArrayJSON(<<"Values">>))) /\ Agrees(Codec(Lone("DEX"), ArrayJSON(<<"DEX">>)))
        BY Listed
  <2>2. Agrees(ModeCodecs(o).SetFeeScale) BY Agree2 DEF ModeCodecs
  <2>3. Agrees(ModeCodecs(o).SetPerpAnnotation) BY Agree5 DEF ModeCodecs
  <2> QED BY <2>1, <2>2, <2>3 DEF ModeCodecs
<1>8. Whole(GenesisCodecs(o))
  <2>1. Agrees(GenesisCodecs(o).RegisterToken2)
    <3> DEFINE s == <<<<"spec", "Spec">>, <<"maxGas", "MaxGas">>>>
    <3>1. /\ s \in Seq({s[i] : i \in 1..2}) /\ Len(s) = 2
          /\ \A i, j \in 1..2 : s[i][1] = s[j][1] => i = j
          /\ \A i \in 1..2 : s[i][1] # "fullName"
          OBVIOUS
    <3>2. Agrees(Tagged(s \o IfSet(o, "FullName", "fullName")))
      <4> HIDE DEF s
      <4> QED BY <3>1, OptionalLast
    <3> QED BY <3>2 DEF GenesisCodecs
  <2>2. Agrees(GenesisCodecs(o).UserGenesis)
    <3> DEFINE s == <<<<"token", "Token">>, <<"userAndWei", "UserAndWei">>, <<"existingTokenAndWei", "ExistingTokenAndWei">>>>
    <3>1. /\ s \in Seq({s[i] : i \in 1..3}) /\ Len(s) = 3
          /\ \A i, j \in 1..3 : s[i][1] = s[j][1] => i = j
          /\ \A i \in 1..3 : s[i][1] # "blacklistUsers"
          OBVIOUS
    <3>2. Agrees(Tagged(s \o IfSet(o, "BlacklistUsers", "blacklistUsers")))
      <4> HIDE DEF s
      <4> QED BY <3>1, OptionalLast
    <3> QED BY <3>2 DEF GenesisCodecs
  <2>3. Agrees(GenesisCodecs(o).Genesis)
    <3> DEFINE s == <<<<"token", "Token">>, <<"maxSupply", "MaxSupply">>>>
    <3>1. /\ s \in Seq({s[i] : i \in 1..2}) /\ Len(s) = 2
          /\ \A i, j \in 1..2 : s[i][1] = s[j][1] => i = j
          /\ \A i \in 1..2 : s[i][1] # "noHyperliquidity"
          OBVIOUS
    <3>2. Agrees(Tagged(s \o IfSet(o, "NoHyperliquidity", "noHyperliquidity")))
      <4> HIDE DEF s
      <4> QED BY <3>1, OptionalLast
    <3> QED BY <3>2 DEF GenesisCodecs
  <2>4. /\ Agrees(Codec(Array(2, <<"lower(User)", "Wei">>), ArrayJSON(<<"lower(User)", "Wei">>)))
        /\ Agrees(Codec(Array(2, <<"Token", "Wei">>), ArrayJSON(<<"Token", "Wei">>)))
        /\ Agrees(Codec(Array(2, <<"lower(User)", "Blacklisted">>), ArrayJSON(<<"lower(User)", "Blacklisted">>)))
        BY Listed
  <2>5. Agrees(GenesisCodecs(o).TokenSpec) BY Agree3 DEF GenesisCodecs
  <2> QED BY <2>1, <2>2, <2>3, <2>4, <2>5 DEF GenesisCodecs
<1>9. Whole(SpotCodecs(o))
  <2>1. Agrees(SpotCodecs(o).RegisterHyperliquidity)
    <3> DEFINE s == <<<<"spot", "Spot">>, <<"startPx", "StartPx">>, <<"orderSz", "OrderSz">>, <<"nOrders", "NOrders">>>>
    <3>1. /\ s \in Seq({s[i] : i \in 1..4}) /\ Len(s) = 4
          /\ \A i, j \in 1..4 : s[i][1] = s[j][1] => i = j
          /\ \A i \in 1..4 : s[i][1] # "nSeededLevels"
          OBVIOUS
    <3>2. Agrees(Tagged(s \o IfSet(o, "NSeededLevels", "nSeededLevels")))
      <4> HIDE DEF s
      <4> QED BY <3>1, OptionalLast
    <3> QED BY <3>2 DEF SpotCodecs
  <2>2. Agrees(SpotCodecs(o).RegisterSpot) BY Agree1 DEF SpotCodecs
  <2>3. Agrees(SpotCodecs(o).SetDeployerTradingFeeShare) BY Agree2 DEF SpotCodecs
  <2>4. Agrees(Tagged(<<<<"token", "Token">>>>)) BY Agree1
  <2>5. Agrees(SpotCodecs(o).RequestEVMContract) BY Agree3 DEF SpotCodecs
  <2> QED BY <2>1, <2>2, <2>3, <2>4, <2>5 DEF SpotCodecs
<1>10. Whole(Paired(CancelOrderMsgpack(o), OrderJSON(o)))
  <2> DEFINE s == <<<<"type", "order">>, <<"orders", "Orders">>, <<"grouping", "Grouping">>>>
             js == {<<"type", "order">>, <<"orders", "Orders">>, <<"grouping", "Grouping">>}
  <2>1. /\ s \in Seq({s[i] : i \in 1..3}) /\ Len(s) = 3 /\ {s[i] : i \in 1..3} = js
        /\ \A i, j \in 1..3 : s[i][1] = s[j][1] => i = j
        /\ \A i \in 1..3 : s[i][1] # "builder"
        OBVIOUS
  <2>2. Agrees(Codec(Map(3 + Count(o, "Builder"), s \o IfSet(o, "Builder", "builder")),
                     js \cup IfSetJSON(o, "Builder", "builder")))
    <3> HIDE DEF s, js
    <3> QED BY <2>1, OptionalLast
  <2> DEFINE table == Paired(CancelOrderMsgpack(o), OrderJSON(o))
  <2>3. Agrees(table.OrderAction) BY <2>2 DEF Paired, CancelOrderMsgpack, OrderJSON
  <2>4. Agrees(table.CancelAction) BY Agree2 DEF Paired, CancelOrderMsgpack, OrderJSON
  <2>5. Agrees(table.CancelWire) BY Agree2 DEF Paired, CancelOrderMsgpack, OrderJSON
  <2>6. Agrees(table.BuilderWire) BY Agree2 DEF Paired, CancelOrderMsgpack, OrderJSON
  <2>7. DOMAIN table = {"CancelAction", "CancelWire", "OrderAction", "BuilderWire"} BY DEF Paired, CancelOrderMsgpack
  <2> HIDE DEF table
  <2>8. Whole(table) BY <2>3, <2>4, <2>5, <2>6, <2>7
  <2> QED BY <2>8 DEF table
<1>11. Whole(Paired(OrderWireMsgpack(o), OrderJSON(o)))
  <2> DEFINE s == <<<<"a", "Asset">>, <<"b", "IsBuy">>, <<"p", "Price">>, <<"s", "Size">>,
                    <<"r", "ReduceOnly">>, <<"t", "Type">>>>
             js == {<<"a", "Asset">>, <<"b", "IsBuy">>, <<"p", "Price">>, <<"s", "Size">>,
                    <<"r", "ReduceOnly">>, <<"t", "Type">>}
  <2>1. /\ s \in Seq({s[i] : i \in 1..6}) /\ Len(s) = 6 /\ {s[i] : i \in 1..6} = js
        /\ \A i, j \in 1..6 : s[i][1] = s[j][1] => i = j
        /\ \A i \in 1..6 : s[i][1] # "c"
        OBVIOUS
  <2>2. Agrees(Codec(Map(6 + Count(o, "Cloid"), s \o IfSet(o, "Cloid", "c")), js \cup IfSetJSON(o, "Cloid", "c")))
    <3> HIDE DEF s, js
    <3> QED BY <2>1, OptionalLast
  <2> DEFINE table == Paired(OrderWireMsgpack(o), OrderJSON(o))
  <2>3. Agrees(table.OrderWire) BY <2>2 DEF Paired, OrderWireMsgpack, OrderWireLen, OrderJSON
  <2>4. Agrees(table.LimitOrderType) BY Agree1 DEF Paired, OrderWireMsgpack, OrderJSON
  <2>5. Agrees(table.LimitBody) BY Agree1 DEF Paired, OrderWireMsgpack, OrderJSON
  <2>6. Agrees(table.TriggerOrderType) BY Agree1 DEF Paired, OrderWireMsgpack, OrderJSON
  <2>7. Agrees(table.TriggerBody) BY Agree3 DEF Paired, OrderWireMsgpack, OrderJSON
  <2>8. DOMAIN table = {"OrderWire", "LimitOrderType", "LimitBody", "TriggerOrderType", "TriggerBody"}
        BY DEF Paired, OrderWireMsgpack
  <2> HIDE DEF table
  <2>9. Whole(table) BY <2>3, <2>4, <2>5, <2>6, <2>7, <2>8
  <2> QED BY <2>9 DEF table
<1> QED BY <1>1, <1>2, <1>3, <1>4, <1>5, <1>6, <1>7, <1>8, <1>9, <1>10, <1>11

---------------------------------------------------------------------------
(* Every type has a codec.                                                 *)

\* The types each table holds.
LEMMA TableNames ==
    ASSUME NEW o
    PROVE  /\ DOMAIN Paired(CancelOrderMsgpack(o), OrderJSON(o)) = {"CancelAction", "CancelWire",
                                                                    "OrderAction", "BuilderWire"}
           /\ DOMAIN Paired(OrderWireMsgpack(o), OrderJSON(o)) = {"OrderWire", "LimitOrderType",
                                                                  "LimitBody", "TriggerOrderType",
                                                                  "TriggerBody"}
           /\ DOMAIN CancelCodecs(o) = {"CancelByCloidAction", "CancelByCloidWire",
                                        "ScheduleCancelAction"}
           /\ DOMAIN TWAPCodecs = {"TWAPOrderAction", "TWAPWire", "TWAPCancelAction"}
           /\ DOMAIN TransferCodecs = {"SubaccountTransferAction", "SubaccountSpotTransferAction",
                                       "VaultTransferAction"}
           /\ DOMAIN ModifyCodecs(o) = {"BatchModifyAction", "ModifyWire"}
           /\ DOMAIN MarginCodecs = {"UpdateLeverageAction", "UpdateIsolatedMarginAction",
                                     "TopUpIsolatedOnlyMarginAction"}
           /\ DOMAIN WeightCodecs = {"ReserveRequestWeightAction", "NoopAction"}
           /\ DOMAIN AgentCodecs = {"AgentEnableDexAbstractionAction", "AgentSetAbstractionAction",
                                    "AgentSendAssetAction"}
           /\ DOMAIN AQACodecs = {"AuthorizeAQAV2RoleAction"}
           /\ DOMAIN LiquidatorCodecs = {"HIP3LiquidatorTransferAction"}
           /\ DOMAIN ValidatorCodecs = {"ValidatorL1StreamAction", "ClaimRewardsAction"}
           /\ DOMAIN EVMGossipCodecs = {"EVMUserModifyAction", "GossipPriorityBidAction"}
           /\ DOMAIN CValidatorVariantCodecs(o) = {"CValidatorRegister", "CValidatorChangeProfile"}
           /\ DOMAIN CValidatorProfileCodecs = {"CValidatorProfile"}
           /\ DOMAIN FinalizeEVMInputCodecs = {"FinalizeEVMCreate", "CreateBody"}
           /\ DOMAIN VaultCodecs(o) = {"CreateVaultAction", "VaultModifyAction",
                                       "VaultDistributeAction"}
           /\ DOMAIN NameCodecs = {"SubAccountModifyAction", "SetDisplayNameAction"}
           /\ DOMAIN LegacyCodecs = {"SetReferrerAction", "CreateSubAccountAction"}
           /\ DOMAIN PairCodecs = {"StringPair", "StringUintPair", "StringBoolPair"}
           /\ DOMAIN SchemaCodecs(o) = {"PerpDexSchemaInput"}
           /\ DOMAIN RegisterAssetCodecs(o) = {"RegisterAssetRequest", "RegisterAssetRequest2",
                                               "RegisterAsset", "RegisterAsset2"}
           /\ DOMAIN OracleCodecs = {"SetOracle", "SetFundingMultipliers",
                                     "SetFundingInterestRates", "HaltTrading", "SetMarginTableIDs",
                                     "RawMarginTier", "RawMarginTable", "InsertMarginTable"}
           /\ DOMAIN DeployerCodecs = {"SetFeeRecipient", "SetOpenInterestCaps", "SubDeployerInput",
                                       "SetSubDeployers"}
           /\ DOMAIN ModeCodecs(o) = {"CoinMarginMode", "SetMarginModes", "SetFeeScale",
                                      "SetGrowthModes", "SetPerpAnnotation", "DisableDEX"}
           /\ DOMAIN GenesisCodecs(o) = {"RegisterToken2", "TokenSpec", "AddressWei", "TokenWei",
                                         "AddressBlacklist", "UserGenesis", "Genesis"}
           /\ DOMAIN SpotCodecs(o) = {"RegisterSpot", "RegisterHyperliquidity",
                                      "SetDeployerTradingFeeShare", "EnableQuoteToken",
                                      "DisableQuoteToken", "RequestEVMContract"}
           /\ DOMAIN FreezeCodecs = {"EnableAlignedQuoteToken", "EnableFreezePrivilege",
                                     "RevokeFreezePrivilege", "FreezeUser"}
BY DEF Paired, CancelOrderMsgpack, OrderWireMsgpack, CancelCodecs, TWAPCodecs, TransferCodecs,
       ModifyCodecs, MarginCodecs, WeightCodecs, AgentCodecs, AQACodecs, LiquidatorCodecs,
       ValidatorCodecs, EVMGossipCodecs, CValidatorVariantCodecs, CValidatorProfileCodecs,
       FinalizeEVMInputCodecs, VaultCodecs, NameCodecs, LegacyCodecs, PairCodecs, SchemaCodecs,
       RegisterAssetCodecs, OracleCodecs, DeployerCodecs, ModeCodecs, GenesisCodecs, SpotCodecs,
       FreezeCodecs

\* Together they hold every wire type that is not a union.
Tabled(o) == UNION {DOMAIN table : table \in CodecTables(o)}
Unions == {"CSignerAction", "CValidatorAction", "FinalizeEVMContractAction", "PerpDeployAction", "SpotDeployAction"}
LEMMA Covered ==
    ASSUME NEW o
    PROVE  (L1ActionTypes \cup NestedTypes) \ (Unions \cup {"UserOutcomeAction"} \cup OutcomeVariants) \subseteq Tabled(o)
<1>1. \A table \in CodecTables(o) : DOMAIN table \subseteq Tabled(o) BY DEF Tabled
<1>2. /\ DOMAIN Paired(CancelOrderMsgpack(o), OrderJSON(o)) \subseteq Tabled(o)
      /\ DOMAIN Paired(OrderWireMsgpack(o), OrderJSON(o)) \subseteq Tabled(o)
      /\ DOMAIN CancelCodecs(o) \subseteq Tabled(o) /\ DOMAIN TWAPCodecs \subseteq Tabled(o)
      /\ DOMAIN TransferCodecs \subseteq Tabled(o) /\ DOMAIN ModifyCodecs(o) \subseteq Tabled(o)
      /\ DOMAIN MarginCodecs \subseteq Tabled(o) /\ DOMAIN WeightCodecs \subseteq Tabled(o)
      /\ DOMAIN AgentCodecs \subseteq Tabled(o) /\ DOMAIN AQACodecs \subseteq Tabled(o)
      /\ DOMAIN LiquidatorCodecs \subseteq Tabled(o) /\ DOMAIN ValidatorCodecs \subseteq Tabled(o)
      /\ DOMAIN EVMGossipCodecs \subseteq Tabled(o) /\ DOMAIN CValidatorVariantCodecs(o) \subseteq Tabled(o)
      /\ DOMAIN CValidatorProfileCodecs \subseteq Tabled(o)
      /\ DOMAIN FinalizeEVMInputCodecs \subseteq Tabled(o) /\ DOMAIN VaultCodecs(o) \subseteq Tabled(o)
      /\ DOMAIN NameCodecs \subseteq Tabled(o) /\ DOMAIN LegacyCodecs \subseteq Tabled(o)
      /\ DOMAIN PairCodecs \subseteq Tabled(o) /\ DOMAIN SchemaCodecs(o) \subseteq Tabled(o)
      /\ DOMAIN RegisterAssetCodecs(o) \subseteq Tabled(o) /\ DOMAIN OracleCodecs \subseteq Tabled(o)
      /\ DOMAIN DeployerCodecs \subseteq Tabled(o) /\ DOMAIN ModeCodecs(o) \subseteq Tabled(o)
      /\ DOMAIN GenesisCodecs(o) \subseteq Tabled(o) /\ DOMAIN SpotCodecs(o) \subseteq Tabled(o)
      /\ DOMAIN FreezeCodecs \subseteq Tabled(o)
  <2> HIDE DEF Tabled
  <2> QED BY <1>1 DEF CodecTables
<1>3. L1ActionTypes \ (Unions \cup {"UserOutcomeAction"}) \subseteq Tabled(o)
      BY <1>2, TableNames DEF L1ActionTypes, Unions
<1>4. \A t \in DOMAIN Nested : Nested[t] \ OutcomeVariants \subseteq Tabled(o)
  <2>1. /\ Nested.OrderAction \subseteq Tabled(o) /\ Nested.BatchModifyAction \subseteq Tabled(o)
        /\ Nested.CancelAction \subseteq Tabled(o) /\ Nested.CancelByCloidAction \subseteq Tabled(o)
        /\ Nested.TWAPOrderAction \subseteq Tabled(o)
        BY <1>2, TableNames DEF Nested
  <2>2. Nested.UserOutcomeAction = OutcomeVariants BY DEF Nested
  <2>3. Nested.CValidatorAction \subseteq Tabled(o) /\ Nested.FinalizeEVMContractAction \subseteq Tabled(o)
        BY <1>2, TableNames DEF Nested
  <2>4. Nested.PerpDeployAction \subseteq Tabled(o) BY <1>2, TableNames DEF Nested, PerpDeployKey
  <2>5. Nested.SpotDeployAction \subseteq Tabled(o) BY <1>2, TableNames DEF Nested, SpotDeployKey
  <2>6. DOMAIN Nested = {"OrderAction", "BatchModifyAction", "CancelAction", "CancelByCloidAction",
                         "TWAPOrderAction", "UserOutcomeAction", "CValidatorAction",
                         "FinalizeEVMContractAction", "PerpDeployAction", "SpotDeployAction"}
        BY DEF Nested
  <2> QED BY <2>1, <2>2, <2>3, <2>4, <2>5, <2>6
<1>5. NestedTypes \ OutcomeVariants \subseteq Tabled(o) BY <1>4 DEF NestedTypes
<1> QED BY <1>3, <1>5

---------------------------------------------------------------------------
(* The two encodings of every action agree.                                *)

\* No table holds a codec that disagrees.
LEMMA TablesWhole == ASSUME NEW o PROVE \A table \in CodecTables(o) : Whole(table)
BY ConstantTables, ShapedTables DEF CodecTables

\* A table that holds a type gives it a codec that agrees.
LEMMA TabledAgrees == ASSUME NEW o, NEW t \in Tabled(o) PROVE Agrees(Lookup(CodecTables(o), t))
<1> DEFINE table == CHOOSE x \in CodecTables(o) : t \in DOMAIN x
<1>1. \E x \in CodecTables(o) : t \in DOMAIN x BY DEF Tabled
<1>2. table \in CodecTables(o) /\ t \in DOMAIN table BY <1>1
<1>3. Agrees(table[t]) BY <1>2, TablesWhole DEF Whole
<1> QED BY <1>3 DEF Lookup

\* A union the encoders accept holds the variant its codec writes.
LEMMA OneVariant ==
    ASSUME NEW t \in Unions, NEW o \in Shapes(t), Encodable(t, o)
    PROVE  Variant(o) \in VariantsOf[t]
<1>1. t \in DOMAIN VariantsOf BY DEF Unions, VariantsOf
<1>2. Cardinality(o) = 1 BY <1>1 DEF Encodable
<1>3. o # {} BY <1>2, FS_EmptySet
<1>4. Shapes(t) = {{v} : v \in VariantsOf[t]} \cup {{}}
  <2>1. t \notin DOMAIN OptionalFields BY DEF Unions, OptionalFields
  <2> QED BY <1>1, <2>1 DEF Shapes
<1>5. PICK v \in VariantsOf[t] : o = {v} BY <1>3, <1>4
<1> QED BY <1>5 DEF Variant

\* The actions that hold one variant write its key and payload in both encodings.
LEMMA UnionsAgree ==
    ASSUME NEW t \in Unions, NEW o \in Shapes(t), Encodable(t, o)
    PROVE  Agrees(CodecOf(t, o))
<1> DEFINE v == Variant(o)
<1>0. v \in VariantsOf[t] BY OneVariant
<1>1. CASE t = "CSignerAction"
  <2>1. v \in DOMAIN CSignerEntry BY <1>0, <1>1 DEF VariantsOf
  <2>2. \E k, x : k # "type" /\ CSignerEntry[v] = <<k, x>> BY <2>1 DEF CSignerEntry
  <2>3. Agrees(CSignerCodec(o)) BY <2>2, Agree2 DEF CSignerCodec
  <2> QED BY <1>1, <2>3 DEF CodecOf, OutcomeVariants
<1>2. CASE t = "CValidatorAction"
  <2>1. v \in DOMAIN CValidatorEntry BY <1>0, <1>2 DEF VariantsOf
  <2>2. \E k, x : k # "type" /\ CValidatorEntry[v] = <<k, x>> BY <2>1 DEF CValidatorEntry
  <2>3. Agrees(CValidatorCodec(o)) BY <2>2, Agree2 DEF CValidatorCodec
  <2> QED BY <1>2, <2>3 DEF CodecOf, OutcomeVariants
<1>3. CASE t = "FinalizeEVMContractAction"
  <2>1. Agrees(FinalizeEVMCodec(o)) BY Agree3 DEF FinalizeEVMCodec
  <2> QED BY <1>3, <2>1 DEF CodecOf, OutcomeVariants
<1>4. CASE t \in {"PerpDeployAction", "SpotDeployAction"}
  <2>1. v \in DOMAIN PerpDeployKey \/ v \in DOMAIN SpotDeployKey BY <1>0, <1>4 DEF VariantsOf
  <2>2. \A x \in DOMAIN PerpDeployKey : PerpDeployKey[x] # "type" BY DEF PerpDeployKey
  <2>3. \A x \in DOMAIN SpotDeployKey : SpotDeployKey[x] # "type" BY DEF SpotDeployKey
  <2>4. Agrees(DeployCodecs(o)) BY <2>1, <2>2, <2>3, Agree2 DEF DeployCodecs
  <2> QED BY <1>4, <2>4 DEF CodecOf, OutcomeVariants
<1> QED BY <1>1, <1>2, <1>3, <1>4 DEF Unions

\* userOutcome and its variants, where a nil amount is null on both sides.
LEMMA OutcomesAgree ==
    ASSUME NEW t \in {"UserOutcomeAction"} \cup OutcomeVariants, NEW o
    PROVE  Agrees(CodecOf(t, o))
<1>1. CASE t = "UserOutcomeAction"
  <2> DEFINE key == CASE "SplitOutcome" \in o -> <<"splitOutcome", "SplitOutcome">>
                 [] "SplitOutcome" \notin o /\ "MergeOutcome" \in o -> <<"mergeOutcome", "MergeOutcome">>
                 [] o \cap {"SplitOutcome", "MergeOutcome"} = {} /\ "MergeQuestion" \in o ->
                        <<"mergeQuestion", "MergeQuestion">>
                 [] OTHER -> <<"negateOutcome", "NegateOutcome">>
  <2>1. OutcomeActionJSON(o) = {<<"type", "userOutcome">>, key} BY DEF OutcomeActionJSON
  <2>2. \E k, x : k # "type" /\ key = <<k, x>> OBVIOUS
  <2>3. OutcomeMsgpack(o)[t] = Map(2, <<<<"type", "userOutcome">>, key>>) BY <1>1 DEF OutcomeMsgpack
  <2>4. CodecOf(t, o) = Codec(OutcomeMsgpack(o)[t], OutcomeActionJSON(o)) BY <1>1 DEF CodecOf, OutcomeVariants
  <2> HIDE DEF key
  <2> QED BY <2>1, <2>2, <2>3, <2>4, Agree2
<1>2. CASE t \in OutcomeVariants
  <2>1. CodecOf(t, o) = Codec(OutcomeMsgpack(o)[t], OutcomeVariantJSON(o)[t])
        BY <1>2 DEF CodecOf, OutcomeVariants
  <2>2. t = "SplitOutcome" => Agrees(Codec(OutcomeMsgpack(o)[t], OutcomeVariantJSON(o)[t]))
        BY Agree2 DEF OutcomeMsgpack, OutcomeVariantJSON
  <2>3. t = "MergeOutcome" => Agrees(Codec(OutcomeMsgpack(o)[t], OutcomeVariantJSON(o)[t]))
        BY Agree2 DEF OutcomeMsgpack, OutcomeVariantJSON
  <2>4. t = "MergeQuestion" => Agrees(Codec(OutcomeMsgpack(o)[t], OutcomeVariantJSON(o)[t]))
        BY Agree2 DEF OutcomeMsgpack, OutcomeVariantJSON
  <2>5. t = "NegateOutcome" => Agrees(Codec(OutcomeMsgpack(o)[t], OutcomeVariantJSON(o)[t]))
        BY Agree3 DEF OutcomeMsgpack, OutcomeVariantJSON
  <2> QED BY <1>2, <2>1, <2>2, <2>3, <2>4, <2>5 DEF OutcomeVariants
<1> QED BY <1>1, <1>2

\* Whatever optional fields are set and whichever variant is chosen, what the
\* encoders accept is the same in both encodings, down to its nested types.
LEMMA CodecsAgree ==
    ASSUME NEW t \in L1ActionTypes \cup NestedTypes, NEW o \in Shapes(t), Encodable(t, o)
    PROVE  Agrees(CodecOf(t, o))
<1>1. CASE t \in Unions BY <1>1, UnionsAgree
<1>2. CASE t \in {"UserOutcomeAction"} \cup OutcomeVariants BY <1>2, OutcomesAgree
<1>3. CASE t \notin Unions \cup {"UserOutcomeAction"} \cup OutcomeVariants
  <2>1. t \in Tabled(o) BY <1>3, Covered
  <2>2. CodecOf(t, o) = Lookup(CodecTables(o), t)
    <3>1. /\ t # "CSignerAction" /\ t # "CValidatorAction" /\ t # "FinalizeEVMContractAction"
          /\ t \notin {"PerpDeployAction", "SpotDeployAction"} /\ t # "UserOutcomeAction" /\ t \notin OutcomeVariants
          BY <1>3 DEF Unions
    <3> QED BY <3>1, Zenon DEF CodecOf
  <2> QED BY <2>1, <2>2, TabledAgrees
<1> QED BY <1>1, <1>2, <1>3

\* The nested wire types among them.
LEMMA NoneDisagrees == Disagreeing = {}
BY CodecsAgree DEF Disagreeing

---------------------------------------------------------------------------
(* What a wallet shows and signs is what a user action posts.              *)

\* Every codec of a table of user actions agrees.
UserWhole(table) == \A t \in DOMAIN table : UserAgrees(table[t])

\* The same fields on both sides, the type and the signature chain on one.
LEMMA SameFields ==
    ASSUME NEW fields, NEW typed, typed = {Chain} \cup fields, NEW type
    PROVE  UserAgrees(UserCodec(typed, WireHead(type) \cup fields))
<1> DEFINE posted == WireHead(type) \cup fields
<1>1. WireHead(type) = {<<"type", type>>, Chain, <<"signatureChainId", "0x66eee">>} BY DEF WireHead
<1>2. \A e \in typed : e \in posted BY <1>1
<1>3. \A w \in posted : w \in typed \/ w[1] \in {"type", "signatureChainId"} BY <1>1
<1>4. UserCodec(typed, posted).typed = typed /\ UserCodec(typed, posted).wire = posted BY DEF UserCodec
<1> HIDE DEF posted
<1>5. UserAgrees(UserCodec(typed, posted)) BY <1>2, <1>3, <1>4 DEF UserAgrees
<1> QED BY <1>5 DEF posted

\* One lemma for each number of fields.
LEMMA Signed2 ==
    ASSUME NEW type, NEW e1, NEW e2
    PROVE  UserAgrees(UserCodec({Chain, e1, e2},
                                WireHead(type) \cup {e1, e2}))
<1>1. {Chain, e1, e2} = {Chain} \cup {e1, e2} OBVIOUS
<1> QED BY <1>1, SameFields
LEMMA Signed3 ==
    ASSUME NEW type, NEW e1, NEW e2, NEW e3
    PROVE  UserAgrees(UserCodec({Chain, e1, e2, e3},
                                WireHead(type) \cup {e1, e2, e3}))
<1>1. {Chain, e1, e2, e3} = {Chain} \cup {e1, e2, e3} OBVIOUS
<1> QED BY <1>1, SameFields
LEMMA Signed4 ==
    ASSUME NEW type, NEW e1, NEW e2, NEW e3, NEW e4
    PROVE  UserAgrees(UserCodec({Chain, e1, e2, e3, e4},
                                WireHead(type) \cup {e1, e2, e3, e4}))
<1>1. {Chain, e1, e2, e3, e4} = {Chain} \cup {e1, e2, e3, e4} OBVIOUS
<1> QED BY <1>1, SameFields
LEMMA Signed7 ==
    ASSUME NEW type, NEW e1, NEW e2, NEW e3, NEW e4, NEW e5, NEW e6, NEW e7
    PROVE  UserAgrees(UserCodec({Chain, e1, e2, e3, e4, e5, e6, e7},
                                WireHead(type) \cup {e1, e2, e3, e4, e5, e6, e7}))
<1>1. {Chain, e1, e2, e3, e4, e5, e6, e7} = {Chain} \cup {e1, e2, e3, e4, e5, e6, e7} OBVIOUS
<1> QED BY <1>1, SameFields
LEMMA Signed9 ==
    ASSUME NEW type, NEW e1, NEW e2, NEW e3, NEW e4, NEW e5, NEW e6, NEW e7, NEW e8, NEW e9
    PROVE  UserAgrees(UserCodec({Chain, e1, e2, e3, e4, e5, e6, e7, e8, e9},
                                WireHead(type) \cup {e1, e2, e3, e4, e5, e6, e7, e8, e9}))
<1>1. {Chain, e1, e2, e3, e4, e5, e6, e7, e8, e9} = {Chain} \cup {e1, e2, e3, e4, e5, e6, e7, e8, e9} OBVIOUS
<1> QED BY <1>1, SameFields

\* A nil agent name is signed as the empty string and left out of the wire.
LEMMA UserTablesWhole == ASSUME NEW o PROVE \A table \in UserTables(o) : UserWhole(table)
<1> USE DEF UserWhole
<1>1. UserWhole(USDSendCodec)
  <2>1. UserAgrees(USDSendCodec.USDSendAction) BY Signed3 DEF USDSendCodec
  <2> QED BY <2>1 DEF USDSendCodec
<1>2. UserWhole(SpotUserCodecs)
  <2>1. UserAgrees(SpotUserCodecs.SpotSendAction) BY Signed4 DEF SpotUserCodecs
  <2>2. UserAgrees(SpotUserCodecs.WithdrawFromBridgeAction) BY Signed3 DEF SpotUserCodecs
  <2>3. UserAgrees(SpotUserCodecs.USDClassTransferAction) BY Signed3 DEF SpotUserCodecs
  <2> QED BY <2>1, <2>2, <2>3 DEF SpotUserCodecs
<1>3. UserWhole(SendAssetCodec(o))
  <2>1. UserAgrees(SendAssetCodec(o).SendAssetAction) BY Signed7 DEF SendAssetCodec
  <2> QED BY <2>1 DEF SendAssetCodec
<1>4. UserWhole(ApprovalCodecs(o))
  <2>1. UserAgrees(ApprovalCodecs(o).ApproveBuilderFeeAction) BY Signed3 DEF ApprovalCodecs
  <2>2. UserAgrees(ApprovalCodecs(o).ApproveAgentAction)
    <3> DEFINE both == {<<"agentAddress", "AgentAddress">>, <<"nonce", "Nonce">>}
               name == <<"agentName", IF "AgentName" \in o THEN "AgentName" ELSE "">>
               posted == WireHead("approveAgent") \cup both \cup IfSetJSON(o, "AgentName", "agentName")
               typed == {Chain, <<"agentAddress", "AgentAddress">>, <<"nonce", "Nonce">>, name}
    <3>1. ApprovalCodecs(o).ApproveAgentAction = UserCodec(typed, posted) BY DEF ApprovalCodecs
    <3>2. name \in posted \/ (name[2] = "" /\ \A w \in posted : w[1] # "agentName")
      <4>1. CASE "AgentName" \in o BY <4>1 DEF IfSetJSON
      <4>2. CASE "AgentName" \notin o
        <5>1. IfSetJSON(o, "AgentName", "agentName") = {} BY <4>2 DEF IfSetJSON
        <5>2. \A w \in WireHead("approveAgent") : w[1] # "agentName" BY DEF WireHead, Chain
        <5>3. \A w \in both : w[1] # "agentName" OBVIOUS
        <5> QED BY <4>2, <5>1, <5>2, <5>3
      <4> QED BY <4>1, <4>2
    <3>3. \A e \in typed : e \in posted \/ e = name BY DEF WireHead
    <3>4. \A w \in posted : w \in typed \/ w[1] \in {"type", "signatureChainId"}
      <4>1. \A w \in WireHead("approveAgent") : w = Chain \/ w[1] \in {"type", "signatureChainId"} BY DEF WireHead
      <4>2. \A w \in IfSetJSON(o, "AgentName", "agentName") : w = name BY DEF IfSetJSON
      <4> QED BY <4>1, <4>2
    <3>5. UserCodec(typed, posted).typed = typed /\ UserCodec(typed, posted).wire = posted BY DEF UserCodec
    <3>6. name[1] = "agentName" OBVIOUS
    <3> HIDE DEF posted, typed, name
    <3> QED BY <3>1, <3>2, <3>3, <3>4, <3>5, <3>6 DEF UserAgrees
  <2> QED BY <2>1, <2>2 DEF ApprovalCodecs
<1>5. UserWhole(SendToEVMCodec)
  <2>1. UserAgrees(SendToEVMCodec.SendToEVMWithDataAction) BY Signed9 DEF SendToEVMCodec
  <2> QED BY <2>1 DEF SendToEVMCodec
<1>6. UserWhole(StakingCodecs)
  <2>1. UserAgrees(StakingCodecs.CDepositAction) BY Signed2 DEF StakingCodecs
  <2>2. UserAgrees(StakingCodecs.CWithdrawAction) BY Signed2 DEF StakingCodecs
  <2>3. UserAgrees(StakingCodecs.TokenDelegateAction) BY Signed4 DEF StakingCodecs
  <2> QED BY <2>1, <2>2, <2>3 DEF StakingCodecs
<1>7. UserWhole(AbstractionCodecs)
  <2>1. UserAgrees(AbstractionCodecs.UserDexAbstractionAction) BY Signed3 DEF AbstractionCodecs
  <2>2. UserAgrees(AbstractionCodecs.UserSetAbstractionAction) BY Signed3 DEF AbstractionCodecs
  <2> QED BY <2>1, <2>2 DEF AbstractionCodecs
<1>8. UserWhole(ConvertCodec(o))
  <2>1. UserAgrees(ConvertCodec(o).ConvertToMultiSigUserAction) BY Signed2 DEF ConvertCodec
  <2> QED BY <2>1 DEF ConvertCodec
<1> HIDE DEF UserWhole
<1> QED BY <1>1, <1>2, <1>3, <1>4, <1>5, <1>6, <1>7, <1>8 DEF UserTables

\* The set of user actions does not depend on a value's shape.
LEMMA UserNames == ASSUME NEW o PROVE UserActionTypes = UNION {DOMAIN table : table \in UserTables(o)}
<1>1. /\ DOMAIN SendAssetCodec(o) = DOMAIN SendAssetCodec({}) /\ DOMAIN ConvertCodec(o) = DOMAIN ConvertCodec({})
      /\ DOMAIN ApprovalCodecs(o) = DOMAIN ApprovalCodecs({})
      BY DEF SendAssetCodec, ConvertCodec, ApprovalCodecs
<1> QED BY <1>1 DEF UserActionTypes, UserTables

\* Whatever its shape, a user action posts every field its typed data holds.
LEMMA UserCodecsAgree == ASSUME NEW t \in UserActionTypes, NEW o PROVE UserAgrees(UserCodecOf(t, o))
<1> DEFINE table == CHOOSE x \in UserTables(o) : t \in DOMAIN x
<1>1. \E x \in UserTables(o) : t \in DOMAIN x BY UserNames
<1>2. table \in UserTables(o) /\ t \in DOMAIN table BY <1>1
<1>3. UserAgrees(table[t]) BY <1>2, UserTablesWhole DEF UserWhole
<1> QED BY <1>3 DEF UserCodecOf, Lookup

\* The user actions the client's methods build.
LEMMA UserActionNames ==
    {"USDSendAction", "SpotSendAction", "WithdrawFromBridgeAction", "USDClassTransferAction", "SendAssetAction",
     "ApproveAgentAction", "ApproveBuilderFeeAction", "SendToEVMWithDataAction", "CDepositAction",
     "CWithdrawAction", "TokenDelegateAction", "UserDexAbstractionAction", "UserSetAbstractionAction",
     "ConvertToMultiSigUserAction"} \subseteq UserActionTypes
<1> DEFINE N == UNION {DOMAIN table : table \in UserTables({})}
<1>1. \A table \in UserTables({}) : DOMAIN table \subseteq N OBVIOUS
<1>2. /\ DOMAIN USDSendCodec \subseteq N /\ DOMAIN SpotUserCodecs \subseteq N
      /\ DOMAIN SendAssetCodec({}) \subseteq N /\ DOMAIN ApprovalCodecs({}) \subseteq N
      /\ DOMAIN SendToEVMCodec \subseteq N /\ DOMAIN StakingCodecs \subseteq N
      /\ DOMAIN AbstractionCodecs \subseteq N /\ DOMAIN ConvertCodec({}) \subseteq N
  <2> HIDE DEF N
  <2> QED BY <1>1 DEF UserTables
<1> HIDE DEF N
<1>3. {"USDSendAction", "SpotSendAction", "WithdrawFromBridgeAction", "USDClassTransferAction", "SendAssetAction"} \subseteq N
      BY <1>2 DEF USDSendCodec, SpotUserCodecs, SendAssetCodec
<1>4. {"ApproveAgentAction", "ApproveBuilderFeeAction", "SendToEVMWithDataAction", "CDepositAction",
       "CWithdrawAction", "TokenDelegateAction"} \subseteq N
      BY <1>2 DEF ApprovalCodecs, SendToEVMCodec, StakingCodecs
<1>5. {"UserDexAbstractionAction", "UserSetAbstractionAction", "ConvertToMultiSigUserAction"} \subseteq N
      BY <1>2 DEF AbstractionCodecs, ConvertCodec
<1> QED BY <1>3, <1>4, <1>5 DEF UserActionTypes, N

\* The methods of the "user" path build user actions, the others L1 actions, and
\* only the two multi-sig methods take the multi-sig paths.
LEMMA MethodActions ==
    \A m \in DOMAIN Methods :
        /\ Methods[m].path \notin {"multiL1", "multiUser"}
        /\ IF Methods[m].path = "user" THEN Methods[m].action \in UserActionTypes
           ELSE Methods[m].action \in L1ActionTypes
<1> DEFINE Row(row) == /\ row.path \notin {"multiL1", "multiUser"}
                       /\ row.path = "user" => row.action \in UserActionTypes
                       /\ row.path # "user" => row.action \in L1ActionTypes
           Right(u) == \A m \in DOMAIN u : Row(u[m])
<1> USE DEF M, L1ActionTypes
<1>1. Right(OrderMethods) /\ Right(CancelMethods) /\ Right(ModifyMethods) /\ Right(TWAPMethods)
      BY DEF OrderMethods, CancelMethods, ModifyMethods, TWAPMethods
<1>2. Right(CoreMethods) BY DEF CoreMethods
<1>3. Right(StakingMethods) BY UserActionNames DEF StakingMethods
<1>4. Right(TransferMethods) /\ Right(DeployMethods) BY DEF TransferMethods, DeployMethods
<1>5. Right(CompatMethods) BY DEF CompatMethods
<1>6. Right(AgentMethods) BY DEF AgentMethods
<1>7. Right(AbstractionMethods) BY UserActionNames DEF AbstractionMethods
<1>8. Right(UserMethods) BY UserActionNames DEF UserMethods
<1>9. Right(AccountMethods) BY UserActionNames DEF AccountMethods
<1>10. \A t \in MethodTables : Right(t)
  <2> HIDE DEF Right
  <2> QED BY <1>1, <1>2, <1>3, <1>4, <1>5, <1>6, <1>7, <1>8, <1>9 DEF MethodTables
<1>11. \A m \in DOMAIN Methods : Row(Methods[m])
  <2> TAKE m \in DOMAIN Methods
  <2>1. PICK t \in MethodTables : m \in DOMAIN t /\ Methods[m] = t[m] BY MethodFacts
  <2> HIDE DEF Row
  <2> QED BY <1>10, <2>1
<1> QED BY <1>11

\* The vault under a digest is the posted one, or none.
LEMMA VaultCovered == ASSUME NEW r PROVE SigningVault(r) \in {"nil", OuterVault(r)}
<1>1. CASE PathOf(r) = "l1" BY <1>1 DEF SigningVault, OuterVault, outerVaultAddress
<1>2. CASE PathOf(r) = "multiL1"
  <2>1. SigningVault(r) = multiSigL1SigningVault(r) BY <1>2 DEF SigningVault
  <2>2. CASE ActionOf(r) = "FinalizeEVMContractAction"
        BY <2>1, <2>2 DEF multiSigL1SigningVault, NilSigningVault
  <2>3. CASE ActionOf(r) # "FinalizeEVMContractAction"
    <3>1. OuterVault(r) = outerVaultAddress(SigningVault(r)) BY <1>2, <2>3 DEF OuterVault
    <3> QED BY <3>1 DEF outerVaultAddress
  <2> QED BY <2>2, <2>3
<1>3. CASE PathOf(r) = "multiUser" BY <1>3 DEF SigningVault, OuterVault
<1>4. CASE PathOf(r) \notin {"l1", "multiL1", "multiUser"} BY <1>4 DEF SigningVault
<1> QED BY <1>1, <1>2, <1>3, <1>4

\* The parts of a multi-sig submission that are signed and posted in two forms.
LEMMA MultiSigAgrees ==
    /\ Agrees(CompactSignatureCodec) /\ Agrees(MultiSigPayloadCodec)
    /\ ToSet(MultiSigEnvelopeCodec.bytes.entries) = MultiSigEnvelopeCodec.json \ {<<"type", "multiSig">>}
<1>1. Agrees(CompactSignatureCodec) BY Agree3 DEF CompactSignatureCodec
<1>2. Agrees(MultiSigPayloadCodec) BY Agree3 DEF MultiSigPayloadCodec
<1> DEFINE s == <<<<"signatureChainId", "SignatureChainID">>, <<"signatures", "Signatures">>, <<"payload", "Payload">>>>
<1>3. MultiSigEnvelopeCodec.bytes.entries = s BY DEF MultiSigEnvelopeCodec, Codec, Map
<1>4. ToSet(s) = {<<"signatureChainId", "SignatureChainID">>, <<"signatures", "Signatures">>, <<"payload", "Payload">>}
  <2>1. DOMAIN s = 1..3 OBVIOUS
  <2>2. {s[i] : i \in 1..3} = {<<"signatureChainId", "SignatureChainID">>, <<"signatures", "Signatures">>,
                               <<"payload", "Payload">>}
        OBVIOUS
  <2> HIDE DEF s
  <2> QED BY <2>1, <2>2 DEF ToSet
<1>5. MultiSigEnvelopeCodec.json = {<<"type", "multiSig">>, <<"signatureChainId", "SignatureChainID">>,
                                    <<"signatures", "Signatures">>, <<"payload", "Payload">>}
      BY DEF MultiSigEnvelopeCodec, Codec
<1> HIDE DEF s
<1> QED BY <1>1, <1>2, <1>3, <1>4, <1>5

\* What every method of the client posts is what it signed, for every action type,
\* every choice of optional fields and variant, and every setting of the client.
THEOREM PostsWhatItSigned == Spec => []SignedIsPosted
<1>1. Init => Asked BY DEF Init, Asked
<1>2. ASSUME Asked, Journal PROVE SignedIsPosted
  <2> SUFFICES ASSUME NEW c \in Calls, pc[c] = "post"
               PROVE  LET r == req[c]
                          t == ActionOf(r)
                      IN /\ IF PathOf(r) \in {"user", "multiUser"} THEN UserAgrees(UserCodecOf(t, r.o))
                            ELSE Agrees(CodecOf(t, r.o)) /\ NestedIn(t) \cap Disagreeing = {}
                         /\ SigningExpiry(r) = PostedExpiry(r)
                         /\ SigningVault(r) \in {"nil", OuterVault(r)}
                         /\ IsMulti(r) =>
                               /\ Agrees(CompactSignatureCodec) /\ Agrees(MultiSigPayloadCodec)
                               /\ ToSet(MultiSigEnvelopeCodec.bytes.entries) =
                                      MultiSigEnvelopeCodec.json \ {<<"type", "multiSig">>}
      BY DEF SignedIsPosted
  <2> DEFINE r == req[c]
             t == ActionOf(r)
  <2>1. r.o \in Shapes(t) /\ Encodable(t, r.o) BY <1>2 DEF Asked, Journal, Accepted, Encodes
  <2>2. IF PathOf(r) \in {"user", "multiUser"} THEN t \in UserActionTypes ELSE t \in L1ActionTypes
    <3>1. CASE r.method = "SubmitMultiSigL1"
      <4>1. r.action \in L1ActionTypes /\ t = r.action BY <1>2, <3>1 DEF Asked, ActionOf, IsMulti
      <4>2. PathOf(r) = "multiL1" BY <3>1 DEF PathOf
      <4> QED BY <4>1, <4>2
    <3>2. CASE r.method = "SubmitMultiSigUserAction"
      <4>1. r.action \in UserActionTypes /\ t = r.action BY <1>2, <3>2 DEF Asked, ActionOf, IsMulti
      <4>2. PathOf(r) = "multiUser" BY <3>2 DEF PathOf
      <4> QED BY <4>1, <4>2
    <3>3. CASE r.method # "SubmitMultiSigL1" /\ r.method # "SubmitMultiSigUserAction"
      <4>1. ~IsMulti(r) BY <3>3 DEF IsMulti
      <4>2. r.method \in DOMAIN Methods BY <1>2, <4>1 DEF Asked
      <4>3. t = Methods[r.method].action BY <4>1 DEF ActionOf
      <4>4. PathOf(r) = Methods[r.method].path BY <3>3, Zenon DEF PathOf
      <4> QED BY <4>2, <4>3, <4>4, MethodActions
    <3> QED BY <3>1, <3>2, <3>3
  <2>3. CASE PathOf(r) \in {"user", "multiUser"}
    <3>1. UserAgrees(UserCodecOf(t, r.o)) BY <2>2, <2>3, UserCodecsAgree
    <3> QED BY <2>3, <3>1, VaultCovered, MultiSigAgrees DEF SigningExpiry, PostedExpiry
  <2>4. CASE PathOf(r) \notin {"user", "multiUser"}
    <3>1. Agrees(CodecOf(t, r.o)) BY <2>1, <2>2, <2>4, CodecsAgree
    <3> QED BY <2>4, <3>1, NoneDisagrees, VaultCovered, MultiSigAgrees DEF SigningExpiry, PostedExpiry
  <2> QED BY <2>3, <2>4
<1> QED BY <1>1, <1>2, CallsTypedHolds, JournalHolds, AskedStep, PTL DEF Spec
=============================================================================
