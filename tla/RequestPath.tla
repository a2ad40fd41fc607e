----------------------------- MODULE RequestPath -----------------------------
(***************************************************************************)
(* The paths a request takes to the network.  info/client.go: an Info call  *)
(* is a loop of attempts; over HTTP each attempt passes the installed       *)
(* limiter and its answer may be surcharged (WeightedRateLimitWithLimiter), *)
(* and 429, 502, 503 and 504 are retried after a pause; over a              *)
(* RequestTransport (the WebSocket post) only the status decides.  Exchange *)
(* and Explorer requests pass the limiter and are sent once.                *)
(* websocket/manager.go: a manager paces its dials and passes the message   *)
(* window with every message.  Server, network and contexts are external.   *)
(***************************************************************************)
EXTENDS RateLimiters, Backoff

CONSTANTS MaxVersion,    \* metadata versions the server goes through
          Items          \* how many items a response may hold

ASSUME PathAssumption == Items \subseteq Nat /\ MaxVersion \in Nat

VARIABLES config,    \* construction-time settings, and the requests of the run
          req,       \* per caller: its request
          ipc,       \* per caller: where its call is
          attempt,   \* per caller: the loop counter
          pause,     \* per caller: its pause: [at, delay, jitter, header]
          dials,     \* per caller: the failed dials and lost connections so far
          version,   \* the server's metadata version
          value      \* per caller: the version its last successful call read

NoHeader == [form |-> "none", value |-> 0]
NoPause == [at |-> 0, delay |-> 0, jitter |-> 0, header |-> NoHeader]
NoRequest == [op |-> "none"]

PathInit ==
    /\ LimiterInit
    /\ req = [c \in Callers |-> NoRequest]
    /\ ipc = [c \in Callers |-> "idle"]
    /\ attempt = [c \in Callers |-> 0]
    /\ pause = [c \in Callers |-> NoPause]
    /\ dials = [c \in Callers |-> 0]
    /\ version = 0
    /\ value = [c \in Callers |-> 0]

----------------------------------------------------------------------------
(* OfficialWeightPolicy. *)

LightInfo == {"l2Book", "allMids", "clearinghouseState", "orderStatus", "spotClearinghouseState", "exchangeStatus"}
BatchActions == {"order", "cancel", "cancelByCloid", "batchModify", "perpDeploy"}
\* A batch inside multi-sig envelopes is found unless it is nested too deeply.
exchangeBatchLength(r) == IF r.depth >= 8 \/ r.type \notin BatchActions THEN 0 ELSE r.items
RequestWeight(r) ==
    CASE r.kind = "action" -> 1 + exchangeBatchLength(r) \div 40
      [] r.kind = "explorer" -> 40
      [] r.kind = "info" -> IF r.type \in LightInfo THEN 2 ELSE IF r.type = "userRole" THEN 60 ELSE 20
      [] OTHER -> 1
PerTwenty == {"recentTrades", "historicalOrders", "userFills", "userFillsByTime", "fundingHistory", "userFunding",
              "nonUserFundingUpdates", "twapHistory", "userTwapSliceFills", "userTwapSliceFillsByTime",
              "delegatorHistory", "delegatorRewards", "validatorStats"}
ResponseWeight(r, items) ==
    CASE r.kind = "explorer" /\ r.type = "blockList" -> items
      [] r.kind = "info" /\ r.type \in PerTwenty -> items \div 20
      [] r.kind = "info" /\ r.type = "candleSnapshot" -> items \div 60
      [] OTHER -> 0

----------------------------------------------------------------------------
(* Client.call of info/, and the single attempt of exchange/ and explorer/. *)

\* A policy without attempts is replaced as a whole.
Policy == IF config.policy.attempts <= 0
          THEN [attempts |-> DefaultAttempts, base |-> DefaultBase, max |-> DefaultMax]
          ELSE config.policy

IPC(c, to) == ipc' = [ipc EXCEPT ![c] = to]
LimiterButPC == <<limiter, weight, woken, timer, limiterState, spent, ahead>>

\* Do of the HTTP transport begins with the limiter; a RequestTransport has none.
TransportDo(c, r) == IF config.ws THEN ReturnAtOnce(c, "granted") ELSE Wait(c, RequestWeight(r))
Call(c) ==
    /\ ipc[c] = "call"
    /\ TransportDo(c, req[c])
    /\ IPC(c, "do")
    /\ UNCHANGED <<now, cancelled, config, req, attempt, pause, dials, version, value>>

\* The limiter's error is the transport's, and is returned without a retry.
NotAdmitted(c) ==
    /\ ipc[c] = "do" /\ lpc[c] = "failed"
    /\ IPC(c, "error") /\ lpc' = [lpc EXCEPT ![c] = "idle"]
    /\ attempt' = [attempt EXCEPT ![c] = 0]
    /\ UNCHANGED <<now, cancelled, LimiterButPC, tickets, config, req, pause, dials, version, value>>

\* An admitted attempt is sent, and its answer returned: a 2xx body, an error that
\* ends the call (transport, status, unreadable body, the context), or a status
\* worth a retry.
InFlight(c) == ipc[c] = "do" /\ lpc[c] = "granted"
Landed(c) ==
    /\ lpc' = [lpc EXCEPT ![c] = "idle"]
    /\ tickets' = [tickets EXCEPT ![c] = IF limiter \in {"weighted", "interval"} /\ ~config.ws THEN @ - 1 ELSE 0]
\* The body is charged for by its length when it is a 2xx one and JSON.
Surcharge(c) == \E items \in Items : Charge(IF config.ws THEN 0 ELSE ResponseWeight(req[c], items))
Answered(c) ==
    /\ InFlight(c) /\ c \notin cancelled /\ req[c].kind # "message"
    /\ Surcharge(c)
    /\ IPC(c, "ok") /\ Landed(c)
    /\ value' = [value EXCEPT ![c] = version]
    /\ attempt' = [attempt EXCEPT ![c] = 0]
    /\ UNCHANGED <<now, cancelled, limiter, weight, timer, ahead, config, req, pause, dials, version>>
Failed(c) ==
    /\ InFlight(c) /\ req[c].kind # "message"
    /\ UNCHANGED <<limiterState, woken, spent>> \/ Surcharge(c)
    /\ IPC(c, "error") /\ Landed(c)
    /\ attempt' = [attempt EXCEPT ![c] = 0]
    /\ UNCHANGED <<now, cancelled, limiter, weight, timer, ahead, config, req, pause, dials, version, value>>

LastAttempt(c) == req[c].kind # "info" \/ attempt[c] = Policy.attempts - 1
PauseFor(c, delay, jitter, header) ==
    /\ pause' = [pause EXCEPT ![c] = [at |-> now, delay |-> delay, jitter |-> jitter, header |-> header]]
    /\ IPC(c, "pause")
Retryable(c) ==
    /\ InFlight(c) /\ c \notin cancelled /\ ~LastAttempt(c) /\ Landed(c)
    /\ \E jitter \in config.jitters, header \in config.headers :
        LET after == IF config.ws THEN NoDelay ELSE RetryAfterDelay(Policy, header)
        IN PauseFor(c, IF after # NoDelay THEN after ELSE Delay(Policy, attempt[c], jitter), jitter, header)
    /\ UNCHANGED <<now, cancelled, LimiterButPC, config, req, attempt, dials, version, value>>

\* The pause: its timer starts the next attempt, which passes the limiter again.
PauseOver(c) == ipc[c] = "pause" /\ now >= pause[c].at + pause[c].delay
Resume(c) == pause' = [pause EXCEPT ![c] = NoPause]
RetryUnadmitted(c) ==
    /\ PauseOver(c) /\ req[c].kind = "info" /\ Resume(c)
    /\ ReturnAtOnce(c, "granted")
    /\ IPC(c, "do")
    /\ attempt' = [attempt EXCEPT ![c] = @ + 1]
    /\ UNCHANGED <<now, cancelled, config, req, dials, version, value>>
Retry(c) ==
    /\ PauseOver(c) /\ req[c].kind = "info" /\ Resume(c)
    /\ TransportDo(c, req[c])
    /\ IPC(c, "do")
    /\ attempt' = [attempt EXCEPT ![c] = @ + 1]
    /\ UNCHANGED <<now, cancelled, config, req, dials, version, value>>
PauseCancelled(c) ==
    /\ ipc[c] = "pause" /\ c \in cancelled /\ req[c].kind = "info" /\ Resume(c)
    /\ IPC(c, "error")
    /\ attempt' = [attempt EXCEPT ![c] = 0]
    /\ UNCHANGED <<now, cancelled, limiterVars, config, req, dials, version, value>>

----------------------------------------------------------------------------
(* The run loop of a connection manager: dial, write, lose the connection.  *)

Jitters(d) == IF config.jitters = {} THEN equalReconnectJitter(d) ELSE config.jitters
waitReconnect(c, a) ==
    /\ dials[c] < config.dials
    /\ dials' = [dials EXCEPT ![c] = @ + 1]
    /\ \E j \in Jitters(ReconnectCapped(config.policy, a).delay) :
        PauseFor(c, ReconnectDelay(config.policy, a, j), j, NoHeader)
DialFails(c) ==
    /\ ipc[c] = "dial"
    /\ waitReconnect(c, attempt[c])
    /\ UNCHANGED <<now, cancelled, limiterVars, config, req, attempt, version, value>>
\* A successful dial ends the streak of failures.
DialSucceeds(c) ==
    /\ ipc[c] = "dial"
    /\ attempt' = [attempt EXCEPT ![c] = 0]
    /\ Wait(c, 1)
    /\ IPC(c, "do")
    /\ UNCHANGED <<now, cancelled, config, req, pause, dials, version, value>>
Written(c) ==
    /\ InFlight(c) /\ req[c].kind = "message" /\ Landed(c)
    /\ IPC(c, "ok")
    /\ UNCHANGED <<now, cancelled, LimiterButPC, config, req, attempt, pause, dials, version, value>>
ConnectionLost(c) ==
    /\ InFlight(c) /\ req[c].kind = "message" /\ Landed(c)
    /\ waitReconnect(c, attempt[c])
    /\ UNCHANGED <<now, cancelled, LimiterButPC, config, req, attempt, version, value>>
\* The delay elapsed, or a registry change cut it short and counts for nothing.
Redial(c) ==
    /\ ipc[c] = "pause" /\ req[c].kind = "message" /\ Resume(c)
    /\ \/ PauseOver(c) /\ attempt' = [attempt EXCEPT ![c] = @ + 1]
       \/ UNCHANGED attempt
    /\ IPC(c, "dial")
    /\ UNCHANGED <<now, cancelled, limiterVars, config, req, dials, version, value>>

RequestStep(c) ==
    \/ Call(c) \/ NotAdmitted(c) \/ Answered(c) \/ Failed(c) \/ Retryable(c) \/ Retry(c) \/ PauseCancelled(c)
    \/ DialFails(c) \/ DialSucceeds(c) \/ Written(c) \/ ConnectionLost(c) \/ Redial(c)

----------------------------------------------------------------------------
\* Every attempt an Info, Exchange or Explorer call sends was admitted by the
\* limiter by itself, a retry included; an action or an Explorer request is sent
\* once, an Info call at most MaxAttempts times.
AttemptsAdmitted ==
    \A c \in Callers : req[c].op # "none" /\ req[c].kind # "message" =>
        /\ tickets[c] \in 0..1
        /\ limiter \in {"weighted", "interval"} /\ ~config.ws /\ InFlight(c) => tickets[c] = 1
        /\ attempt[c] < (IF req[c].kind = "info" THEN Policy.attempts ELSE 1)

\* What a pause of RetryPolicy or ExponentialReconnectPolicy has to be.
BoundedPause(c) ==
    LET p == pause[c]
        default == req[c].kind = "info" /\ config.policy.attempts <= 0
        max == IF config.policy.max <= 0 \/ default THEN DefaultMax ELSE config.policy.max
        base == IF config.policy.base <= 0 \/ default THEN DefaultBase ELSE config.policy.base
    IN IF req[c].kind = "message"
       THEN /\ p.delay \in 0..Max({base, max})
            /\ config.jitters = {} =>
                  LET d == CappedDoubling(base, Max({base, max}), attempt[c])
                  IN p.delay \in (d \div 2)..d
       ELSE /\ p.delay \in 0..max
            /\ p.jitter = 0 /\ (config.ws \/ p.header.form = "none") =>
                  p.delay = CappedDoubling(Min({base, max}), max, attempt[c])
            /\ ~config.ws /\ p.header.form = "seconds" /\ p.header.value \in 0..MaxDuration \div Second =>
                  p.delay = Min({p.header.value * Second, max})

\* RetryPolicy.Delay and ExponentialReconnectPolicy.Delay: a pause is the capped
\* doubling of the base delay with the jitter, never negative and never above the
\* cap, although durations wrap; a usable Retry-After replaces it, capped.
PausesBounded == \A c \in Callers : pause[c] # NoPause => BoundedPause(c)
=============================================================================
