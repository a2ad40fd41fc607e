------------------------- MODULE RequestPath_proofs -------------------------
(***************************************************************************)
(* What the limiters and the request path guarantee to any callers with any *)
(* requests, whichever limiter is installed: attempts are admitted one by   *)
(* one, waiters are served in turn, no rate is exceeded and no pause between *)
(* attempts outgrows its policy.                                             *)
(***************************************************************************)
EXTENDS AssetResolver_proofs, WellFoundedInduction

----------------------------------------------------------------------------
(* Where a caller is, in the resolver, in its call and in the limiter. *)

PathPlaces == {"idle", "call", "do", "pause", "dial", "ok", "error"}
LimiterPlaces == {"idle", "top", "select", "granted", "failed"}
PathTyped ==
    /\ ipc \in [Callers -> PathPlaces] /\ lpc \in [Callers -> LimiterPlaces]
    /\ attempt \in [Callers -> Nat] /\ tickets \in [Callers -> Int]
    /\ limiter \in {"window", "weighted", "interval", "none"}

\* A caller has something to do with the limiter only inside an attempt, and its
\* call is under way only where the resolver has it so.
InPlace(c) ==
    /\ lpc[c] # "idle" => ipc[c] = "do"
    /\ rpc[c] \notin {"path", "fetch"} => ipc[c] = "idle"
    /\ rpc[c] = "idle" => req[c] = NoRequest
    /\ ipc[c] = "dial" => req[c].kind = "message"
    /\ rpc[c] # "idle" => (req[c].kind = "action" => req[c].items \in Nat)

\* An admission is used by the attempt it was given to.
Ticketed(c) ==
    /\ tickets[c] \in 0..1
    /\ lpc[c] # "granted" => tickets[c] = 0
    /\ lpc[c] = "granted" /\ limiter \in {"weighted", "interval"} /\ ~config.ws => tickets[c] = 1

\* The attempts of a call, and another to come during a pause.
Counted(c) ==
    IF rpc[c] = "idle" THEN attempt[c] = 0
    ELSE req[c].kind # "message" =>
        /\ attempt[c] < (IF req[c].kind = "info" THEN Policy.attempts ELSE 1)
        /\ ipc[c] \notin {"do", "pause"} => attempt[c] = 0
        /\ ipc[c] = "pause" => req[c].kind = "info" /\ attempt[c] + 1 < Policy.attempts

Sound(c) == InPlace(c) /\ Ticketed(c) /\ Counted(c)
OnPath == PathTyped /\ \A c \in Callers : Sound(c)

\* An attempt begins: over a RequestTransport at once, otherwise in the limiter.
Starts(c) == (config.ws /\ ReturnAtOnce(c, "granted")) \/ \E w \in Nat \ {0} : Wait(c, w)

\* OfficialWeightPolicy.RequestWeight: every request weighs something.
LEMMA WeightPositive ==
    ASSUME NEW r, r.kind = "action" => r.items \in Nat
    PROVE  RequestWeight(r) \in Nat \ {0}
<1>1. CASE r.kind = "action"
  <2>1. RequestWeight(r) = 1 + exchangeBatchLength(r) \div 40 BY <1>1, Zenon DEF RequestWeight
  <2>2. exchangeBatchLength(r) \in Nat BY <1>1 DEF exchangeBatchLength
  <2>3. \A n \in Nat : n \div 40 \in Nat OBVIOUS
  <2> QED BY <2>1, <2>2, <2>3
<1>2. CASE r.kind = "explorer"
  <2>1. RequestWeight(r) = 40 BY <1>2, Zenon DEF RequestWeight
  <2> QED BY <2>1
<1>3. CASE r.kind = "info"
  <2>1. RequestWeight(r) = IF r.type \in LightInfo THEN 2 ELSE IF r.type = "userRole" THEN 60 ELSE 20
        BY <1>3, Zenon DEF RequestWeight
  <2> QED BY <2>1
<1>4. CASE r.kind \notin {"action", "explorer", "info"}
  <2>1. RequestWeight(r) = 1 BY <1>4, Zenon DEF RequestWeight
  <2> QED BY <2>1
<1> QED BY <1>1, <1>2, <1>3, <1>4

\* Do begins the attempt of a request.
LEMMA DoStarts ==
    ASSUME NEW c \in Callers, NEW r, r.kind = "action" => r.items \in Nat, TransportDo(c, r)
    PROVE  Starts(c)
BY WeightPositive DEF TransportDo, Starts

\* An attempt that begins is queued, refused or goes out at once; the latter only
\* where nothing limits it.
LEMMA StartFacts ==
    ASSUME PathTyped, NEW c \in Callers, Starts(c)
    PROVE  /\ \E to \in LimiterPlaces : lpc' = [lpc EXCEPT ![c] = to]
           /\ UNCHANGED <<limiter, tickets>>
           /\ lpc'[c] = "granted" /\ ~config.ws => limiter \notin {"weighted", "interval"}
<1>0. lpc \in [Callers -> LimiterPlaces] /\ limiter \in {"window", "weighted", "interval", "none"} BY DEF PathTyped
<1>1. ASSUME NEW to \in LimiterPlaces, ReturnAtOnce(c, to)
      PROVE  lpc' = [lpc EXCEPT ![c] = to] /\ lpc'[c] = to /\ UNCHANGED <<limiter, tickets>>
      BY <1>0, <1>1 DEF ReturnAtOnce, history
<1>2. ASSUME NEW w, Enqueue(c, w)
      PROVE  lpc' = [lpc EXCEPT ![c] = "top"] /\ lpc'[c] = "top" /\ UNCHANGED <<limiter, tickets>>
      BY <1>0, <1>2 DEF Enqueue
<1>3. "granted" \in LimiterPlaces /\ "failed" \in LimiterPlaces /\ "top" \in LimiterPlaces BY DEF LimiterPlaces
<1>4. CASE config.ws /\ ReturnAtOnce(c, "granted") BY <1>1, <1>3, <1>4
<1>5. ASSUME NEW w \in Nat \ {0}, Wait(c, w)
      PROVE  \/ limiter \notin {"weighted", "interval"} /\ \E to \in LimiterPlaces : ReturnAtOnce(c, to)
             \/ ReturnAtOnce(c, "failed") \/ \E x : Enqueue(c, x)
  <2>1. CASE limiter = "none" BY <1>3, <1>5, <2>1 DEF Wait
  <2>2. CASE limiter = "window" BY <1>3, <1>5, <2>2 DEF Wait
  <2>3. CASE limiter = "weighted"
    <3>1. CASE c \in cancelled \/ (c \notin cancelled /\ w > Budget)
          BY <1>5, <2>3, <3>1 DEF Wait
    <3>2. CASE c \notin cancelled /\ ~(w > Budget) BY <1>5, <2>3, <3>2 DEF Wait
    <3> QED BY <3>1, <3>2
  <2>4. CASE limiter = "interval" BY <1>5, <2>4 DEF Wait
  <2> QED BY <1>0, <2>1, <2>2, <2>3, <2>4
<1>6. CASE \E w \in Nat \ {0} : Wait(c, w) BY <1>1, <1>2, <1>3, <1>5, <1>6
<1> QED BY <1>4, <1>6 DEF Starts

----------------------------------------------------------------------------
(* Every step keeps them there. *)

\* A step of caller c is nobody else's.
Alone(c) ==
    /\ \A d \in Callers \ {c} :
        /\ ipc'[d] = ipc[d] /\ lpc'[d] = lpc[d] /\ rpc'[d] = rpc[d] /\ req'[d] = req[d]
        /\ attempt'[d] = attempt[d] /\ tickets'[d] = tickets[d]
    /\ UNCHANGED <<limiter, config>>

\* A step of one caller on the request path leaves every other sound.
LEMMA OthersSound ==
    ASSUME OnPath, NEW c \in Callers, Alone(c)
    PROVE  \A d \in Callers \ {c} : Sound(d)'
<1> SUFFICES ASSUME NEW d \in Callers \ {c} PROVE Sound(d)' OBVIOUS
<1>1. Sound(d) BY DEF OnPath
<1>2. Policy' = Policy BY DEF Alone, Policy
<1>3. InPlace(d)' BY <1>1 DEF Sound, InPlace, Alone
<1>4. Ticketed(d)' BY <1>1 DEF Sound, Ticketed, Alone
<1>5. Counted(d)' BY <1>1, <1>2 DEF Sound, Counted, Alone
<1> QED BY <1>3, <1>4, <1>5 DEF Sound

\* A policy allows one attempt at least.
LEMMA PolicyFacts ==
    ASSUME config \in Configs
    PROVE  Policy.attempts \in Nat /\ Policy.attempts >= 1
<1>1. config.policy.attempts \in Int BY ResolverAssumption
<1> QED BY <1>1, BackoffAssumption DEF Policy

\* Call and Retry of a call, DialSucceeds of a manager: an attempt begins.
LEMMA StartSound ==
    ASSUME Base, OnPath, NEW c \in Callers, UNCHANGED resolverVars, Starts(c), IPC(c, "do"), UNCHANGED <<config, req>>,
           ipc[c] # "do", rpc[c] \in {"path", "fetch"},
           attempt' \in [Callers -> Nat], \A d \in Callers \ {c} : attempt'[d] = attempt[d],
           req[c].kind # "message" => attempt'[c] < (IF req[c].kind = "info" THEN Policy.attempts ELSE 1)
    PROVE  OnPath'
<1>0. /\ ipc \in [Callers -> PathPlaces] /\ lpc \in [Callers -> LimiterPlaces] /\ tickets \in [Callers -> Int]
      BY DEF OnPath, PathTyped
<1>1. /\ \E to \in LimiterPlaces : lpc' = [lpc EXCEPT ![c] = to]
      /\ UNCHANGED <<limiter, tickets>>
      /\ lpc'[c] = "granted" /\ ~config.ws => limiter \notin {"weighted", "interval"}
      BY StartFacts DEF OnPath
<1>2. Sound(c) BY DEF OnPath
<1>3. tickets[c] = 0 BY <1>2 DEF Sound, InPlace, Ticketed
<1>4. Policy' = Policy BY DEF Policy
<1>5. UNCHANGED rpc /\ ipc' = [ipc EXCEPT ![c] = "do"] BY DEF resolverVars, IPC
<1>6. ipc' \in [Callers -> PathPlaces] /\ ipc'[c] = "do" BY <1>0, <1>5 DEF PathPlaces
<1>7. PathTyped'
  <2>1. lpc' \in [Callers -> LimiterPlaces] BY <1>0, <1>1
  <2> QED BY <1>0, <1>1, <1>6, <2>1 DEF OnPath, PathTyped
<1>8. Alone(c) BY <1>0, <1>1, <1>5 DEF Alone
<1>9. InPlace(c)' BY <1>2, <1>5, <1>6 DEF Sound, InPlace
<1>10. Ticketed(c)' BY <1>1, <1>3 DEF Ticketed
<1>11. Counted(c)' BY <1>4, <1>5, <1>6 DEF Counted
<1> QED BY <1>7, <1>8, <1>9, <1>10, <1>11, OthersSound DEF OnPath, Sound

\* The end of an attempt, by whichever answer, error or pause: its admission is used.
LEMMA LandSound ==
    ASSUME Base, OnPath, NEW c \in Callers, UNCHANGED resolverVars, UNCHANGED <<config, req, limiter>>, ipc[c] = "do",
           NEW to \in {"ok", "error", "pause"}, IPC(c, to),
           (lpc[c] = "granted" /\ Landed(c)) \/ (lpc[c] = "failed" /\ lpc' = [lpc EXCEPT ![c] = "idle"] /\ UNCHANGED tickets),
           attempt' \in [Callers -> Nat], \A d \in Callers \ {c} : attempt'[d] = attempt[d],
           req[c].kind # "message" =>
              \/ to # "pause" /\ attempt'[c] = 0
              \/ to = "pause" /\ req[c].kind = "info" /\ attempt'[c] = attempt[c] /\ attempt[c] # Policy.attempts - 1
    PROVE  OnPath'
<1>0. /\ ipc \in [Callers -> PathPlaces] /\ lpc \in [Callers -> LimiterPlaces] /\ tickets \in [Callers -> Int]
      BY DEF OnPath, PathTyped
<1>1. lpc' = [lpc EXCEPT ![c] = "idle"] BY DEF Landed
<1>2. Sound(c) /\ rpc[c] \in {"path", "fetch"} BY DEF OnPath, Sound, InPlace
<1>3. tickets' \in [Callers -> Int] /\ tickets'[c] = 0 /\ \A d \in Callers \ {c} : tickets'[d] = tickets[d]
  <2>1. CASE lpc[c] = "failed" /\ UNCHANGED tickets BY <1>0, <1>2, <2>1 DEF Sound, Ticketed
  <2>2. CASE lpc[c] = "granted" /\ Landed(c)
    <3>1. tickets' = [tickets EXCEPT ![c] = IF limiter \in {"weighted", "interval"} /\ ~config.ws
                                            THEN tickets[c] - 1 ELSE 0]
          BY <2>2 DEF Landed
    <3>2. limiter \in {"weighted", "interval"} /\ ~config.ws => tickets[c] = 1
          BY <1>2, <2>2 DEF Sound, Ticketed
    <3> QED BY <1>0, <3>1, <3>2
  <2> QED BY <2>1, <2>2
<1>4. Policy' = Policy BY DEF Policy
<1>5. UNCHANGED rpc /\ ipc' = [ipc EXCEPT ![c] = to] BY DEF resolverVars, IPC
<1>6. ipc' \in [Callers -> PathPlaces] /\ ipc'[c] = to BY <1>0, <1>5 DEF PathPlaces
<1>7. PathTyped'
  <2>1. lpc' \in [Callers -> LimiterPlaces] /\ lpc'[c] = "idle" BY <1>0, <1>1 DEF LimiterPlaces
  <2> QED BY <1>3, <1>6, <2>1 DEF OnPath, PathTyped
<1>8. Alone(c) BY <1>0, <1>1, <1>3, <1>5 DEF Alone
<1>9. InPlace(c)' BY <1>0, <1>1, <1>2, <1>5, <1>6 DEF Sound, InPlace
<1>10. Ticketed(c)' BY <1>0, <1>1, <1>3 DEF Ticketed
<1>11. Counted(c)'
  <2>1. Policy.attempts \in Nat /\ Policy.attempts >= 1 /\ attempt[c] \in Nat BY PolicyFacts DEF Base, Typed, OnPath, PathTyped
  <2> QED BY <1>2, <1>4, <1>5, <1>6, <2>1 DEF Sound, Counted
<1> QED BY <1>7, <1>8, <1>9, <1>10, <1>11, OthersSound DEF OnPath, Sound

\* A step between two attempts: the pause is cut short, a manager dials.
LEMMA BetweenSound ==
    ASSUME Base, OnPath, NEW c \in Callers, UNCHANGED resolverVars, UNCHANGED <<config, req, limiterVars>>,
           ipc[c] \in {"pause", "dial"},
           NEW to \in {"error", "pause", "dial"}, IPC(c, to),
           to = "dial" => req[c].kind = "message",
           attempt' \in [Callers -> Nat], \A d \in Callers \ {c} : attempt'[d] = attempt[d],
           req[c].kind # "message" => to = "error" /\ attempt'[c] = 0
    PROVE  OnPath'
<1>0. ipc \in [Callers -> PathPlaces] BY DEF OnPath, PathTyped
<1>1. Sound(c) /\ rpc[c] \in {"path", "fetch"} /\ lpc[c] = "idle" BY DEF OnPath, Sound, InPlace
<1>2. UNCHANGED <<lpc, tickets, limiter>> BY DEF limiterVars, history
<1>3. Policy' = Policy BY DEF Policy
<1>4. UNCHANGED rpc /\ ipc' = [ipc EXCEPT ![c] = to] BY DEF resolverVars, IPC
<1>5. ipc' \in [Callers -> PathPlaces] /\ ipc'[c] = to BY <1>0, <1>4 DEF PathPlaces
<1>6. PathTyped' BY <1>2, <1>5 DEF OnPath, PathTyped
<1>7. Alone(c) BY <1>0, <1>2, <1>4 DEF Alone
<1>8. InPlace(c)' BY <1>1, <1>2, <1>4, <1>5 DEF Sound, InPlace
<1>9. Ticketed(c)' BY <1>1, <1>2 DEF Sound, Ticketed
<1>10. Counted(c)'
  <2>1. Policy.attempts \in Nat /\ Policy.attempts >= 1 BY PolicyFacts DEF Base, Typed
  <2> QED BY <1>1, <1>3, <1>4, <1>5, <2>1 DEF Sound, Counted
<1> QED BY <1>6, <1>7, <1>8, <1>9, <1>10, OthersSound DEF OnPath, Sound

\* The steps of a request.
LEMMA RequestSound ==
    ASSUME Base, OnPath, NEW c \in Callers, RequestStep(c), UNCHANGED resolverVars
    PROVE  OnPath'
<1>0. /\ UNCHANGED <<config, req>> /\ Sound(c)
      /\ ipc \in [Callers -> PathPlaces] /\ lpc \in [Callers -> LimiterPlaces] /\ attempt \in [Callers -> Nat]
      BY RequestFacts DEF Base, OnPath, PathTyped
<1>1. Policy.attempts \in Nat /\ Policy.attempts >= 1 BY PolicyFacts DEF Base, Typed
<1>2. [attempt EXCEPT ![c] = 0] \in [Callers -> Nat] /\ [attempt EXCEPT ![c] = 0][c] = 0
      /\ \A d \in Callers \ {c} : [attempt EXCEPT ![c] = 0][d] = attempt[d]
      BY <1>0
<1>3. [attempt EXCEPT ![c] = @ + 1] \in [Callers -> Nat] /\ [attempt EXCEPT ![c] = @ + 1][c] = attempt[c] + 1
      /\ \A d \in Callers \ {c} : [attempt EXCEPT ![c] = @ + 1][d] = attempt[d]
      BY <1>0
<1>4. ipc[c] \in {"call", "pause", "dial"} => ipc[c] # "do" /\ rpc[c] \in {"path", "fetch"}
      BY <1>0 DEF Sound, InPlace
<1>5. rpc[c] # "idle" => (req[c].kind = "action" => req[c].items \in Nat) BY <1>0 DEF Sound, InPlace
<1>6. CASE Call(c)
  <2>1. ipc[c] = "call" /\ TransportDo(c, req[c]) /\ IPC(c, "do") /\ UNCHANGED attempt BY <1>6 DEF Call
  <2>2. Starts(c) BY <1>4, <1>5, <2>1, DoStarts
  <2>3. req[c].kind # "message" => attempt[c] < (IF req[c].kind = "info" THEN Policy.attempts ELSE 1)
        BY <1>0, <1>4, <2>1 DEF Sound, Counted
  <2> QED BY <1>0, <1>4, <2>1, <2>2, <2>3, StartSound
<1>7. CASE NotAdmitted(c)
  <2>1. /\ ipc[c] = "do" /\ lpc[c] = "failed" /\ lpc' = [lpc EXCEPT ![c] = "idle"] /\ IPC(c, "error")
        /\ attempt' = [attempt EXCEPT ![c] = 0] /\ UNCHANGED <<tickets, limiter>>
        BY <1>7 DEF NotAdmitted, LimiterButPC
  <2> QED BY <1>0, <1>2, <2>1, LandSound
<1>8. CASE Answered(c) \/ Failed(c)
  <2>1. /\ ipc[c] = "do" /\ lpc[c] = "granted" /\ Landed(c) /\ (IPC(c, "ok") \/ IPC(c, "error"))
        /\ attempt' = [attempt EXCEPT ![c] = 0] /\ UNCHANGED limiter
        BY <1>8 DEF Answered, Failed, InFlight
  <2> QED BY <1>0, <1>2, <2>1, LandSound
<1>9. CASE Retryable(c)
  <2>1. /\ ipc[c] = "do" /\ lpc[c] = "granted" /\ Landed(c) /\ IPC(c, "pause")
        /\ req[c].kind = "info" /\ attempt[c] # Policy.attempts - 1 /\ UNCHANGED <<attempt, limiter>>
        BY <1>9 DEF Retryable, InFlight, LastAttempt, PauseFor, LimiterButPC
  <2> QED BY <1>0, <2>1, LandSound
<1>10. CASE Retry(c)
  <2>1. /\ ipc[c] = "pause" /\ req[c].kind = "info" /\ TransportDo(c, req[c]) /\ IPC(c, "do")
        /\ attempt' = [attempt EXCEPT ![c] = @ + 1]
        BY <1>10 DEF Retry, PauseOver
  <2>2. Starts(c) BY <1>4, <1>5, <2>1, DoStarts
  <2>3. attempt[c] + 1 < Policy.attempts BY <1>0, <1>4, <2>1 DEF Sound, Counted
  <2> QED BY <1>0, <1>3, <1>4, <2>1, <2>2, <2>3, StartSound
<1>11. CASE PauseCancelled(c)
  <2>1. /\ ipc[c] = "pause" /\ req[c].kind = "info" /\ IPC(c, "error") /\ UNCHANGED limiterVars
        /\ attempt' = [attempt EXCEPT ![c] = 0]
        BY <1>11 DEF PauseCancelled
  <2> QED BY <1>0, <1>2, <2>1, BetweenSound
<1>12. CASE DialFails(c)
  <2>1. ipc[c] = "dial" /\ IPC(c, "pause") /\ UNCHANGED <<limiterVars, attempt>>
        BY <1>12 DEF DialFails, waitReconnect, PauseFor
  <2>2. req[c].kind = "message" BY <1>0, <2>1 DEF Sound, InPlace
  <2> QED BY <1>0, <2>1, <2>2, BetweenSound
<1>13. CASE DialSucceeds(c)
  <2>1. ipc[c] = "dial" /\ IPC(c, "do") /\ Wait(c, 1) /\ attempt' = [attempt EXCEPT ![c] = 0]
        BY <1>13 DEF DialSucceeds
  <2>2. req[c].kind = "message" BY <1>0, <2>1 DEF Sound, InPlace
  <2>3. Starts(c) BY <2>1 DEF Starts
  <2> QED BY <1>0, <1>2, <1>4, <2>1, <2>2, <2>3, StartSound
<1>14. CASE Written(c) \/ ConnectionLost(c)
  <2>1. /\ ipc[c] = "do" /\ lpc[c] = "granted" /\ Landed(c) /\ (IPC(c, "ok") \/ IPC(c, "pause"))
        /\ req[c].kind = "message" /\ UNCHANGED <<attempt, limiter>>
        BY <1>14 DEF Written, ConnectionLost, InFlight, waitReconnect, PauseFor, LimiterButPC
  <2> QED BY <1>0, <2>1, LandSound
<1>15. CASE Redial(c)
  <2>1. /\ ipc[c] = "pause" /\ req[c].kind = "message" /\ IPC(c, "dial") /\ UNCHANGED limiterVars
        /\ attempt' = [attempt EXCEPT ![c] = @ + 1] \/ UNCHANGED attempt
        BY <1>15 DEF Redial
  <2>2. attempt' \in [Callers -> Nat] /\ \A d \in Callers \ {c} : attempt'[d] = attempt[d] BY <1>0, <1>3, <2>1
  <2> QED BY <1>0, <2>1, <2>2, BetweenSound
<1> QED BY <1>6, <1>7, <1>8, <1>9, <1>10, <1>11, <1>12, <1>13, <1>14, <1>15 DEF RequestStep

\* A step in the limiter's loop admits the waiter, or leaves it without a ticket.
LEMMA WaitFacts ==
    ASSUME NEW c \in Callers, WaitStep(c)
    PROVE  /\ lpc[c] \in {"top", "select"} /\ UNCHANGED limiter
           /\ \/ lpc' = [lpc EXCEPT ![c] = "granted"] /\ tickets' = [tickets EXCEPT ![c] = @ + 1]
              \/ UNCHANGED tickets /\ \E to \in {"top", "select", "failed"} : lpc' = [lpc EXCEPT ![c] = to]
<1>1. CASE WindowLocked(c) BY <1>1 DEF WindowLocked, Looping, Grant, Sleep, history
<1>2. CASE WeightedLocked(c) BY <1>2 DEF WeightedLocked, Looping, Grant, Sleep, history
<1>3. CASE IntervalLocked(c) BY <1>3 DEF IntervalLocked, Looping, Grant, Sleep, history
<1>4. CASE Awake(c) BY <1>4 DEF Awake, history
<1>5. CASE remove(c) BY <1>5 DEF remove, Leaving, Left
<1> QED BY <1>1, <1>2, <1>3, <1>4, <1>5 DEF WaitStep

\* The limiter's steps.
LEMMA WaitSound ==
    ASSUME Base, OnPath, NEW c \in Callers, WaitStep(c), UNCHANGED <<pathVars, resolverVars>>
    PROVE  OnPath'
<1>0. /\ UNCHANGED <<config, req, ipc, rpc, attempt, limiter>> /\ Sound(c) /\ lpc[c] \in {"top", "select"}
      /\ lpc \in [Callers -> LimiterPlaces] /\ tickets \in [Callers -> Int]
      BY WaitFacts DEF pathVars, resolverVars, OnPath, PathTyped
<1>1. ipc[c] = "do" /\ tickets[c] = 0 BY <1>0 DEF Sound, InPlace, Ticketed
<1>2. lpc' \in [Callers -> LimiterPlaces] /\ tickets' \in [Callers -> Int]
      /\ \A d \in Callers \ {c} : lpc'[d] = lpc[d] /\ tickets'[d] = tickets[d]
      BY <1>0, WaitFacts DEF LimiterPlaces
<1>3. IF lpc'[c] = "granted" THEN tickets'[c] = 1 ELSE tickets'[c] = 0 BY <1>0, <1>1, WaitFacts
<1>4. PathTyped' BY <1>0, <1>2 DEF OnPath, PathTyped
<1>5. Alone(c) BY <1>0, <1>2 DEF Alone
<1>6. InPlace(c)' BY <1>0, <1>1 DEF Sound, InPlace
<1>7. Ticketed(c)' BY <1>3 DEF Ticketed
<1>8. Counted(c)'
  <2>1. Policy' = Policy BY <1>0 DEF Policy
  <2> QED BY <1>0, <2>1 DEF Sound, Counted
<1> QED BY <1>4, <1>5, <1>6, <1>7, <1>8, OthersSound DEF OnPath, Sound

\* Begin: an unresolved request goes out, any other waits for the resolver.
LEMMA BeginSound ==
    ASSUME Base, OnPath, NEW c \in Callers, Begin(c)
    PROVE  OnPath'
<1>0. /\ rpc \in [Callers -> ResolverPlaces] /\ DOMAIN req = Callers /\ config \in Configs
      /\ ipc \in [Callers -> PathPlaces] /\ lpc \in [Callers -> LimiterPlaces] /\ attempt \in [Callers -> Nat]
      BY DEF Base, Typed, OnPath, PathTyped
<1>1. rpc[c] = "idle" /\ UNCHANGED <<attempt, config>> BY DEF Begin
<1>2. Sound(c) /\ ipc[c] = "idle" /\ lpc[c] = "idle" /\ attempt[c] = 0 /\ tickets[c] = 0
      BY <1>1 DEF OnPath, Sound, InPlace, Ticketed, Counted
<1>3. PICK r \in Requests(config, c) :
        /\ req' = [req EXCEPT ![c] = r]
        /\ CASE r.op = "send" ->
                  /\ RPC(c, "path")
                  /\ IF r.kind = "message" THEN IPC(c, "dial") /\ UNCHANGED limiterVars
                     ELSE IPC(c, "do") /\ TransportDo(c, r)
                  /\ UNCHANGED <<todo, result>>
             [] r.op # "send" /\ RefusedMarket(r) -> Finish(c, "error") /\ UNCHANGED <<ipc, todo, limiterVars>>
             [] OTHER -> /\ RPC(c, IF r.op = "cached" THEN "lookup" ELSE "demand")
                         /\ todo' = [todo EXCEPT ![c] = PlanOf(r)]
                         /\ UNCHANGED <<ipc, result, limiterVars>>
      BY DEF Begin
<1>4. r.kind = "action" => r.items \in Nat BY <1>0, ResolverAssumption
<1>5. Policy' = Policy /\ Policy.attempts \in Nat /\ Policy.attempts >= 1 BY <1>0, <1>1, PolicyFacts DEF Policy
<1>6. req'[c] = r /\ \A d \in Callers \ {c} : req'[d] = req[d] BY <1>0, <1>3
<1>7. CASE r.op = "send" /\ r.kind # "message"
  <2>1. RPC(c, "path") /\ IPC(c, "do") /\ TransportDo(c, r) BY <1>3, <1>7
  <2>2. /\ \E to \in LimiterPlaces : lpc' = [lpc EXCEPT ![c] = to]
        /\ UNCHANGED <<limiter, tickets>>
        /\ lpc'[c] = "granted" /\ ~config.ws => limiter \notin {"weighted", "interval"}
        BY <1>4, <2>1, DoStarts, StartFacts DEF OnPath
  <2>3. rpc'[c] = "path" /\ ipc'[c] = "do" /\ ipc' \in [Callers -> PathPlaces] BY <1>0, <2>1 DEF RPC, IPC, PathPlaces
  <2>4. lpc' \in [Callers -> LimiterPlaces] BY <1>0, <2>2
  <2>5. PathTyped' BY <1>1, <2>2, <2>3, <2>4 DEF OnPath, PathTyped
  <2>6. Alone(c) BY <1>0, <1>1, <1>6, <2>1, <2>2 DEF Alone, RPC, IPC
  <2>7. InPlace(c)' BY <1>4, <1>6, <2>3 DEF InPlace
  <2>8. Ticketed(c)' BY <1>1, <1>2, <2>2 DEF Ticketed
  <2>9. Counted(c)' BY <1>1, <1>2, <1>5, <2>3 DEF Counted
  <2> QED BY <2>5, <2>6, <2>7, <2>8, <2>9, OthersSound DEF OnPath, Sound
<1>8. CASE ~(r.op = "send" /\ r.kind # "message")
  <2>1. /\ UNCHANGED limiterVars
        /\ \/ RPC(c, "path") /\ IPC(c, "dial") /\ r.kind = "message"
           \/ UNCHANGED ipc /\ \E to \in {"done", "lookup", "demand"} : RPC(c, to)
    <3>1. CASE r.op = "send" BY <1>3, <1>8, <3>1
    <3>2. CASE r.op # "send" /\ RefusedMarket(r) BY <1>3, <3>2 DEF Finish
    <3>3. CASE r.op # "send" /\ ~RefusedMarket(r) BY <1>3, <3>3
    <3> QED BY <3>1, <3>2, <3>3
  <2>2. UNCHANGED <<lpc, tickets, limiter>> BY <2>1 DEF limiterVars, history
  <2>3. /\ ipc' \in [Callers -> PathPlaces]
        /\ \/ rpc'[c] = "path" /\ ipc'[c] = "dial" /\ r.kind = "message"
           \/ rpc'[c] \in {"done", "lookup", "demand"} /\ ipc'[c] = "idle"
        BY <1>0, <1>2, <2>1 DEF RPC, IPC, PathPlaces
  <2>4. PathTyped' BY <1>1, <2>2, <2>3 DEF OnPath, PathTyped
  <2>5. Alone(c) BY <1>0, <1>1, <1>6, <2>1, <2>2 DEF Alone, RPC, IPC
  <2>6. InPlace(c)' BY <1>2, <1>4, <1>6, <2>2, <2>3 DEF InPlace
  <2>7. Ticketed(c)' BY <1>1, <1>2, <2>2 DEF Sound, Ticketed
  <2>8. Counted(c)' BY <1>1, <1>2, <1>5, <2>3 DEF Counted
  <2> QED BY <2>4, <2>5, <2>6, <2>7, <2>8, OthersSound DEF OnPath, Sound
<1> QED BY <1>7, <1>8

\* A step of the resolver: between two requests, or into the next one.
LEMMA ResolverSound ==
    ASSUME Base, OnPath, NEW c \in Callers, rpc[c] \notin {"idle", "path", "done"}, ipc[c] \in {"idle", "ok", "error"},
           UNCHANGED <<limiterVars, config, req, attempt>>,
           \A d \in Callers \ {c} : rpc'[d] = rpc[d] /\ ipc'[d] = ipc[d],
           ipc' \in [Callers -> PathPlaces],
           rpc'[c] # "idle", ipc'[c] = "idle" \/ (ipc'[c] = "call" /\ rpc'[c] = "fetch")
    PROVE  OnPath'
<1>1. Sound(c) /\ lpc[c] = "idle" BY DEF OnPath, Sound, InPlace
<1>2. UNCHANGED <<lpc, tickets, limiter>> BY DEF limiterVars, history
<1>3. Policy' = Policy BY DEF Policy
<1>4. PathTyped' BY <1>2 DEF OnPath, PathTyped
<1>5. Alone(c) BY <1>2 DEF Alone
<1>6. InPlace(c)' BY <1>1, <1>2 DEF Sound, InPlace
<1>7. Ticketed(c)' BY <1>1, <1>2 DEF Sound, Ticketed
<1>8. req[c].kind = "info" BY DEF Base, Placed, PlacedAt
<1>9. Counted(c)' BY <1>1, <1>3, <1>8 DEF Sound, Counted
<1> QED BY <1>4, <1>5, <1>6, <1>7, <1>9, OthersSound DEF OnPath, Sound

\* The resolver's steps keep every call in place.
LEMMA ResolverSteps ==
    ASSUME Base, OnPath, NEW c \in Callers,
           Demand(c) \/ Fetch(c) \/ Join(c) \/ RefreshOptional(c) \/ Lookup(c) \/ Fill(c)
    PROVE  OnPath'
<1>0. /\ rpc \in [Callers -> ResolverPlaces] /\ ipc \in [Callers -> PathPlaces] /\ Sound(c)
      BY DEF Base, Typed, OnPath, PathTyped
<1>1. rpc[c] \notin {"path", "fetch"} => ipc[c] = "idle" BY <1>0 DEF Sound, InPlace
<1>2. CASE Demand(c)
  <2>1. rpc[c] = "demand" /\ UNCHANGED <<limiterVars, config, req, attempt>> BY <1>2 DEF Demand
  <2>2. todo[c] # <<>> /\ ipc[c] = "idle" BY <1>1, <2>1, Asking
  <2>3. CASE ((\E snap : Took(c, snap)) \/ Lacked(c)) /\ UNCHANGED ipc
    <3>1. rpc'[c] # "idle" /\ \A d \in Callers \ {c} : rpc'[d] = rpc[d] BY <2>1, <2>2, <2>3, NextPlace
    <3> QED BY <1>0, <2>1, <2>2, <2>3, <3>1, ResolverSound
  <2>4. CASE RPC(c, "join") /\ UNCHANGED ipc
    <3>1. rpc'[c] = "join" /\ \A d \in Callers \ {c} : rpc'[d] = rpc[d] BY <1>0, <2>4 DEF RPC
    <3> QED BY <1>0, <2>1, <2>2, <2>4, <3>1, ResolverSound
  <2>5. CASE IPC(c, "call") /\ RPC(c, "fetch")
    <3>1. /\ rpc'[c] = "fetch" /\ ipc'[c] = "call" /\ ipc' \in [Callers -> PathPlaces]
          /\ \A d \in Callers \ {c} : rpc'[d] = rpc[d] /\ ipc'[d] = ipc[d]
          BY <1>0, <2>5 DEF RPC, IPC, PathPlaces
    <3> QED BY <2>1, <2>2, <3>1, ResolverSound
  <2> QED BY <1>2, <2>3, <2>4, <2>5, DemandCases
<1>3. CASE Fetch(c)
  <2>1. rpc[c] = "fetch" /\ ipc[c] \in {"ok", "error"} /\ UNCHANGED <<limiterVars, config, req, attempt>>
        BY <1>3 DEF Fetch
  <2>2. todo[c] # <<>> BY <2>1, Asking
  <2>3. CASE ((\E snap : Took(c, snap)) \/ Lacked(c)) /\ IPC(c, "idle")
    <3>1. rpc'[c] # "idle" /\ \A d \in Callers \ {c} : rpc'[d] = rpc[d] BY <2>1, <2>2, <2>3, NextPlace
    <3>2. ipc'[c] = "idle" /\ ipc' \in [Callers -> PathPlaces] /\ \A d \in Callers \ {c} : ipc'[d] = ipc[d]
          BY <1>0, <2>3 DEF IPC, PathPlaces
    <3> QED BY <2>1, <3>1, <3>2, ResolverSound
  <2>4. CASE UNCHANGED rpc /\ IPC(c, "call")
    <3>1. ipc'[c] = "call" /\ ipc' \in [Callers -> PathPlaces] /\ \A d \in Callers \ {c} : ipc'[d] = ipc[d]
          BY <1>0, <2>4 DEF IPC, PathPlaces
    <3> QED BY <2>1, <2>4, <3>1, ResolverSound
  <2> QED BY <1>3, <2>3, <2>4 DEF Fetch, FetchFailed, FetchSucceeded
<1>4. CASE Join(c)
  <2>1. /\ rpc[c] = "join" /\ UNCHANGED <<limiterVars, config, req, attempt, ipc>>
        /\ (\E snap : Took(c, snap)) \/ Lacked(c)
        BY <1>4, JoinCases DEF Join, pathVars
  <2>2. todo[c] # <<>> BY <2>1, Asking
  <2>3. rpc'[c] # "idle" /\ \A d \in Callers \ {c} : rpc'[d] = rpc[d] BY <2>1, <2>2, NextPlace
  <2> QED BY <1>0, <1>1, <2>1, <2>3, ResolverSound
<1>5. CASE RefreshOptional(c) \/ Lookup(c) \/ Fill(c)
  <2>1. /\ rpc[c] \in {"optional", "lookup", "fill"} /\ UNCHANGED <<limiterVars, config, req, attempt, ipc>>
        /\ \E to \in {"done", "demand"} : rpc' = [rpc EXCEPT ![c] = to]
        BY <1>5 DEF RefreshOptional, Lookup, Fill, Finish, RPC, pathVars
  <2>2. rpc'[c] # "idle" /\ \A d \in Callers \ {c} : rpc'[d] = rpc[d] BY <1>0, <2>1
  <2> QED BY <1>0, <1>1, <2>1, <2>2, ResolverSound
<1> QED BY <1>2, <1>3, <1>4, <1>5

\* Contexts, the server and the clock leave every call where it is.
LEMMA ElsewhereSound ==
    ASSUME Base, OnPath, UNCHANGED <<ipc, lpc, rpc, req, attempt, tickets, limiter, config>>
    PROVE  OnPath'
<1>1. Policy' = Policy BY DEF Policy
<1>2. PathTyped' BY DEF OnPath, PathTyped
<1>3. ASSUME NEW c \in Callers PROVE Sound(c)'
  <2>1. Sound(c) BY DEF OnPath
  <2> QED BY <1>1, <2>1 DEF Sound, InPlace, Ticketed, Counted
<1> QED BY <1>2, <1>3 DEF OnPath

\* The initial state: nobody calls.
LEMMA OnPathInit == Init => OnPath
<1> SUFFICES ASSUME Init PROVE OnPath OBVIOUS
<1>1. PathTyped BY ResolverAssumption DEF Init, PathInit, LimiterInit, PathTyped, PathPlaces, LimiterPlaces
<1>2. ASSUME NEW c \in Callers PROVE Sound(c)
      BY DEF Init, PathInit, LimiterInit, Sound, InPlace, Ticketed, Counted
<1> QED BY <1>1, <1>2 DEF OnPath

\* Every step keeps every call in place, its attempts counted and admitted.
LEMMA OnPathStep == Base /\ OnPath /\ [Next]_vars => OnPath'
<1> SUFFICES ASSUME Base, OnPath, [Next]_vars PROVE OnPath' OBVIOUS
<1>1. ASSUME NEW c \in Callers, CallerStep(c) PROVE OnPath'
      BY <1>1, BeginSound, ResolverSteps, RequestSound, WaitSound DEF CallerStep
<1>2. ASSUME NEW c \in Callers, Cancel(c) PROVE OnPath'
      BY <1>2, ElsewhereSound DEF Cancel, limiterVars, history, pathVars, resolverVars
<1>3. CASE ServerUpdates BY <1>3, ElsewhereSound DEF ServerUpdates, limiterVars, history, resolverVars
<1>4. CASE ClockTick BY <1>4, ElsewhereSound DEF ClockTick, limiterVars, history, pathVars, resolverVars
<1>5. CASE UNCHANGED vars BY <1>5, ElsewhereSound DEF vars, limiterVars, history, pathVars, resolverVars
<1> QED BY <1>1, <1>2, <1>3, <1>4, <1>5 DEF Next

\* Client.call and the transports: an attempt holds one admission of its own, the
\* first and every retry; actions and Explorer requests are sent once, an Info call
\* at most as often as its policy says.
THEOREM EveryAttemptAdmitted == Spec => []AttemptsAdmitted
<1>1. Base /\ OnPath => AttemptsAdmitted
  <2> SUFFICES ASSUME OnPath, NEW c \in Callers, req[c].op # "none", req[c].kind # "message"
               PROVE  /\ tickets[c] \in 0..1
                      /\ limiter \in {"weighted", "interval"} /\ ~config.ws /\ InFlight(c) => tickets[c] = 1
                      /\ attempt[c] < (IF req[c].kind = "info" THEN Policy.attempts ELSE 1)
      BY DEF AttemptsAdmitted
  <2>1. Sound(c) BY DEF OnPath
  <2>2. rpc[c] # "idle" BY <2>1 DEF Sound, InPlace, NoRequest
  <2> QED BY <2>1, <2>2 DEF Sound, Ticketed, Counted, InFlight
<1> QED BY <1>1, BaseInit, BaseStep, OnPathInit, OnPathStep, PTL DEF Spec

----------------------------------------------------------------------------
(* First in, first out. *)

\* What a step may do to the limiter: nothing, begin an attempt, end one with or
\* without a surcharge, report a failure, or turn the loop of a waiter.
Ends(c) ==
    /\ lpc[c] = "granted" /\ Landed(c) /\ UNCHANGED <<limiter, weight, timer, ahead>>
    /\ UNCHANGED <<limiterState, woken, spent>> \/ \E w \in Nat : Charge(w)
Reports(c) == lpc[c] = "failed" /\ lpc' = [lpc EXCEPT ![c] = "idle"] /\ UNCHANGED <<tickets, LimiterButPC>>

\* OfficialWeightPolicy.ResponseWeight: a surcharge is a number.
LEMMA SurchargeNat ==
    ASSUME NEW r, NEW items \in Items
    PROVE  ResponseWeight(r, items) \in Nat
<1>0. items \in Nat /\ items \div 20 \in Nat /\ items \div 60 \in Nat
  <2>1. items \in Nat BY PathAssumption
  <2>2. \A n \in Nat : n \div 20 \in Nat /\ n \div 60 \in Nat OBVIOUS
  <2> QED BY <2>1, <2>2
<1> DEFINE one == r.kind = "explorer" /\ r.type = "blockList"
           two == r.kind = "info" /\ r.type \in PerTwenty
           three == r.kind = "info" /\ r.type = "candleSnapshot"
<1>1. "candleSnapshot" \notin PerTwenty BY DEF PerTwenty
<1>2. CASE one
  <2>1. ResponseWeight(r, items) = items BY <1>2, Zenon DEF ResponseWeight
  <2> QED BY <1>0, <2>1
<1>3. CASE two
  <2>1. ResponseWeight(r, items) = items \div 20 BY <1>1, <1>3, Zenon DEF ResponseWeight
  <2> QED BY <1>0, <2>1
<1>4. CASE three
  <2>1. ResponseWeight(r, items) = items \div 60 BY <1>1, <1>4, Zenon DEF ResponseWeight
  <2> QED BY <1>0, <2>1
<1>5. CASE ~one /\ ~two /\ ~three
  <2>1. ResponseWeight(r, items) = 0 BY <1>5, Zenon DEF ResponseWeight
  <2> QED BY <2>1
<1> QED BY <1>2, <1>3, <1>4, <1>5

\* Every step, as the limiter sees it.
LEMMA LimiterSteps ==
    ASSUME Base, OnPath, [Next]_vars
    PROVE  \/ UNCHANGED limiterVars
           \/ /\ UNCHANGED now
              /\ \E c \in Callers : \/ lpc[c] = "idle" /\ Starts(c)
                                    \/ Ends(c) \/ Reports(c) \/ WaitStep(c)
<1>1. ASSUME NEW c \in Callers, RequestStep(c)
      PROVE  UNCHANGED limiterVars \/ (UNCHANGED now /\ ((lpc[c] = "idle" /\ Starts(c)) \/ Ends(c) \/ Reports(c)))
  <2>0. Sound(c) /\ UNCHANGED now BY <1>1, RequestFacts DEF OnPath, Base
  <2>1. ipc[c] \in {"call", "pause", "dial"} =>
            lpc[c] = "idle" /\ (req[c].kind = "action" => req[c].items \in Nat)
        BY <2>0 DEF Sound, InPlace
  <2>2. CASE Call(c) \/ Retry(c)
    <3>1. TransportDo(c, req[c]) /\ ipc[c] \in {"call", "pause"} BY <2>2 DEF Call, Retry, PauseOver
    <3> QED BY <2>0, <2>1, <3>1, DoStarts
  <2>3. CASE DialSucceeds(c) BY <2>0, <2>1, <2>3 DEF DialSucceeds, Starts
  <2>4. CASE NotAdmitted(c) BY <2>0, <2>4 DEF NotAdmitted, Reports
  <2>5. CASE Answered(c) \/ Failed(c)
    <3>1. ASSUME Surcharge(c) PROVE \E w \in Nat : Charge(w) BY <3>1, SurchargeNat DEF Surcharge
    <3>2. UNCHANGED <<limiterState, woken, spent>> \/ Surcharge(c) BY <2>5 DEF Answered, Failed
    <3>3. lpc[c] = "granted" /\ Landed(c) /\ UNCHANGED <<limiter, weight, timer, ahead>>
          BY <2>5 DEF Answered, Failed, InFlight
    <3> QED BY <2>0, <3>1, <3>2, <3>3 DEF Ends
  <2>6. CASE Retryable(c) \/ Written(c) \/ ConnectionLost(c)
        BY <2>0, <2>6 DEF Retryable, Written, ConnectionLost, InFlight, Ends, LimiterButPC
  <2>7. CASE PauseCancelled(c) \/ DialFails(c) \/ Redial(c) BY <2>7 DEF PauseCancelled, DialFails, Redial
  <2> QED BY <1>1, <2>2, <2>3, <2>4, <2>5, <2>6, <2>7 DEF RequestStep
<1>2. ASSUME NEW c \in Callers, Begin(c) PROVE UNCHANGED limiterVars \/ (UNCHANGED now /\ lpc[c] = "idle" /\ Starts(c))
  <2>0. rpc[c] = "idle" /\ UNCHANGED now BY <1>2 DEF Begin
  <2>1. Sound(c) BY DEF OnPath
  <2>2. lpc[c] = "idle" BY <2>0, <2>1 DEF Sound, InPlace
  <2>3. PICK r \in Requests(config, c) :
          CASE r.op = "send" ->
                  /\ RPC(c, "path")
                  /\ IF r.kind = "message" THEN IPC(c, "dial") /\ UNCHANGED limiterVars
                     ELSE IPC(c, "do") /\ TransportDo(c, r)
                  /\ UNCHANGED <<todo, result>>
             [] r.op # "send" /\ RefusedMarket(r) -> Finish(c, "error") /\ UNCHANGED <<ipc, todo, limiterVars>>
             [] OTHER -> /\ RPC(c, IF r.op = "cached" THEN "lookup" ELSE "demand")
                         /\ todo' = [todo EXCEPT ![c] = PlanOf(r)]
                         /\ UNCHANGED <<ipc, result, limiterVars>>
        BY <1>2 DEF Begin
  <2>4. r.kind = "action" => r.items \in Nat BY ResolverAssumption DEF Base, Typed
  <2>5. UNCHANGED limiterVars \/ TransportDo(c, r)
    <3>1. CASE r.op = "send" BY <2>3, <3>1
    <3>2. CASE r.op # "send" /\ RefusedMarket(r) BY <2>3, <3>2
    <3>3. CASE r.op # "send" /\ ~RefusedMarket(r) BY <2>3, <3>3
    <3> QED BY <3>1, <3>2, <3>3
  <2> QED BY <2>0, <2>2, <2>4, <2>5, DoStarts
<1>3. \A c \in Callers : Demand(c) \/ Fetch(c) \/ Join(c) \/ RefreshOptional(c) \/ Lookup(c) \/ Fill(c) \/ Cancel(c)
        => UNCHANGED limiterVars
      BY DEF Demand, Fetch, Join, RefreshOptional, Lookup, Fill, Cancel
<1>4. ServerUpdates \/ ClockTick \/ UNCHANGED vars => UNCHANGED limiterVars BY DEF ServerUpdates, ClockTick, vars
<1> QED BY <1>1, <1>2, <1>3, <1>4 DEF Next, CallerStep

\* The FIFO limiters queue their waiters, each behind those that came before it.
InLine ==
    /\ \A i, j \in DOMAIN queue : queue[i] = queue[j] => i = j
    /\ limiter \notin {"weighted", "interval"} => queue = <<>>
    /\ limiter \in {"weighted", "interval"} => \A c \in Callers : c \in Waiters <=> Queued(c)
    /\ \A c \in Callers : ~Queued(c) => ahead[c] = {}
    /\ \A k \in DOMAIN queue : ahead[queue[k]] = {queue[j] : j \in 1..k - 1}

QueueTyped == queue \in Seq(Callers) /\ ahead \in [Callers -> SUBSET Callers]
FIFO == QueueTyped /\ InLine

\* The queue without one of its waiters.
LEMMA RemoveAtFacts ==
    ASSUME NEW S, NEW s \in Seq(S), NEW i \in DOMAIN s
    PROVE  /\ RemoveAt(s, i) \in Seq(S) /\ Len(RemoveAt(s, i)) = Len(s) - 1
           /\ \A k \in 1..Len(s) - 1 : RemoveAt(s, i)[k] = IF k < i THEN s[k] ELSE s[k + 1]
<1>1. i \in 1..Len(s) /\ Len(s) \in Nat OBVIOUS
<1>2. SubSeq(s, 1, i - 1) \in Seq(S) /\ Len(SubSeq(s, 1, i - 1)) = i - 1
      /\ \A k \in 1..i - 1 : SubSeq(s, 1, i - 1)[k] = s[k]
      BY <1>1
<1>3. SubSeq(s, i + 1, Len(s)) \in Seq(S) /\ Len(SubSeq(s, i + 1, Len(s))) = Len(s) - i
      /\ \A k \in 1..Len(s) - i : SubSeq(s, i + 1, Len(s))[k] = s[i + k]
      BY <1>1
<1> DEFINE a == SubSeq(s, 1, i - 1)
           b == SubSeq(s, i + 1, Len(s))
<1>4. RemoveAt(s, i) = a \o b BY DEF RemoveAt
<1> HIDE DEF a, b
<1>5. a \in Seq(S) /\ b \in Seq(S) /\ Len(a) = i - 1 /\ Len(b) = Len(s) - i BY <1>2, <1>3 DEF a, b
<1>6. a \o b \in Seq(S) /\ Len(a \o b) = Len(s) - 1 BY <1>1, <1>5
<1>7. ASSUME NEW k \in 1..Len(s) - 1 PROVE (a \o b)[k] = IF k <= Len(a) THEN a[k] ELSE b[k - Len(a)]
  <2>1. \A m \in 1..Len(a) + Len(b) : (a \o b)[m] = IF m <= Len(a) THEN a[m] ELSE b[m - Len(a)]
    <3>1. a \in Seq(S) /\ b \in Seq(S) BY <1>5
    <3> QED BY <3>1
  <2>2. k \in 1..Len(a) + Len(b) BY <1>1, <1>5
  <2> QED BY <2>1, <2>2
<1>8. ASSUME NEW k \in 1..Len(s) - 1 PROVE (a \o b)[k] = IF k < i THEN s[k] ELSE s[k + 1]
  <2>1. CASE k < i BY <1>1, <1>2, <1>5, <1>7, <2>1 DEF a
  <2>2. CASE ~(k < i)
    <3>1. k - Len(a) \in 1..Len(s) - i /\ i + (k - Len(a)) = k + 1 BY <1>1, <1>5, <2>2
    <3>2. ~(k <= Len(a)) BY <1>1, <1>5, <2>2
    <3>3. (a \o b)[k] = b[k - Len(a)] BY <1>7, <3>2
    <3> QED BY <1>3, <2>2, <3>1, <3>3 DEF b
  <2> QED BY <2>1, <2>2
<1> QED BY <1>4, <1>6, <1>8

\* A waiter leaves the queue, admitted or not: the others keep their order.
LEMMA LeavesQueue ==
    ASSUME FIFO, NEW c \in Callers, NEW i \in DOMAIN queue, queue[i] = c, limiter \in {"weighted", "interval"},
           queue' \in Seq(Callers), Len(queue') = Len(queue) - 1,
           \A k \in 1..Len(queue) - 1 : queue'[k] = IF k < i THEN queue[k] ELSE queue[k + 1],
           ahead' = [d \in Callers |-> IF d = c THEN {} ELSE ahead[d] \ {c}],
           lpc \in [Callers -> LimiterPlaces], UNCHANGED limiter,
           NEW to \in {"granted", "failed"}, lpc' = [lpc EXCEPT ![c] = to]
    PROVE  FIFO'
<1> DEFINE At(k) == IF k < i THEN k ELSE k + 1
           m == Len(queue) - 1
<1>0. queue \in Seq(Callers) /\ ahead \in [Callers -> SUBSET Callers] BY DEF FIFO, QueueTyped
<1>1. Len(queue) \in Nat /\ DOMAIN queue = 1..Len(queue) /\ i \in 1..Len(queue) /\ DOMAIN queue' = 1..m
      BY <1>0
<1>2. \A k \in 1..m : At(k) \in 1..Len(queue) /\ At(k) # i /\ queue'[k] = queue[At(k)] BY <1>1
<1>3. \A j \in 1..Len(queue) : j # i => \E k \in 1..m : At(k) = j
  <2> TAKE j \in 1..Len(queue)
  <2> HAVE j # i
  <2>1. CASE j < i BY <1>1, <2>1
  <2>2. CASE j > i
    <3>1. j - 1 \in 1..m /\ At(j - 1) = j BY <1>1, <2>2
    <3> QED BY <3>1
  <2> QED BY <1>1, <2>1, <2>2
<1>4. \A k, l \in 1..m : (k < l <=> At(k) < At(l)) /\ (At(k) = At(l) => k = l) BY <1>1
<1>5. \A j, k \in 1..Len(queue) : queue[j] = queue[k] => j = k BY <1>1 DEF FIFO, InLine
<1> HIDE DEF At, m
<1>6. ahead' \in [Callers -> SUBSET Callers] /\ \A d \in Callers : ahead'[d] = IF d = c THEN {} ELSE ahead[d] \ {c}
  <2>1. \A d \in Callers : (IF d = c THEN {} ELSE ahead[d] \ {c}) \in SUBSET Callers BY <1>0
  <2> QED BY <2>1
<1>7. \A d \in Callers : Queued(d)' <=> Queued(d) /\ d # c
  <2> SUFFICES ASSUME NEW d \in Callers PROVE (\E k \in DOMAIN queue' : queue'[k] = d) <=> (\E k \in DOMAIN queue : queue[k] = d) /\ d # c
      BY DEF Queued
  <2>1. ASSUME NEW k \in DOMAIN queue', queue'[k] = d PROVE (\E j \in DOMAIN queue : queue[j] = d) /\ d # c
        BY <1>1, <1>2, <1>5, <2>1
  <2>2. ASSUME NEW j \in DOMAIN queue, queue[j] = d, d # c PROVE \E k \in DOMAIN queue' : queue'[k] = d
        BY <1>1, <1>2, <1>3, <2>2
  <2> QED BY <2>1, <2>2
<1>8. \A k, l \in DOMAIN queue' : queue'[k] = queue'[l] => k = l BY <1>1, <1>2, <1>4, <1>5
<1>9. \A d \in Callers : (d \in Waiters)' <=> Queued(d)'
  <2>1. \A d \in Callers : d \in Waiters <=> Queued(d) BY DEF FIFO, InLine
  <2>2. \A d \in Callers : (d \in Waiters)' <=> d \in Waiters /\ d # c BY DEF Waiters
  <2> QED BY <1>7, <2>1, <2>2
<1>10. \A d \in Callers : ~Queued(d)' => ahead'[d] = {} BY <1>6, <1>7 DEF FIFO, InLine
<1>11. ASSUME NEW k \in DOMAIN queue' PROVE ahead'[queue'[k]] = {queue'[j] : j \in 1..k - 1}
  <2>1. k \in 1..m /\ At(k) \in 1..Len(queue) /\ queue'[k] = queue[At(k)] /\ At(k) # i BY <1>1, <1>2, <1>11
  <2>2. queue[At(k)] \in Callers /\ queue[At(k)] # c BY <1>0, <1>1, <1>5, <2>1
  <2>3. ahead[queue[At(k)]] = {queue[j] : j \in 1..At(k) - 1} BY <1>1, <2>1 DEF FIFO, InLine
  <2>4. ahead'[queue'[k]] = {queue[j] : j \in 1..At(k) - 1} \ {c} BY <1>6, <2>1, <2>2, <2>3
  <2>5. m \in Int /\ k \in Int /\ At(k) \in Int BY <1>1, <2>1 DEF m
  <2>6. ASSUME NEW j \in 1..k - 1 PROVE queue'[j] \in {queue[l] : l \in 1..At(k) - 1} \ {c}
    <3>1. j \in 1..m /\ j < k BY <2>1, <2>5, <2>6
    <3>2. At(j) \in 1..Len(queue) /\ At(j) # i /\ queue'[j] = queue[At(j)] /\ At(j) < At(k) BY <1>2, <1>4, <2>1, <3>1
    <3>3. queue[At(j)] # c BY <1>1, <1>5, <3>2
    <3>4. At(j) \in 1..At(k) - 1 BY <1>1, <2>5, <3>2
    <3> QED BY <3>2, <3>3, <3>4
  <2>7. ASSUME NEW l \in 1..At(k) - 1, queue[l] # c PROVE \E j \in 1..k - 1 : queue'[j] = queue[l]
    <3>1. l \in 1..Len(queue) /\ l # i /\ l < At(k) BY <1>1, <2>1, <2>5, <2>7
    <3>2. PICK j \in 1..m : At(j) = l BY <1>3, <3>1
    <3>3. j < k BY <1>4, <2>1, <3>1, <3>2
    <3>4. j \in 1..k - 1 BY <2>5, <3>3
    <3> QED BY <1>2, <3>2, <3>4
  <2>8. {queue'[j] : j \in 1..k - 1} \subseteq {queue[l] : l \in 1..At(k) - 1} \ {c} BY <2>6
  <2>9. {queue[l] : l \in 1..At(k) - 1} \ {c} \subseteq {queue'[j] : j \in 1..k - 1}
    <3> SUFFICES ASSUME NEW l \in 1..At(k) - 1, queue[l] # c PROVE queue[l] \in {queue'[j] : j \in 1..k - 1} OBVIOUS
    <3>1. PICK j \in 1..k - 1 : queue'[j] = queue[l] BY <2>7
    <3> QED BY <3>1
  <2> QED BY <2>4, <2>8, <2>9
<1>12. InLine' BY <1>8, <1>9, <1>10, <1>11 DEF InLine
<1> QED BY <1>6, <1>12 DEF FIFO, QueueTyped

\* Enqueue: the newcomer is behind everybody who waits.
LEMMA JoinsQueue ==
    ASSUME FIFO, PathTyped, NEW c \in Callers, NEW w, Enqueue(c, w), limiter \in {"weighted", "interval"}, lpc[c] = "idle"
    PROVE  FIFO'
<1>0. /\ queue \in Seq(Callers) /\ ahead \in [Callers -> SUBSET Callers] /\ lpc \in [Callers -> LimiterPlaces]
      BY DEF FIFO, QueueTyped, PathTyped
<1>1. /\ queue' = Append(queue, c) /\ ahead' = [ahead EXCEPT ![c] = Waiters]
      /\ lpc' = [lpc EXCEPT ![c] = "top"] /\ UNCHANGED limiter
      BY DEF Enqueue
<1> DEFINE n == Len(queue)
<1>2. n \in Nat /\ DOMAIN queue = 1..n /\ DOMAIN queue' = 1..n + 1 /\ queue' \in Seq(Callers)
      /\ queue'[n + 1] = c /\ \A k \in 1..n : queue'[k] = queue[k]
      BY <1>0, <1>1
<1> HIDE DEF n
<1>3. \A d \in Callers : d \in Waiters <=> Queued(d) BY DEF FIFO, InLine
<1>4. ~Queued(c) BY <1>3 DEF Waiters
<1>5. \A k \in 1..n : queue[k] # c /\ queue[k] \in Callers BY <1>0, <1>2, <1>4 DEF Queued
<1>6. ahead' \in [Callers -> SUBSET Callers] /\ ahead'[c] = Waiters /\ \A d \in Callers \ {c} : ahead'[d] = ahead[d]
  <2>1. Waiters \in SUBSET Callers BY DEF Waiters
  <2> QED BY <1>0, <1>1, <2>1
<1>7. \A k, l \in DOMAIN queue' : queue'[k] = queue'[l] => k = l
  <2>1. \A k, l \in 1..n : queue[k] = queue[l] => k = l BY <1>2 DEF FIFO, InLine
  <2>2. \A k \in 1..n + 1 : k \in 1..n \/ k = n + 1 BY <1>2
  <2> QED BY <1>2, <1>5, <2>1, <2>2
<1>8. \A d \in Callers : Queued(d)' <=> Queued(d) \/ d = c
  <2>1. \A k \in 1..n : k \in 1..n + 1 BY <1>2
  <2>2. \A k \in 1..n + 1 : k \in 1..n \/ k = n + 1 BY <1>2
  <2>3. n + 1 \in 1..n + 1 BY <1>2
  <2> QED BY <1>2, <2>1, <2>2, <2>3 DEF Queued
<1>9. \A d \in Callers : (d \in Waiters)' <=> Queued(d)'
  <2>1. \A d \in Callers : (d \in Waiters)' <=> d \in Waiters \/ d = c BY <1>0, <1>1 DEF Waiters
  <2> QED BY <1>3, <1>8, <2>1
<1>10. \A d \in Callers : ~Queued(d)' => ahead'[d] = {} BY <1>6, <1>8 DEF FIFO, InLine
<1>11. ASSUME NEW k \in DOMAIN queue' PROVE ahead'[queue'[k]] = {queue'[j] : j \in 1..k - 1}
  <2>1. CASE k = n + 1
    <3>1. Waiters = {queue[j] : j \in 1..n}
      <4>1. Waiters \subseteq {queue[j] : j \in 1..n} BY <1>2, <1>3 DEF Waiters, Queued
      <4>2. {queue[j] : j \in 1..n} \subseteq Waiters
        <5> SUFFICES ASSUME NEW j \in 1..n PROVE queue[j] \in Waiters OBVIOUS
        <5>1. Queued(queue[j]) /\ queue[j] \in Callers BY <1>2, <1>5 DEF Queued
        <5> QED BY <1>3, <5>1
      <4> QED BY <4>1, <4>2
    <3>2. {queue[j] : j \in 1..n} = {queue'[j] : j \in 1..n} BY <1>2
    <3>3. k - 1 = n BY <1>2, <2>1
    <3> QED BY <1>2, <1>6, <2>1, <3>1, <3>2, <3>3
  <2>2. CASE k \in 1..n
    <3>1. queue'[k] = queue[k] /\ ahead'[queue[k]] = ahead[queue[k]] BY <1>2, <1>5, <1>6, <2>2
    <3>2. ahead[queue[k]] = {queue[j] : j \in 1..k - 1} BY <1>2, <2>2 DEF FIFO, InLine
    <3>3. \A j \in 1..k - 1 : j \in 1..n BY <1>2, <2>2
    <3>4. {queue[j] : j \in 1..k - 1} = {queue'[j] : j \in 1..k - 1} BY <1>2, <3>3
    <3> QED BY <3>1, <3>2, <3>4
  <2> QED BY <1>2, <2>1, <2>2
<1>12. InLine' BY <1>1, <1>7, <1>9, <1>10, <1>11 DEF InLine
<1> QED BY <1>2, <1>6, <1>12 DEF FIFO, QueueTyped

\* Steps after which the same callers wait.
LEMMA SameQueue ==
    ASSUME FIFO, UNCHANGED <<queue, ahead, limiter>>,
           limiter \in {"weighted", "interval"} =>
               \A d \in Callers : lpc'[d] \in {"top", "select"} <=> lpc[d] \in {"top", "select"}
    PROVE  FIFO'
<1>1. QueueTyped' BY DEF FIFO, QueueTyped
<1>2. \A d \in Callers : Queued(d)' = Queued(d) BY DEF Queued
<1>3. limiter \in {"weighted", "interval"} => \A d \in Callers : (d \in Waiters)' <=> Queued(d)'
      BY <1>2 DEF FIFO, InLine, Waiters
<1>4. InLine' BY <1>2, <1>3 DEF FIFO, InLine
<1> QED BY <1>1, <1>4 DEF FIFO

\* Without a FIFO limiter nobody is ahead of anybody, and nobody leaves a queue.
LEMMA NoQueue ==
    ASSUME FIFO, limiter \notin {"weighted", "interval"}, UNCHANGED <<queue, limiter>>,
           NEW c \in Callers, (Departed(c, ahead[c]) \/ Departed(c, {})) \/ UNCHANGED ahead
    PROVE  FIFO'
<1>0. queue = <<>> /\ ahead \in [Callers -> SUBSET Callers] BY DEF FIFO, InLine, QueueTyped
<1>1. \A d \in Callers : ~Queued(d) BY <1>0 DEF Queued
<1>2. \A d \in Callers : ahead[d] = {} BY <1>1 DEF FIFO, InLine
<1>3. ahead' = ahead
  <2>1. CASE Departed(c, ahead[c]) \/ Departed(c, {})
    <3>1. ahead' = [d \in Callers |-> {}] BY <1>2, <2>1 DEF Departed
    <3>2. ahead = [d \in Callers |-> {}] BY <1>0, <1>2
    <3> QED BY <3>1, <3>2
  <2> QED BY <2>1
<1> QED BY <1>3, SameQueue

\* The head of the queue is admitted.
LEMMA HeadLeaves ==
    ASSUME FIFO, PathTyped, NEW c \in Callers, IsHead(c), queue' = Tail(queue), NEW w, Grant(c, w),
           limiter \in {"weighted", "interval"}
    PROVE  FIFO'
<1>0. queue \in Seq(Callers) /\ ahead \in [Callers -> SUBSET Callers] BY DEF FIFO, QueueTyped
<1>1. queue # <<>> /\ queue[1] = c /\ 1 \in DOMAIN queue BY <1>0 DEF IsHead
<1>2. queue' \in Seq(Callers) /\ Len(queue') = Len(queue) - 1
      /\ \A k \in 1..Len(queue) - 1 : queue'[k] = IF k < 1 THEN queue[k] ELSE queue[k + 1]
      BY <1>0, <1>1
<1>3. ahead[c] = {}
  <2>1. ahead[queue[1]] = {queue[j] : j \in 1..1 - 1} BY <1>1 DEF FIFO, InLine
  <2>2. 1..1 - 1 = {} OBVIOUS
  <2>3. {queue[j] : j \in {}} = {} OBVIOUS
  <2> QED BY <1>1, <2>1, <2>2, <2>3
<1>4. ahead' = [d \in Callers |-> IF d = c THEN {} ELSE ahead[d] \ {c}] BY <1>3 DEF Grant, Departed
<1>5. lpc' = [lpc EXCEPT ![c] = "granted"] /\ UNCHANGED limiter BY DEF Grant
<1> QED BY <1>1, <1>2, <1>4, <1>5, LeavesQueue DEF PathTyped

\* The loop of a waiter keeps the order.
LEMMA WaitFIFO ==
    ASSUME FIFO, PathTyped, NEW c \in Callers, WaitStep(c)
    PROVE  FIFO'
<1>0. lpc \in [Callers -> LimiterPlaces] BY DEF PathTyped
<1>1. ASSUME NEW until, Sleep(c, until), UNCHANGED queue, lpc[c] = "top" PROVE FIFO'
  <2>1. UNCHANGED <<queue, ahead, limiter>> /\ lpc' = [lpc EXCEPT ![c] = "select"] BY <1>1 DEF Sleep, history
  <2> QED BY <1>0, <1>1, <2>1, SameQueue
<1>2. CASE WindowLocked(c)
  <2>1. limiter = "window" /\ UNCHANGED queue /\ lpc[c] = "top" BY <1>2 DEF WindowLocked, Looping
  <2>2. ASSUME Grant(c, 1) PROVE FIFO' BY <2>1, <2>2, NoQueue DEF Grant
  <2> QED BY <1>1, <1>2, <2>1, <2>2 DEF WindowLocked
<1>3. CASE WeightedLocked(c)
  <2>1. limiter = "weighted" /\ lpc[c] = "top" BY <1>3 DEF WeightedLocked, Looping
  <2>2. CASE IsHead(c) /\ queue' = Tail(queue) /\ Grant(c, weight[c]) BY <2>1, <2>2, HeadLeaves
  <2> QED BY <1>1, <1>3, <2>1, <2>2 DEF WeightedLocked
<1>4. CASE IntervalLocked(c)
  <2>1. limiter = "interval" /\ lpc[c] = "top" BY <1>4 DEF IntervalLocked, Looping
  <2>2. CASE IsHead(c) /\ queue' = Tail(queue) /\ Grant(c, 1) BY <2>1, <2>2, HeadLeaves
  <2> QED BY <1>1, <1>4, <2>1, <2>2 DEF IntervalLocked
<1>5. CASE Awake(c)
  <2>1. lpc[c] = "select" /\ lpc' = [lpc EXCEPT ![c] = "top"] /\ UNCHANGED <<queue, ahead, limiter>>
        BY <1>5 DEF Awake, history, limiterState
  <2> QED BY <1>0, <2>1, SameQueue
<1>6. CASE remove(c)
  <2>1. /\ lpc[c] \in {"top", "select"} /\ lpc' = [lpc EXCEPT ![c] = "failed"]
        /\ Departed(c, {}) /\ UNCHANGED limiter /\ TakenOut(c)
        BY <1>6 DEF remove, Leaving, Left
  <2>2. CASE limiter \notin {"weighted", "interval"}
    <3>1. queue = <<>> BY <2>2 DEF FIFO, InLine
    <3>2. ~Queued(c) BY <3>1 DEF Queued
    <3>3. UNCHANGED queue BY <2>1, <3>2 DEF TakenOut
    <3> QED BY <2>1, <2>2, <3>3, NoQueue
  <2>3. CASE limiter \in {"weighted", "interval"}
    <3>1. Queued(c) BY <2>1, <2>3 DEF FIFO, InLine, Waiters
    <3> DEFINE i == CHOOSE j \in DOMAIN queue : queue[j] = c
    <3>2. i \in DOMAIN queue /\ queue[i] = c BY <3>1 DEF Queued
    <3>3. queue' = RemoveAt(queue, i) BY <2>1, <3>1 DEF TakenOut
    <3> HIDE DEF i
    <3>4. queue' \in Seq(Callers) /\ Len(queue') = Len(queue) - 1
          /\ \A k \in 1..Len(queue) - 1 : queue'[k] = IF k < i THEN queue[k] ELSE queue[k + 1]
          BY <3>2, <3>3, RemoveAtFacts DEF FIFO, QueueTyped
    <3>5. ahead' = [d \in Callers |-> IF d = c THEN {} ELSE ahead[d] \ {c}] BY <2>1 DEF Departed
    <3> QED BY <1>0, <2>1, <2>3, <3>2, <3>4, <3>5, LeavesQueue
  <2> QED BY <2>2, <2>3
<1> QED BY <1>2, <1>3, <1>4, <1>5, <1>6 DEF WaitStep

\* Every step keeps the order of the queue.
LEMMA FIFOStep == Base /\ OnPath /\ FIFO /\ [Next]_vars => FIFO'
<1> SUFFICES ASSUME Base, OnPath, FIFO, [Next]_vars PROVE FIFO' OBVIOUS
<1>0. PathTyped /\ lpc \in [Callers -> LimiterPlaces] /\ limiter \in {"window", "weighted", "interval", "none"}
      BY DEF OnPath, PathTyped
<1>1. CASE UNCHANGED limiterVars BY <1>1, SameQueue DEF limiterVars, limiterState, history
<1>2. ASSUME NEW c \in Callers, lpc[c] = "idle", Starts(c) PROVE FIFO'
  <2>1. ASSUME NEW to, ReturnAtOnce(c, to), to \in {"granted", "failed"} \/ limiter \notin {"weighted", "interval"}
        PROVE  FIFO'
    <3>1. lpc' = [lpc EXCEPT ![c] = to] /\ UNCHANGED <<queue, ahead, limiter>>
          BY <2>1 DEF ReturnAtOnce, limiterState, history
    <3> QED BY <1>0, <1>2, <2>1, <3>1, SameQueue
  <2>2. ASSUME NEW w \in Nat \ {0}, Wait(c, w) PROVE FIFO'
    <3>1. CASE limiter = "none" BY <2>1, <2>2, <3>1 DEF Wait
    <3>2. CASE limiter = "window" BY <2>1, <2>2, <3>2 DEF Wait
    <3>3. CASE limiter = "weighted" BY <1>0, <1>2, <2>1, <2>2, <3>3, JoinsQueue DEF Wait
    <3>4. CASE limiter = "interval" BY <1>0, <1>2, <2>1, <2>2, <3>4, JoinsQueue DEF Wait
    <3> QED BY <1>0, <3>1, <3>2, <3>3, <3>4
  <2> QED BY <1>2, <2>1, <2>2 DEF Starts
<1>3. ASSUME NEW c \in Callers, Ends(c) PROVE FIFO'
  <2>1. UNCHANGED <<queue, ahead, limiter>> /\ lpc[c] = "granted" /\ lpc' = [lpc EXCEPT ![c] = "idle"]
        BY <1>3 DEF Ends, Landed, Charge, limiterState
  <2> QED BY <1>0, <2>1, SameQueue
<1>4. ASSUME NEW c \in Callers, Reports(c) PROVE FIFO'
  <2>1. UNCHANGED <<queue, ahead, limiter>> /\ lpc[c] = "failed" /\ lpc' = [lpc EXCEPT ![c] = "idle"]
        BY <1>4 DEF Reports, LimiterButPC, limiterState
  <2> QED BY <1>0, <2>1, SameQueue
<1> QED BY <1>0, <1>1, <1>2, <1>3, <1>4, WaitFIFO, LimiterSteps

\* weightedRateLimiter and rateLimiter: nobody is admitted before a waiter that was
\* queued earlier and is still waiting, and whoever has returned has left the queue.
THEOREM ServedInTurn == Spec => []FirstInFirstOut
<1>1. Init => FIFO
  <2> SUFFICES ASSUME Init PROVE FIFO OBVIOUS
  <2>1. queue = <<>> /\ ahead = [c \in Callers |-> {}] /\ lpc = [c \in Callers |-> "idle"]
        BY DEF Init, PathInit, LimiterInit
  <2>2. QueueTyped BY <2>1 DEF QueueTyped
  <2>3. InLine BY <2>1 DEF InLine, Waiters, Queued
  <2> QED BY <2>2, <2>3 DEF FIFO
<1>2. FIFO => FirstInFirstOut
  <2> SUFFICES ASSUME FIFO PROVE FirstInFirstOut OBVIOUS
  <2>1. limiter \in {"weighted", "interval"} => \A c \in Callers : lpc[c] = "granted" => ahead[c] = {}
        BY DEF FIFO, InLine, Waiters
  <2>2. ToSet(queue) \subseteq Waiters
    <3>1. ASSUME NEW i \in DOMAIN queue PROVE queue[i] \in Waiters
      <4>1. queue[i] \in Callers /\ Queued(queue[i]) BY <3>1 DEF FIFO, QueueTyped, Queued
      <4>2. limiter \in {"weighted", "interval"} BY <3>1 DEF FIFO, InLine
      <4> QED BY <4>1, <4>2 DEF FIFO, InLine
    <3> QED BY <3>1 DEF ToSet
  <2> QED BY <2>1, <2>2 DEF FirstInFirstOut
<1> QED BY <1>1, <1>2, BaseInit, BaseStep, OnPathInit, OnPathStep, FIFOStep, PTL DEF Spec

----------------------------------------------------------------------------
(* No limiter exceeds its rate. *)

Entries == [at : Nat, weight : Nat, charge : BOOLEAN, total : Nat]
RateTyped ==
    /\ now \in Nat /\ spent \in Seq(Entries) /\ weight \in [Callers -> Nat]
    /\ sent \in Seq(Nat) /\ tokens \in Int /\ updated \in Nat /\ nextSlot \in Nat

\* The rolling window remembers the latest admissions, and every other is out of it.
WindowKept ==
    /\ Len(sent) <= Len(spent)
    /\ \A k \in 1..Len(sent) : sent[k] = spent[Len(spent) - Len(sent) + k].at
    /\ \A i \in 1..Len(spent) - Len(sent) : spent[i].at + Span <= now

\* The bucket holds no more than what was refilled since an entry and not spent.
BucketKept ==
    /\ tokens <= Capacity /\ updated <= now
    /\ \A i \in DOMAIN spent :
        /\ spent[i].at <= updated
        /\ tokens + Weights(i, Len(spent)) * Window <= Capacity + (updated - spent[i].at) * Budget

\* The next slot is an interval after the last admission.
SlotKept == spent # <<>> => nextSlot = spent[Len(spent)].at + Interval

RatesKept ==
    /\ limiter = "window" => WindowKept
    /\ limiter = "weighted" => BucketKept
    /\ limiter = "interval" => SlotKept

Rates == RateTyped /\ RatesKept /\ RatesRespected

\* An admission or a surcharge is entered after the others.
LEMMA SpendFacts ==
    ASSUME RateTyped, NEW w \in Nat, NEW b \in BOOLEAN, Spend(w, b)
    PROVE  /\ spent' \in Seq(Entries) /\ Len(spent) \in Nat /\ Len(spent') = Len(spent) + 1
           /\ \A i \in 1..Len(spent) : spent'[i] = spent[i] /\ spent[i] \in Entries
           /\ LET e == spent'[Len(spent) + 1] IN
                /\ e.at = now /\ e.weight = w /\ e.charge = b
                /\ e.total = w + (IF Len(spent) = 0 THEN 0 ELSE spent[Len(spent)].total)
<1>0. spent \in Seq(Entries) /\ now \in Nat BY DEF RateTyped
<1>1. Len(spent) \in Nat /\ (spent = <<>> <=> Len(spent) = 0) /\ \A i \in 1..Len(spent) : spent[i] \in Entries BY <1>0
<1>2. Total \in Nat /\ Total = IF Len(spent) = 0 THEN 0 ELSE spent[Len(spent)].total
  <2>1. CASE Len(spent) = 0 BY <1>1, <2>1 DEF Total
  <2>2. CASE Len(spent) # 0
    <3>1. spent[Len(spent)] \in Entries BY <1>1, <2>2
    <3> QED BY <1>1, <2>2, <3>1 DEF Total, Entries
  <2> QED BY <2>1, <2>2
<1> DEFINE e == [at |-> now, weight |-> w, charge |-> b, total |-> Total + w]
<1>3. e \in Entries BY <1>0, <1>2 DEF Entries
<1>4. e.at = now /\ e.weight = w /\ e.charge = b /\ e.total = Total + w OBVIOUS
<1>5. spent' = Append(spent, e) BY DEF Spend
<1> HIDE DEF e
<1>6. spent' \in Seq(Entries) /\ Len(spent') = Len(spent) + 1 /\ spent'[Len(spent) + 1] = e
      /\ \A i \in 1..Len(spent) : spent'[i] = spent[i]
      BY <1>0, <1>3, <1>5
<1> QED BY <1>1, <1>2, <1>4, <1>6

\* What is written of an entry.
LEMMA EntryFacts == \A e \in Entries : e.at \in Nat /\ e.weight \in Nat /\ e.charge \in BOOLEAN /\ e.total \in Nat
BY DEF Entries

----------------------------------------------------------------------------
(* The rolling window. *)

\* messageRateLimiter.Wait: the first admission after the cutoff is found.
LEMMA FirstKeptFacts ==
    ASSUME RateTyped
    PROVE  FirstKept \in 0..Len(sent) /\ \A i \in 1..FirstKept : sent[i] + Span <= now
<1>0. Len(sent) \in Nat /\ now \in Nat /\ Span \in Nat /\ \A i \in 1..Len(sent) : sent[i] \in Nat
      BY LimiterAssumption DEF RateTyped
<1> DEFINE T == {k \in 1..Len(sent) : AfterCutoff(sent[k])}
           Right(n) == /\ \A i \in 1..n : ~AfterCutoff(sent[i])
                       /\ n < Len(sent) => AfterCutoff(sent[n + 1])
<1>1. \E n \in 0..Len(sent) : Right(n)
  <2>1. CASE T = {}
    <3>1. Right(Len(sent)) BY <1>0, <2>1
    <3> QED BY <1>0, <3>1
  <2>2. CASE T # {}
    <3>1. T \subseteq Nat BY <1>0
    <3>2. \E x \in T : \A y \in T : ~(<<y, x>> \in OpToRel(<, Nat)) BY <2>2, <3>1, NatLessThanWellFounded, WFMin
    <3>3. PICK x \in T : \A y \in T : ~(<<y, x>> \in OpToRel(<, Nat)) BY <3>2
    <3>4. \A y \in T : ~(y < x)
      <4> TAKE y \in T
      <4>1. <<y, x>> \in Nat \X Nat /\ ~(<<y, x>> \in OpToRel(<, Nat)) BY <3>1, <3>3
      <4> QED BY <4>1 DEF OpToRel
    <3>5. x - 1 \in 0..Len(sent) /\ (x - 1) + 1 = x BY <1>0
    <3>6. \A i \in 1..x - 1 : i \in 1..Len(sent) /\ i < x BY <1>0, <3>5
    <3>7. Right(x - 1)
      <4>1. \A i \in 1..x - 1 : ~AfterCutoff(sent[i]) BY <3>4, <3>6
      <4> QED BY <3>5, <4>1
    <3> QED BY <3>5, <3>7
  <2> QED BY <2>1, <2>2
<1>2. FirstKept = CHOOSE n \in 0..Len(sent) : Right(n) BY DEF FirstKept
<1>3. FirstKept \in 0..Len(sent) /\ Right(FirstKept)
  <2> HIDE DEF Right
  <2> QED BY <1>1, <1>2
<1>4. ASSUME NEW i \in 1..FirstKept PROVE sent[i] + Span <= now
  <2>1. i \in 1..Len(sent) BY <1>0, <1>3
  <2>2. ~AfterCutoff(sent[i]) BY <1>3
  <2> QED BY <1>0, <2>1, <2>2 DEF AfterCutoff
<1> QED BY <1>3, <1>4

\* The admissions kept after the cutoff are the latest ones.
LEMMA WindowTrimmed ==
    ASSUME RateTyped, WindowKept, NEW kept, kept = SubSeq(sent, FirstKept + 1, Len(sent))
    PROVE  /\ kept \in Seq(Nat) /\ Len(kept) \in Nat /\ Len(kept) <= Len(spent)
           /\ \A k \in 1..Len(kept) : kept[k] = spent[Len(spent) - Len(kept) + k].at
           /\ \A i \in 1..Len(spent) - Len(kept) : spent[i].at + Span <= now
<1>0. sent \in Seq(Nat) /\ spent \in Seq(Entries) /\ now \in Nat BY DEF RateTyped
<1> DEFINE f == FirstKept
           n == Len(spent)
           m == Len(sent)
<1>1. n \in Nat /\ m \in Nat /\ f \in 0..m /\ \A i \in 1..f : sent[i] + Span <= now BY <1>0, FirstKeptFacts
<1>2. m <= n /\ (\A k \in 1..m : sent[k] = spent[n - m + k].at) /\ \A i \in 1..n - m : spent[i].at + Span <= now
      BY DEF WindowKept
<1>3. kept \in Seq(Nat) /\ Len(kept) = m - f /\ \A k \in 1..m - f : kept[k] = sent[f + k]
      BY <1>0, <1>1
<1> HIDE DEF f, n, m
<1>4. ASSUME NEW k \in 1..Len(kept) PROVE kept[k] = spent[n - Len(kept) + k].at
  <2>1. k \in 1..m - f BY <1>3
  <2>2. f + k \in 1..m /\ n - m + (f + k) = n - (m - f) + k BY <1>1, <2>1
  <2>3. kept[k] = sent[f + k] /\ sent[f + k] = spent[n - m + (f + k)].at BY <1>2, <1>3, <2>1, <2>2
  <2> QED BY <1>3, <2>2, <2>3
<1>5. ASSUME NEW i \in 1..n - Len(kept) PROVE spent[i].at + Span <= now
  <2>1. i \in Int /\ i >= 1 /\ i <= n - m + f BY <1>1, <1>3
  <2>2. CASE i <= n - m BY <1>1, <1>2, <2>1, <2>2
  <2>3. CASE i > n - m
    <3>1. i - (n - m) \in 1..f /\ i - (n - m) \in 1..m /\ n - m + (i - (n - m)) = i BY <1>1, <2>1, <2>3
    <3>2. sent[i - (n - m)] = spent[i].at BY <1>2, <3>1
    <3> QED BY <1>1, <3>1, <3>2
  <2> QED BY <1>1, <2>1, <2>2, <2>3
<1>6. Len(kept) \in Nat /\ Len(kept) <= n
  <2>1. m - f \in Nat /\ m - f <= n BY <1>1, <1>2
  <2> QED BY <1>3, <2>1
<1> QED BY <1>3, <1>4, <1>5, <1>6 DEF n

\* An admission by the window comes a span after the one Limit before it.
LEMMA WindowRates ==
    ASSUME Rates, NEW c \in Callers, WindowLocked(c), UNCHANGED now
    PROVE  Rates'
<1> DEFINE kept == SubSeq(sent, FirstKept + 1, Len(sent))
           n == Len(spent)
<1>0. /\ now \in Nat /\ spent \in Seq(Entries) /\ weight \in [Callers -> Nat] /\ n \in Nat
      /\ limiter = "window" /\ UNCHANGED <<limiter, tokens, updated, nextSlot>>
      /\ Limit \in Nat /\ Limit >= 1 /\ Span \in Nat
  <2>1. now \in Nat /\ spent \in Seq(Entries) /\ weight \in [Callers -> Nat] BY DEF Rates, RateTyped
  <2>2. limiter = "window" /\ UNCHANGED <<tokens, updated, nextSlot>> BY DEF WindowLocked, Looping
  <2>3. UNCHANGED limiter BY DEF WindowLocked, Grant, Sleep
  <2>4. Limit \in Nat \ {0} /\ Span \in Nat BY LimiterAssumption
  <2> QED BY <2>1, <2>2, <2>3, <2>4
<1>1. WindowKept /\ RateTyped /\ WindowRespected BY <1>0 DEF Rates, RatesKept, RatesRespected
<1>2. /\ kept \in Seq(Nat) /\ Len(kept) \in Nat /\ Len(kept) <= n
      /\ \A k \in 1..Len(kept) : kept[k] = spent[n - Len(kept) + k].at
      /\ \A i \in 1..n - Len(kept) : spent[i].at + Span <= now
      BY <1>1, WindowTrimmed
<1>3. \/ Len(kept) < Limit /\ sent' = Append(kept, now) /\ Grant(c, 1)
      \/ sent' = kept /\ UNCHANGED <<spent, weight>>
      BY DEF WindowLocked, Sleep, history
<1> HIDE DEF kept
<1>4. CASE sent' = kept /\ UNCHANGED <<spent, weight>>
  <2>1. RateTyped' BY <1>0, <1>1, <1>2, <1>4 DEF RateTyped
  <2>2. WindowKept' BY <1>2, <1>4 DEF WindowKept
  <2>3. WindowRespected' BY <1>0, <1>1, <1>4 DEF WindowRespected
  <2> QED BY <1>0, <2>1, <2>2, <2>3 DEF Rates, RatesKept, RatesRespected, BudgetRespected, SpacingRespected
<1>5. CASE Len(kept) < Limit /\ sent' = Append(kept, now) /\ Grant(c, 1)
  <2>1. Spend(1, FALSE) /\ weight' \in [Callers -> Nat] BY <1>0, <1>5 DEF Grant
  <2>2. /\ spent' \in Seq(Entries) /\ Len(spent') = n + 1 /\ spent'[n + 1].at = now
        /\ \A i \in 1..n : spent'[i] = spent[i] /\ spent[i] \in Entries
        BY <1>1, <2>1, SpendFacts
  <2>3. /\ sent' \in Seq(Nat) /\ Len(sent') = Len(kept) + 1 /\ sent'[Len(kept) + 1] = now
        /\ \A k \in 1..Len(kept) : sent'[k] = kept[k]
        BY <1>0, <1>2, <1>5
  <2>4. RateTyped' BY <1>0, <1>1, <2>1, <2>2, <2>3 DEF RateTyped
  <2> HIDE DEF n
  <2>5. ASSUME NEW k \in 1..Len(sent') PROVE sent'[k] = spent'[Len(spent') - Len(sent') + k].at
    <3>1. CASE k = Len(kept) + 1
      <4>1. Len(spent') - Len(sent') + k = n + 1 BY <1>0, <1>2, <2>2, <2>3, <3>1
      <4> QED BY <2>2, <2>3, <3>1, <4>1
    <3>2. CASE k \in 1..Len(kept)
      <4>1. Len(spent') - Len(sent') + k = n - Len(kept) + k /\ n - Len(kept) + k \in 1..n
            BY <1>0, <1>2, <2>2, <2>3, <3>2
      <4> QED BY <1>2, <2>2, <2>3, <3>2, <4>1
    <3> QED BY <1>2, <2>3, <3>1, <3>2
  <2>6. ASSUME NEW i \in 1..Len(spent') - Len(sent') PROVE spent'[i].at + Span <= now
    <3>1. i \in 1..n - Len(kept) /\ i \in 1..n BY <1>0, <1>2, <2>2, <2>3
    <3> QED BY <1>2, <2>2, <3>1
  <2>7. WindowKept'
    <3>1. Len(sent') <= Len(spent') BY <1>0, <1>2, <2>2, <2>3
    <3> QED BY <2>5, <2>6, <3>1 DEF WindowKept
  <2>8. ASSUME NEW i \in DOMAIN spent', i + Limit \in DOMAIN spent'
        PROVE  spent'[i + Limit].at - spent'[i].at >= Span
    <3>1. i \in 1..n + 1 /\ i + Limit \in 1..n + 1 BY <2>2, <2>8
    <3>2. i \in 1..n BY <1>0, <3>1
    <3>3. CASE i + Limit \in 1..n
      <4>1. i \in DOMAIN spent /\ i + Limit \in DOMAIN spent BY <1>0, <3>2, <3>3 DEF n
      <4>2. spent[i + Limit].at - spent[i].at >= Span BY <1>0, <1>1, <4>1 DEF WindowRespected
      <4> QED BY <2>2, <3>2, <3>3, <4>2
    <3>4. CASE i + Limit = n + 1
      <4>1. i \in 1..n - Len(kept) BY <1>0, <1>2, <1>5, <3>2, <3>4
      <4>2. spent[i].at + Span <= now /\ spent[i].at \in Nat BY <1>2, <2>2, <3>2, <4>1, EntryFacts
      <4>3. spent'[i + Limit].at = now /\ spent'[i].at = spent[i].at BY <2>2, <3>2, <3>4
      <4> QED BY <1>0, <4>2, <4>3
    <3> QED BY <1>0, <3>1, <3>3, <3>4
  <2>9. WindowRespected' BY <2>8 DEF WindowRespected
  <2> QED BY <1>0, <2>4, <2>7, <2>9 DEF Rates, RatesKept, RatesRespected, BudgetRespected, SpacingRespected
<1> QED BY <1>3, <1>4, <1>5

----------------------------------------------------------------------------
(* The bucket. *)

\* refillLocked: no more than the capacity, and no more than the time refilled.
LEMMA RefilledFacts ==
    ASSUME RateTyped, BucketKept
    PROVE  /\ Capacity \in Nat /\ Refilled \in Int /\ Refilled <= Capacity
           /\ Refilled <= tokens + (now - updated) * Budget
           /\ (refillLocked => updated' = now)
<1>0. /\ now \in Nat /\ updated \in Nat /\ tokens \in Int /\ updated <= now /\ tokens <= Capacity
      /\ Budget \in Nat /\ Window \in Nat
      BY LimiterAssumption DEF RateTyped, BucketKept
<1>1. Capacity \in Nat BY <1>0 DEF Capacity
<1>2. (now - updated) * Budget \in Nat BY <1>0
<1>3. \A a, b \in Int : Min({a, b}) \in Int /\ Min({a, b}) <= a /\ Min({a, b}) <= b
  <2> TAKE a, b \in Int
  <2>1. \E x \in {a, b} : \A y \in {a, b} : x <= y OBVIOUS
  <2>2. Min({a, b}) = CHOOSE x \in {a, b} : \A y \in {a, b} : x <= y BY DEF Min
  <2>3. Min({a, b}) \in {a, b} /\ \A y \in {a, b} : Min({a, b}) <= y BY <2>1, <2>2
  <2> QED BY <2>3
<1>4. CASE now <= updated
  <2>1. now = updated /\ Refilled = tokens BY <1>0, <1>4 DEF Refilled
  <2> QED BY <1>0, <1>1, <1>2, <2>1 DEF refillLocked
<1>5. CASE ~(now <= updated)
  <2>1. Refilled = Min({Capacity, tokens + (now - updated) * Budget}) BY <1>5 DEF Refilled
  <2>2. tokens + (now - updated) * Budget \in Int BY <1>0, <1>2
  <2> HIDE DEF Capacity
  <2>3. Refilled \in Int /\ Refilled <= Capacity /\ Refilled <= tokens + (now - updated) * Budget
        BY <1>1, <1>3, <2>1, <2>2
  <2> QED BY <1>1, <1>5, <2>3 DEF refillLocked
<1> QED BY <1>4, <1>5

\* What was refilled since an entry grows with the time.
LEMMA Refills ==
    ASSUME NEW t \in Int, NEW u \in Int, NEW a \in Int, NEW b \in Int
    PROVE  (t - u) * b + (u - a) * b = (t - a) * b
OBVIOUS

\* A grant that the bucket can pay, and a surcharge it may not, keep the account.
LEMMA Paid ==
    ASSUME RateTyped, BucketKept, BudgetRespected, limiter = "weighted", UNCHANGED <<limiter, now>>,
           NEW w \in Nat, NEW b \in BOOLEAN, Spend(w, b), tokens' = Refilled - w * Window, refillLocked,
           b \/ tokens' >= 0
    PROVE  /\ spent' \in Seq(Entries) /\ tokens' \in Int /\ updated' \in Nat
           /\ BucketKept' /\ BudgetRespected'
<1> DEFINE R == Refilled
           C == Capacity
<1>n. PICK n \in Nat : n = Len(spent) BY DEF RateTyped
<1>0. /\ now \in Nat /\ updated \in Nat /\ tokens \in Int /\ updated <= now /\ spent \in Seq(Entries)
      /\ Budget \in Nat /\ Window \in Nat
      BY LimiterAssumption DEF RateTyped, BucketKept
<1>1. C \in Nat /\ R \in Int /\ R <= C /\ R <= tokens + (now - updated) * Budget /\ updated' = now
      BY RefilledFacts
<1>2. /\ spent' \in Seq(Entries) /\ n \in Nat /\ Len(spent') = n + 1
      /\ \A i \in 1..n : spent'[i] = spent[i] /\ spent[i] \in Entries
      /\ spent'[n + 1].at = now /\ spent'[n + 1].weight = w /\ spent'[n + 1].charge = b
      /\ spent'[n + 1].total = w + (IF n = 0 THEN 0 ELSE spent[n].total)
      BY <1>n, SpendFacts
<1>3. w * Window \in Nat /\ tokens' = R - w * Window /\ tokens' \in Int BY <1>0, <1>1
<1>4. Capacity' = C BY DEF Capacity
<1>5. \A i \in 1..n : Weights(i, n) \in Int
  <2> TAKE i \in 1..n
  <2>1. n \in 1..n BY <1>2
  <2>2. spent[i] \in Entries /\ spent[n] \in Entries BY <1>2, <2>1
  <2> QED BY <2>2, EntryFacts DEF Weights
<1>6. ASSUME NEW i \in 1..n PROVE Weights(i, n + 1)' = Weights(i, n) + w
  <2>1. n \in 1..n /\ n # 0 BY <1>2
  <2>2. spent[i] \in Entries /\ spent[n] \in Entries /\ spent'[i] = spent[i] BY <1>2, <2>1
  <2>3. spent[i].total \in Nat /\ spent[n].total \in Nat /\ spent[i].weight \in Nat BY <2>2, EntryFacts
  <2>4. Weights(i, n + 1)' = spent'[n + 1].total - spent'[i].total + spent'[i].weight
        /\ Weights(i, n) = spent[n].total - spent[i].total + spent[i].weight
        BY DEF Weights
  <2>5. spent'[n + 1].total = w + spent[n].total BY <1>2, <2>1
  <2> QED BY <2>2, <2>3, <2>4, <2>5
<1>7. Weights(n + 1, n + 1)' = w
  <2>1. n + 1 \in 1..Len(spent') BY <1>2
  <2>2. spent'[n + 1] \in Entries BY <1>2, <2>1
  <2>3. Weights(n + 1, n + 1)' = spent'[n + 1].total - spent'[n + 1].total + spent'[n + 1].weight BY DEF Weights
  <2> QED BY <1>2, <2>2, <2>3, EntryFacts
<1>8. \A i \in 1..n : /\ spent[i].at <= updated /\ spent[i].at \in Nat
                      /\ tokens + Weights(i, n) * Window <= C + (updated - spent[i].at) * Budget
  <2> TAKE i \in 1..n
  <2>1. i \in DOMAIN spent /\ spent[i] \in Entries BY <1>n, <1>0, <1>2
  <2>2. spent[i].at \in Nat BY <2>1, EntryFacts
  <2> QED BY <1>n, <2>1, <2>2 DEF BucketKept
<1> HIDE DEF R, C
<1>9. ASSUME NEW i \in 1..n + 1
      PROVE  /\ spent'[i].at <= now /\ spent'[i].at \in Nat /\ Weights(i, n + 1)' \in Int
             /\ tokens' + Weights(i, n + 1)' * Window <= C + (now - spent'[i].at) * Budget
  <2>1. CASE i = n + 1
    <3>1. (now - now) * Budget = 0 BY <1>0
    <3>2. spent'[i].at = now /\ Weights(i, n + 1)' = w BY <1>2, <1>7, <2>1
    <3>3. (R - w * Window) + w * Window <= C + 0 BY <1>1, <1>3
    <3>4. tokens' + w * Window <= C + (now - now) * Budget BY <1>3, <3>1, <3>3
    <3> QED BY <1>0, <3>2, <3>4
  <2>2. CASE i \in 1..n
    <3> DEFINE a == spent[i].at
               x == Weights(i, n)
    <3>1. a \in Nat /\ x \in Int /\ a <= updated /\ tokens + x * Window <= C + (updated - a) * Budget BY <1>5, <1>8, <2>2
    <3>2. spent'[i].at = a /\ Weights(i, n + 1)' = x + w BY <1>2, <1>6, <2>2
    <3> HIDE DEF a, x
    <3>3. (x + w) * Window = x * Window + w * Window /\ x * Window \in Int BY <1>0, <3>1
    <3>4. (now - updated) * Budget + (updated - a) * Budget = (now - a) * Budget BY <1>0, <3>1, Refills
    <3>5. (now - updated) * Budget \in Int /\ (updated - a) * Budget \in Int /\ (now - a) * Budget \in Int BY <1>0, <3>1
    <3>6. \A p, q, r, s, v \in Int : R <= tokens + p /\ tokens + q <= C + r /\ p + r = s => (R - v) + (q + v) <= C + s
      <4>1. R \in Int /\ C \in Int /\ tokens \in Int BY <1>0, <1>1
      <4> QED BY <4>1
    <3>7. (R - w * Window) + (x * Window + w * Window) <= C + (now - a) * Budget
      <4> DEFINE p == (now - updated) * Budget
                 q == x * Window
                 rr == (updated - a) * Budget
                 ss == (now - a) * Budget
                 v == w * Window
      <4>1. p \in Int /\ q \in Int /\ rr \in Int /\ ss \in Int /\ v \in Int BY <1>3, <3>3, <3>5
      <4>2. R <= tokens + p /\ tokens + q <= C + rr /\ p + rr = ss BY <1>1, <3>1, <3>4
      <4> HIDE DEF p, q, rr, ss, v
      <4>3. (R - v) + (q + v) <= C + ss BY <3>6, <4>1, <4>2
      <4> QED BY <4>3 DEF q, ss, v
    <3>8. a <= now /\ x + w \in Int BY <1>0, <3>1
    <3> QED BY <1>3, <3>1, <3>2, <3>3, <3>7, <3>8
  <2> QED BY <1>2, <2>1, <2>2
<1>10. tokens' <= C BY <1>1, <1>3
<1>11. BucketKept'
  <2>1. DOMAIN spent' = 1..n + 1 BY <1>2
  <2>2. Len(spent') = n + 1 /\ Capacity' = C /\ updated' = now /\ now' = now BY <1>1, <1>2, <1>4
  <2>3. \A i \in DOMAIN spent' : /\ spent'[i].at <= updated'
            /\ tokens' + Weights(i, Len(spent))' * Window <= Capacity' + (updated' - spent'[i].at) * Budget
        BY <1>9, <2>1, <2>2
  <2>4. tokens' <= Capacity' /\ updated' <= now' BY <1>0, <1>10, <2>2
  <2> QED BY <2>3, <2>4 DEF BucketKept
<1>12. ASSUME NEW i \in 1..n + 1, NEW j \in 1..n + 1, i <= j, ~spent'[j].charge
       PROVE  Weights(i, j)' * Window <= C + (spent'[j].at - spent'[i].at) * Budget
  <2>1. CASE j \in 1..n
    <3>1. i \in 1..n BY <1>2, <1>12, <2>1
    <3>2. spent'[i] = spent[i] /\ spent'[j] = spent[j] BY <1>2, <2>1, <3>1
    <3>3. Weights(i, j)' = Weights(i, j) BY <3>2 DEF Weights
    <3>4. i \in DOMAIN spent /\ j \in DOMAIN spent BY <1>n, <1>0, <2>1, <3>1
    <3>5. Weights(i, j) * Window <= C + (spent[j].at - spent[i].at) * Budget
          BY <1>12, <3>2, <3>4 DEF BudgetRespected, C
    <3> QED BY <3>2, <3>3, <3>5
  <2>2. CASE j = n + 1
    <3>1. tokens' >= 0 BY <1>2, <1>12, <2>2
    <3>2. tokens' + Weights(i, j)' * Window <= C + (now - spent'[i].at) * Budget
          /\ Weights(i, j)' \in Int /\ spent'[i].at \in Nat
          BY <1>9, <2>2
    <3> DEFINE x == Weights(i, j)'
               y == (now - spent'[i].at) * Budget
    <3>3. x * Window \in Int /\ y \in Int
      <4>0. Weights(i, j)' \in Int /\ spent'[i].at \in Nat BY <3>2
      <4>1. x \in Int /\ now - spent'[i].at \in Int BY <1>0, <4>0
      <4>2. \A p, q \in Int : p * q \in Int OBVIOUS
      <4>3. Window \in Int /\ Budget \in Int BY <1>0
      <4> HIDE DEF x
      <4> QED BY <4>1, <4>2, <4>3
    <3>4. spent'[j].at = now BY <1>2, <2>2
    <3> HIDE DEF x
    <3>5. x * Window <= C + (now - spent'[i].at) * Budget BY <1>1, <1>3, <3>1, <3>2, <3>3 DEF x
    <3> QED BY <3>4, <3>5 DEF x
  <2> QED BY <1>2, <2>1, <2>2
<1>13. BudgetRespected'
  <2>1. DOMAIN spent' = 1..n + 1 BY <1>2
  <2> QED BY <1>4, <1>12, <2>1 DEF BudgetRespected
<1> QED BY <1>0, <1>1, <1>2, <1>3, <1>11, <1>13

\* A waiter that only refills the bucket keeps the account.
LEMMA RefillOnly ==
    ASSUME RateTyped, BucketKept, UNCHANGED <<now, spent>>, tokens' = Refilled, refillLocked
    PROVE  tokens' \in Int /\ updated' \in Nat /\ BucketKept'
<1> DEFINE R == Refilled
           C == Capacity
<1>n. PICK n \in Nat : n = Len(spent) BY DEF RateTyped
<1>0. /\ now \in Nat /\ updated \in Nat /\ tokens \in Int /\ updated <= now /\ spent \in Seq(Entries)
      /\ Budget \in Nat /\ Window \in Nat /\ n \in Nat /\ DOMAIN spent = 1..n
      BY <1>n, LimiterAssumption DEF RateTyped, BucketKept
<1>1. C \in Nat /\ R \in Int /\ R <= C /\ R <= tokens + (now - updated) * Budget /\ updated' = now
      BY RefilledFacts
<1>2. Capacity' = C BY DEF Capacity
<1>3. \A i \in 1..n : /\ spent[i].at <= updated /\ spent[i].at \in Nat /\ Weights(i, n) \in Int
                      /\ tokens + Weights(i, n) * Window <= C + (updated - spent[i].at) * Budget
  <2> TAKE i \in 1..n
  <2>1. n \in 1..n BY <1>0
  <2>2. spent[i] \in Entries /\ spent[n] \in Entries BY <1>0, <2>1
  <2>3. spent[i].at \in Nat /\ Weights(i, n) \in Int BY <2>2, EntryFacts DEF Weights
  <2> QED BY <1>n, <1>0, <2>3 DEF BucketKept
<1> HIDE DEF R, C
<1>4. ASSUME NEW i \in 1..n
      PROVE  spent[i].at <= now /\ R + Weights(i, n) * Window <= C + (now - spent[i].at) * Budget
  <2> DEFINE a == spent[i].at
             x == Weights(i, n)
  <2>1. a \in Nat /\ x \in Int /\ a <= updated /\ tokens + x * Window <= C + (updated - a) * Budget BY <1>3
  <2> HIDE DEF a, x
  <2>2. x * Window \in Int BY <1>0, <2>1
  <2>3. (now - updated) * Budget + (updated - a) * Budget = (now - a) * Budget BY <1>0, <2>1, Refills
  <2>4. (now - updated) * Budget \in Int /\ (updated - a) * Budget \in Int /\ (now - a) * Budget \in Int BY <1>0, <2>1
  <2>5. \A p, q, r, s \in Int : R <= tokens + p /\ tokens + q <= C + r /\ p + r = s => R + q <= C + s BY <1>0, <1>1
  <2>6. R + x * Window <= C + (now - a) * Budget BY <1>1, <2>1, <2>2, <2>3, <2>4, <2>5
  <2>7. a <= now BY <1>0, <2>1
  <2> QED BY <2>6, <2>7 DEF a, x
<1>5. \A i \in 1..n : Weights(i, n)' = Weights(i, n) BY DEF Weights
<1>6. BucketKept'
  <2>1. tokens' = R /\ Len(spent') = n /\ DOMAIN spent' = 1..n BY <1>n, <1>0 DEF R
  <2>2. \A i \in DOMAIN spent' : /\ spent'[i].at <= updated'
            /\ tokens' + Weights(i, Len(spent))' * Window <= Capacity' + (updated' - spent'[i].at) * Budget
        BY <1>1, <1>2, <1>4, <1>5, <2>1
  <2> QED BY <1>0, <1>1, <1>2, <2>1, <2>2 DEF BucketKept
<1> QED BY <1>0, <1>1, <1>6 DEF R

\* weightedRateLimiter.Wait: the head takes what it waits for, the others refill.
LEMMA WeightedRates ==
    ASSUME Rates, NEW c \in Callers, WeightedLocked(c), UNCHANGED now
    PROVE  Rates'
<1>0. /\ RateTyped /\ weight \in [Callers -> Nat] /\ limiter = "weighted" /\ UNCHANGED <<limiter, sent, nextSlot>>
      /\ refillLocked /\ weight[c] \in Nat /\ Window \in Nat
      BY LimiterAssumption DEF Rates, RateTyped, WeightedLocked, Looping, Grant, Sleep
<1>1. BucketKept /\ BudgetRespected BY <1>0 DEF Rates, RatesKept, RatesRespected
<1>2. \/ Refilled >= weight[c] * Window /\ tokens' = Refilled - weight[c] * Window /\ Grant(c, weight[c])
      \/ tokens' = Refilled /\ UNCHANGED <<spent, weight>>
      BY DEF WeightedLocked, Sleep, history
<1>3. CASE Refilled >= weight[c] * Window /\ tokens' = Refilled - weight[c] * Window /\ Grant(c, weight[c])
  <2>1. Spend(weight[c], FALSE) /\ weight' \in [Callers -> Nat] BY <1>0, <1>3 DEF Grant
  <2>2. tokens' >= 0
    <3>1. Refilled \in Int BY <1>0, <1>1, RefilledFacts
    <3>2. weight[c] * Window \in Int BY <1>0
    <3> QED BY <1>3, <3>1, <3>2
  <2>3. spent' \in Seq(Entries) /\ tokens' \in Int /\ updated' \in Nat /\ BucketKept' /\ BudgetRespected'
        BY <1>0, <1>1, <1>3, <2>1, <2>2, Paid
  <2>4. RateTyped' BY <1>0, <2>1, <2>3 DEF RateTyped
  <2> QED BY <1>0, <2>3, <2>4 DEF Rates, RatesKept, RatesRespected, WindowRespected, SpacingRespected
<1>4. CASE tokens' = Refilled /\ UNCHANGED <<spent, weight>>
  <2>1. tokens' \in Int /\ updated' \in Nat /\ BucketKept' BY <1>0, <1>1, <1>4, RefillOnly
  <2>2. RateTyped' BY <1>0, <1>4, <2>1 DEF RateTyped
  <2>3. BudgetRespected' BY <1>1, <1>4, <1>0 DEF BudgetRespected, Weights, Capacity
  <2> QED BY <1>0, <2>1, <2>2, <2>3 DEF Rates, RatesKept, RatesRespected, WindowRespected, SpacingRespected
<1> QED BY <1>2, <1>3, <1>4

----------------------------------------------------------------------------
(* The interval, and the steps that admit nobody. *)

\* rateLimiter.wait: an admission comes no earlier than the slot after the last one.
LEMMA IntervalRates ==
    ASSUME Rates, NEW c \in Callers, IntervalLocked(c), UNCHANGED now
    PROVE  Rates'
<1> DEFINE n == Len(spent)
<1>0. /\ RateTyped /\ now \in Nat /\ weight \in [Callers -> Nat] /\ limiter = "interval" /\ spent \in Seq(Entries)
      /\ UNCHANGED <<limiter, tokens, updated, sent>> /\ Interval \in Nat /\ n \in Nat
  <2>1. RateTyped /\ now \in Nat /\ spent \in Seq(Entries) /\ weight \in [Callers -> Nat] BY DEF Rates, RateTyped
  <2>2. limiter = "interval" /\ UNCHANGED <<tokens, updated, sent>> BY DEF IntervalLocked, Looping
  <2>3. UNCHANGED limiter BY DEF IntervalLocked, Grant, Sleep
  <2>4. Interval \in Nat BY LimiterAssumption
  <2> QED BY <2>1, <2>2, <2>3, <2>4
<1>1. SlotKept /\ SpacingRespected BY <1>0 DEF Rates, RatesKept, RatesRespected
<1>2. \/ nextSlot <= now /\ nextSlot' = now + Interval /\ Grant(c, 1)
      \/ UNCHANGED <<nextSlot, spent, weight>>
      BY DEF IntervalLocked, SlotAfter, Sleep, history
<1>3. CASE UNCHANGED <<nextSlot, spent, weight>>
      BY <1>0, <1>1, <1>3 DEF Rates, RatesKept, RatesRespected, RateTyped, SlotKept, WindowRespected, BudgetRespected, SpacingRespected
<1>4. CASE nextSlot <= now /\ nextSlot' = now + Interval /\ Grant(c, 1)
  <2>1. Spend(1, FALSE) /\ weight' \in [Callers -> Nat] BY <1>0, <1>4 DEF Grant
  <2>2. /\ spent' \in Seq(Entries) /\ Len(spent') = n + 1 /\ spent'[n + 1].at = now
        /\ \A i \in 1..n : spent'[i] = spent[i] /\ spent[i] \in Entries
        BY <1>0, <2>1, SpendFacts
  <2>3. RateTyped' BY <1>0, <1>4, <2>1, <2>2 DEF RateTyped
  <2>4. SlotKept' BY <1>4, <2>2 DEF SlotKept
  <2>5. n > 0 => nextSlot = spent[n].at + Interval BY <1>0, <1>1 DEF SlotKept
  <2>6. \A i \in 1..n - 1 : spent[i + 1].at - spent[i].at >= Interval BY <1>0, <1>1 DEF SpacingRespected
  <2> HIDE DEF n
  <2>7. ASSUME NEW i \in 1..Len(spent') - 1 PROVE spent'[i + 1].at - spent'[i].at >= Interval
    <3>1. i \in 1..n BY <1>0, <2>2
    <3>2. CASE i = n
      <4>1. nextSlot = spent[n].at + Interval /\ spent[n].at \in Nat /\ spent'[n] = spent[n]
            BY <1>0, <2>2, <2>5, <3>1, <3>2, EntryFacts
      <4> QED BY <1>0, <1>4, <2>2, <3>2, <4>1
    <3>3. CASE i # n
      <4>1. i \in 1..n - 1 /\ i + 1 \in 1..n BY <1>0, <3>1, <3>3
      <4> QED BY <2>2, <2>6, <3>1, <4>1
    <3> QED BY <3>2, <3>3
  <2>8. SpacingRespected' BY <2>7 DEF SpacingRespected
  <2> QED BY <1>0, <2>3, <2>4, <2>8 DEF Rates, RatesKept, RatesRespected, WindowRespected, BudgetRespected
<1> QED BY <1>2, <1>3, <1>4

\* A step that leaves the limiter and what was admitted alone, while time passes.
LEMMA Idle ==
    ASSUME Rates, now' \in Nat, now' >= now, weight' \in [Callers -> Nat],
           UNCHANGED <<limiter, spent, sent, tokens, updated, nextSlot>>
    PROVE  Rates'
<1>1. RateTyped' BY DEF Rates, RateTyped
<1>2. WindowKept => WindowKept'
  <2> SUFFICES ASSUME WindowKept PROVE WindowKept' OBVIOUS
  <2>1. \A i \in 1..Len(spent) - Len(sent) : spent[i].at \in Nat
    <3> TAKE i \in 1..Len(spent) - Len(sent)
    <3>1. spent \in Seq(Entries) /\ sent \in Seq(Nat) BY DEF Rates, RateTyped
    <3>2. Len(sent) \in Nat /\ Len(spent) \in Nat BY <3>1
    <3>3. i \in 1..Len(spent) BY <3>2
    <3>4. spent[i] \in Entries BY <3>1, <3>3
    <3> QED BY <3>4, EntryFacts
  <2>2. Span \in Nat /\ now \in Nat BY LimiterAssumption DEF Rates, RateTyped
  <2>3. \A i \in 1..Len(spent) - Len(sent) : spent[i].at + Span <= now' BY <2>1, <2>2 DEF WindowKept
  <2> QED BY <2>3 DEF WindowKept
<1>3. BucketKept => BucketKept' BY DEF BucketKept, Weights, Capacity, Rates, RateTyped
<1>4. SlotKept => SlotKept' BY DEF SlotKept
<1>5. RatesKept' BY <1>2, <1>3, <1>4 DEF Rates, RatesKept
<1>6. RatesRespected'
      BY DEF Rates, RatesRespected, WindowRespected, BudgetRespected, SpacingRespected, Weights, Capacity
<1> QED BY <1>1, <1>5, <1>6 DEF Rates

\* The loop of a waiter keeps the rate.
LEMMA WaitRates ==
    ASSUME Rates, NEW c \in Callers, WaitStep(c), UNCHANGED now
    PROVE  Rates'
<1>0. now \in Nat /\ weight \in [Callers -> Nat] BY DEF Rates, RateTyped
<1>1. CASE Awake(c)
  <2>1. UNCHANGED <<limiter, spent, sent, tokens, updated, nextSlot, weight>> BY <1>1 DEF Awake, limiterState, history
  <2> QED BY <1>0, <2>1, Idle
<1>2. CASE remove(c)
  <2>1. UNCHANGED <<limiter, spent, sent, tokens, updated, nextSlot>> /\ weight' = [weight EXCEPT ![c] = 0]
        BY <1>2 DEF remove, Left
  <2>2. weight' \in [Callers -> Nat] BY <1>0, <2>1
  <2> QED BY <1>0, <2>1, <2>2, Idle
<1> QED BY <1>1, <1>2, WindowRates, WeightedRates, IntervalRates DEF WaitStep

\* Time never goes back.
LEMMA NowGrows ==
    ASSUME Base, [Next]_vars
    PROVE  now' \in Nat /\ now' >= now
<1>0. now \in Nat BY DEF Base, Typed
<1>1. CASE Outside BY <1>1 DEF Outside
<1>2. ASSUME NEW c \in Callers, Begin(c) \/ Demand(c) \/ Fetch(c) \/ Join(c) \/ RefreshOptional(c) \/ Lookup(c) \/ Fill(c)
      PROVE  UNCHANGED now
      BY <1>2 DEF Begin, Demand, Fetch, Join, RefreshOptional, Lookup, Fill
<1> QED BY <1>0, <1>1, <1>2, StepCases

\* Every step keeps the rate.
LEMMA RatesStep == Base /\ OnPath /\ Rates /\ [Next]_vars => Rates'
<1> SUFFICES ASSUME Base, OnPath, Rates, [Next]_vars PROVE Rates' OBVIOUS
<1>0. /\ RateTyped /\ now \in Nat /\ weight \in [Callers -> Nat] /\ now' \in Nat /\ now' >= now
      /\ limiter \in {"window", "weighted", "interval", "none"}
      BY NowGrows DEF Rates, RateTyped, OnPath, PathTyped
<1>1. CASE UNCHANGED limiterVars
  <2>1. UNCHANGED <<limiter, spent, sent, tokens, updated, nextSlot, weight>> BY <1>1 DEF limiterVars, limiterState, history
  <2> QED BY <1>0, <2>1, Idle
<1>2. ASSUME NEW c \in Callers, Starts(c) PROVE Rates'
  <2>1. ASSUME NEW to, ReturnAtOnce(c, to) PROVE Rates'
    <3>1. UNCHANGED <<limiter, spent, sent, tokens, updated, nextSlot, weight>> BY <2>1 DEF ReturnAtOnce, limiterState, history
    <3> QED BY <1>0, <3>1, Idle
  <2>2. ASSUME NEW w \in Nat, Enqueue(c, w) PROVE Rates'
    <3>1. UNCHANGED <<limiter, spent, sent, tokens, updated, nextSlot>> /\ weight' = [weight EXCEPT ![c] = w]
          BY <2>2 DEF Enqueue
    <3>2. weight' \in [Callers -> Nat] BY <1>0, <3>1
    <3> QED BY <1>0, <3>1, <3>2, Idle
  <2>3. ASSUME NEW w \in Nat \ {0}, Wait(c, w) PROVE Rates'
    <3>1. CASE limiter = "none" BY <2>1, <2>3, <3>1 DEF Wait
    <3>2. CASE limiter = "window" BY <2>1, <2>3, <3>2 DEF Wait
    <3>3. CASE limiter = "weighted" BY <2>1, <2>2, <2>3, <3>3 DEF Wait
    <3>4. CASE limiter = "interval" BY <2>1, <2>2, <2>3, <3>4 DEF Wait
    <3> QED BY <1>0, <3>1, <3>2, <3>3, <3>4
  <2> QED BY <1>2, <2>1, <2>3 DEF Starts
<1>3. ASSUME NEW c \in Callers, Ends(c), UNCHANGED now PROVE Rates'
  <2>1. UNCHANGED <<limiter, weight>> BY <1>3 DEF Ends
  <2>2. CASE UNCHANGED <<limiterState, woken, spent>> BY <1>0, <2>1, <2>2, Idle DEF limiterState
  <2>3. ASSUME NEW w \in Nat, Charge(w), limiter = "weighted", w # 0 PROVE Rates'
    <3>1. /\ Spend(w, TRUE) /\ tokens' = Refilled - w * Window /\ refillLocked /\ UNCHANGED <<sent, nextSlot>>
          BY <2>3 DEF Charge
    <3>2. BucketKept /\ BudgetRespected BY <2>3 DEF Rates, RatesKept, RatesRespected
    <3>3. spent' \in Seq(Entries) /\ tokens' \in Int /\ updated' \in Nat /\ BucketKept' /\ BudgetRespected'
          BY <1>0, <1>3, <2>1, <2>3, <3>1, <3>2, Paid
    <3>4. RateTyped' BY <1>0, <2>1, <3>1, <3>3 DEF RateTyped
    <3> QED BY <2>1, <2>3, <3>3, <3>4 DEF Rates, RatesKept, RatesRespected, WindowRespected, SpacingRespected
  <2> QED BY <1>3, <2>2, <2>3 DEF Ends, Charge
<1>4. ASSUME NEW c \in Callers, Reports(c) PROVE Rates'
  <2>1. UNCHANGED <<limiter, spent, sent, tokens, updated, nextSlot, weight>> BY <1>4 DEF Reports, LimiterButPC, limiterState
  <2> QED BY <1>0, <2>1, Idle
<1> QED BY <1>1, <1>2, <1>3, <1>4, WaitRates, LimiterSteps

\* Whichever limiter is installed: no rolling window holds more than Limit messages,
\* the weights admitted never exceed the capacity and what was refilled meanwhile,
\* and two admissions are never closer than the interval.
THEOREM NoRateExceeded == Spec => []RatesRespected
<1>1. Init => Rates
  <2> SUFFICES ASSUME Init PROVE Rates OBVIOUS
  <2>1. /\ now = 0 /\ weight = [c \in Callers |-> 0] /\ tokens = Capacity /\ updated = 0
        /\ sent = <<>> /\ nextSlot = 0 /\ spent = <<>>
        BY DEF Init, PathInit, LimiterInit
  <2>2. Budget \in Nat /\ Window \in Nat BY LimiterAssumption
  <2>3. Capacity \in Nat BY <2>2 DEF Capacity
  <2>4. RateTyped BY <2>1, <2>3 DEF RateTyped
  <2>5. WindowKept /\ BucketKept /\ SlotKept BY <2>1, <2>3 DEF WindowKept, BucketKept, SlotKept
  <2>6. RatesRespected BY <2>1 DEF RatesRespected, WindowRespected, BudgetRespected, SpacingRespected
  <2> QED BY <2>4, <2>5, <2>6 DEF Rates, RatesKept
<1>2. Rates => RatesRespected BY DEF Rates
<1> QED BY <1>1, <1>2, BaseInit, BaseStep, OnPathInit, OnPathStep, RatesStep, PTL DEF Spec

----------------------------------------------------------------------------
(* Pauses. *)

\* The smaller and the larger of two numbers.
LEMMA MinMaxOfTwo ==
    ASSUME NEW a \in Int, NEW b \in Int
    PROVE  /\ Min({a, b}) = IF a <= b THEN a ELSE b
           /\ Max({a, b}) = IF a >= b THEN a ELSE b
<1>1. \E x \in {a, b} : \A y \in {a, b} : x <= y
  <2>1. CASE a <= b BY <2>1
  <2>2. CASE ~(a <= b) BY <2>2
  <2> QED BY <2>1, <2>2
<1>2. \E x \in {a, b} : \A y \in {a, b} : x >= y
  <2>1. CASE a >= b BY <2>1
  <2>2. CASE ~(a >= b) BY <2>2
  <2> QED BY <2>1, <2>2
<1>3. Min({a, b}) \in {a, b} /\ Min({a, b}) <= a /\ Min({a, b}) <= b BY <1>1 DEF Min
<1>4. Max({a, b}) \in {a, b} /\ Max({a, b}) >= a /\ Max({a, b}) >= b BY <1>2 DEF Max
<1> QED BY <1>3, <1>4

\* The values a delay takes in the loop of a Delay.
Iteration(f, F, start, n) == f = [i \in 0..n |-> IF i = 0 THEN start ELSE F[f[i - 1]]]

\* The loop of a Delay has a result: one value for each number of iterations.
LEMMA IterationExists ==
    ASSUME NEW F, NEW start, NEW n \in Nat
    PROVE  \E f : Iteration(f, F, start, n)
<1> DEFINE Good(m) == \E f : Iteration(f, F, start, m)
           Bad == {m \in Nat : ~Good(m)}
<1> SUFFICES Bad = {} OBVIOUS
<1> SUFFICES ASSUME Bad # {} PROVE FALSE OBVIOUS
<1>1. \E x \in Bad : \A y \in Bad : ~(<<y, x>> \in OpToRel(<, Nat))
  <2>1. Bad \in SUBSET Nat OBVIOUS
  <2> HIDE DEF Bad
  <2> QED BY <2>1, NatLessThanWellFounded, WFMin
<1>2. PICK x \in Bad : \A y \in Bad : ~(y < x)
  <2>1. \A y \in Bad : y \in Nat OBVIOUS
  <2> HIDE DEF Bad
  <2> QED BY <1>1, <2>1 DEF OpToRel
<1>3. x \in Nat /\ ~Good(x) OBVIOUS
<1>4. x # 0
  <2>1. Good(0)
    <3> DEFINE g == [i \in 0..0 |-> start]
    <3>1. g = [i \in 0..0 |-> IF i = 0 THEN start ELSE F[g[i - 1]]] OBVIOUS
    <3> QED BY <3>1 DEF Iteration
  <2> QED BY <1>3, <2>1
<1>5. x - 1 \in Nat /\ x - 1 < x BY <1>3, <1>4
<1>6. Good(x - 1) BY <1>2, <1>5
<1>7. PICK f : f = [i \in 0..(x - 1) |-> IF i = 0 THEN start ELSE F[f[i - 1]]] BY <1>6 DEF Iteration
<1> DEFINE g == [i \in 0..x |-> IF i = x THEN F[f[x - 1]] ELSE f[i]]
<1> HIDE DEF Good, Bad
<1>8. \A i \in 0..x : g[i] = IF i = 0 THEN start ELSE F[g[i - 1]]
  <2> TAKE i \in 0..x
  <2>1. CASE i = x
    <3>1. x - 1 \in 0..x /\ x - 1 # x BY <1>3, <1>5
    <3>2. g[x] = F[f[x - 1]] /\ g[x - 1] = f[x - 1] BY <1>3, <3>1
    <3> HIDE DEF g
    <3> QED BY <1>4, <2>1, <3>2
  <2>2. CASE i # x
    <3>1. i \in 0..(x - 1) /\ g[i] = f[i] BY <1>3, <2>2
    <3>2. f[i] = IF i = 0 THEN start ELSE F[f[i - 1]] BY <1>7, <3>1
    <3>3. i # 0 => i - 1 \in 0..x /\ i - 1 # x BY <1>3, <3>1
    <3>4. i # 0 => g[i - 1] = f[i - 1] BY <3>3
    <3> HIDE DEF g
    <3> QED BY <3>1, <3>2, <3>4
  <2> QED BY <2>1, <2>2
<1>9. g = [i \in 0..x |-> IF i = 0 THEN start ELSE F[g[i - 1]]]
  <2>1. g = [i \in 0..x |-> g[i]] OBVIOUS
  <2> HIDE DEF g
  <2> QED BY <1>8, <2>1
<1>10. Good(x) BY <1>9 DEF Good, Iteration
<1> QED BY <1>3, <1>10

\* Step by step.
LEMMA Iterates ==
    ASSUME NEW F, NEW start, NEW n \in Nat
    PROVE  \E f : f[0] = start /\ f[n] = Iterated(F, start, n) /\ \A i \in 1..n : f[i] = F[f[i - 1]]
<1> DEFINE f == CHOOSE g : Iteration(g, F, start, n)
<1>1. Iterated(F, start, n) = f[n] BY DEF Iterated, Iteration
<1>2. Iteration(f, F, start, n) BY IterationExists
<1> HIDE DEF f
<1>3. \A i \in 0..n : f[i] = IF i = 0 THEN start ELSE F[f[i - 1]] BY <1>2 DEF Iteration
<1>4. f[0] = start BY <1>3
<1>5. \A i \in 1..n : f[i] = F[f[i - 1]] BY <1>3
<1> QED BY <1>1, <1>4, <1>5

\* Durations that fit do not wrap, and what wraps is a duration.
LEMMA WrapFacts ==
    /\ \A d \in Durations : Wrap(d) = d
    /\ \A d \in Int : Wrap(d) \in Int
<1>1. MaxDuration \in Nat BY BackoffAssumption
<1> HIDE DEF MaxDuration
<1>2. \A m \in Nat \ {0} : \A x \in Int : (x % m \in Int) /\ (0 <= x /\ x < m => x % m = x) OBVIOUS
<1>3. 2 * (MaxDuration + 1) \in Nat \ {0} BY <1>1
<1>4. ASSUME NEW d \in Durations PROVE Wrap(d) = d
  <2>1. d \in Int /\ 0 <= d + MaxDuration + 1 /\ d + MaxDuration + 1 < 2 * (MaxDuration + 1) BY <1>1 DEF Durations
  <2>2. (d + MaxDuration + 1) % (2 * (MaxDuration + 1)) = d + MaxDuration + 1 BY <1>1, <1>2, <1>3, <2>1
  <2> QED BY <1>1, <2>1, <2>2 DEF Wrap
<1>5. ASSUME NEW d \in Int PROVE Wrap(d) \in Int
  <2>1. (d + MaxDuration + 1) % (2 * (MaxDuration + 1)) \in Int BY <1>1, <1>2, <1>3
  <2> QED BY <1>1, <2>1 DEF Wrap
<1> QED BY <1>4, <1>5

\* One iteration of either loop doubles the delay up to the cap.
LEMMA DoubleFacts ==
    ASSUME NEW max \in 1..MaxDuration, NEW d \in 0..max
    PROVE  /\ Double(d, max) = IF 2 * d >= max THEN max ELSE 2 * d
           /\ ReconnectDouble(d, max) = IF 2 * d >= max THEN max ELSE 2 * d
<1>1. MaxDuration \in Nat BY BackoffAssumption
<1> HIDE DEF MaxDuration
<1>2. 2 * d <= max => Wrap(2 * d) = 2 * d
  <2>1. 2 * d <= max => 2 * d \in Durations BY <1>1 DEF Durations
  <2> QED BY <2>1, WrapFacts
<1>3. Double(d, max) = IF 2 * d >= max THEN max ELSE 2 * d BY <1>1, <1>2 DEF Double
<1>4. ReconnectDouble(d, max) = IF 2 * d >= max THEN max ELSE 2 * d BY <1>1, <1>2 DEF ReconnectDouble
<1> QED BY <1>3, <1>4

\* What doubles up to a cap computes the capped power of two, whatever the number
\* of attempts: nothing overflows on the way.
LEMMA CappedIteration ==
    ASSUME NEW max \in 1..MaxDuration, NEW base \in 1..max, NEW n \in Nat,
           NEW F, \A d \in 0..max : F[d] = IF 2 * d >= max THEN max ELSE 2 * d
    PROVE  Iterated(F, base, n) = CappedDoubling(base, max, n) /\ CappedDoubling(base, max, n) \in 1..max
<1>0. MaxDuration \in Nat BY BackoffAssumption
<1> HIDE DEF MaxDuration
<1>1. PICK f : f[0] = base /\ f[n] = Iterated(F, base, n) /\ \A i \in 1..n : f[i] = F[f[i - 1]] BY Iterates
<1> DEFINE T == [k \in Nat |-> 2 * k]
<1>2. PICK p : p[0] = 1 /\ p[n] = Iterated(T, 1, n) /\ \A i \in 1..n : p[i] = T[p[i - 1]]
  <2> HIDE DEF T
  <2> QED BY Iterates
<1> DEFINE Right(i) == p[i] \in Nat \ {0} /\ f[i] = IF base * p[i] >= max THEN max ELSE base * p[i]
           Wrong == {i \in 0..n : ~Right(i)}
<1>3. Wrong = {}
  <2> SUFFICES ASSUME Wrong # {} PROVE FALSE OBVIOUS
  <2>1. \E x \in Wrong : \A y \in Wrong : ~(<<y, x>> \in OpToRel(<, Nat))
    <3>1. Wrong \in SUBSET Nat OBVIOUS
    <3> HIDE DEF Wrong
    <3> QED BY <3>1, NatLessThanWellFounded, WFMin
  <2>2. PICK x \in Wrong : \A y \in Wrong : ~(y < x)
    <3>1. \A y \in Wrong : y \in Nat OBVIOUS
    <3> HIDE DEF Wrong
    <3> QED BY <2>1, <3>1 DEF OpToRel
  <2>3. x \in 0..n /\ ~Right(x) OBVIOUS
  <2>4. x # 0
    <3>1. base * 1 = base /\ base <= max /\ base \in Nat /\ max \in Nat BY <1>0
    <3>2. Right(0) BY <1>1, <1>2, <3>1
    <3> QED BY <2>3, <3>2
  <2>5. x \in 1..n /\ x - 1 \in 0..n /\ x - 1 < x BY <2>3, <2>4
  <2>6. Right(x - 1) BY <2>2, <2>5
  <2>7. p[x] = 2 * p[x - 1] /\ p[x - 1] \in Nat \ {0} BY <1>2, <2>5, <2>6
  <2>8. PICK q \in Nat \ {0} : q = p[x - 1] BY <2>7
  <2>9. PICK b \in Nat : b = base * q BY <1>0
  <2>10. base * (2 * q) = 2 * b BY <1>0, <2>9
  <2>11. f[x - 1] = (IF b >= max THEN max ELSE b) /\ f[x] = F[f[x - 1]] BY <1>1, <2>5, <2>6, <2>8, <2>9
  <2>12. max \in Nat /\ f[x - 1] \in 0..max BY <1>0, <2>11
  <2>13. f[x] = IF 2 * f[x - 1] >= max THEN max ELSE 2 * f[x - 1] BY <2>11, <2>12
  <2>14. f[x] = IF 2 * b >= max THEN max ELSE 2 * b BY <2>11, <2>12, <2>13
  <2>15. Right(x) BY <2>7, <2>8, <2>10, <2>14
  <2> QED BY <2>3, <2>15
<1>4. Right(n) BY <1>3
<1>5. PICK q \in Nat \ {0} : q = PowerOfTwo(n) /\ q = p[n] BY <1>2, <1>4 DEF PowerOfTwo
<1>6. PICK b \in Nat : b = base * q BY <1>0
<1>7. b >= 1 BY <1>0, <1>6
<1>8. CappedDoubling(base, max, n) = IF b <= max THEN b ELSE max
  <2>1. max \in Int BY <1>0
  <2> QED BY <1>5, <1>6, <2>1, MinMaxOfTwo DEF CappedDoubling
<1>9. Iterated(F, base, n) = IF b >= max THEN max ELSE b BY <1>1, <1>4, <1>5, <1>6
<1> QED BY <1>0, <1>7, <1>8, <1>9

\* RetryPolicy.Delay: at most the cap of the policy whatever the jitter, and the
\* capped doubling of the base delay without one.
LEMMA DelayFacts ==
    ASSUME NEW policy, policy.base \in Durations, policy.max \in Durations, NEW n \in Nat, NEW jitter \in Durations,
           NEW max, max = IF policy.max <= 0 THEN DefaultMax ELSE policy.max,
           NEW base, base = IF policy.base <= 0 THEN DefaultBase ELSE policy.base
    PROVE  /\ normalized(policy).max = max /\ max \in 1..MaxDuration
           /\ Delay(policy, n, jitter) \in 0..max
           /\ jitter = 0 => Delay(policy, n, jitter) = CappedDoubling(Min({base, max}), max, n)
<1>0. MaxDuration \in Nat /\ DefaultBase \in 1..MaxDuration /\ DefaultMax \in 1..MaxDuration BY BackoffAssumption
<1> HIDE DEF MaxDuration
<1>1. max \in 1..MaxDuration /\ base \in 1..MaxDuration BY <1>0 DEF Durations
<1> DEFINE m == Min({base, max})
           F == [d \in Durations |-> Double(d, max)]
           D == Iterated(F, m, n)
<1>2. m \in 1..max BY <1>0, <1>1, MinMaxOfTwo
<1>3. normalized(policy).max = max /\ normalized(policy).base = m BY DEF normalized
<1>4. Delay(policy, n, jitter) = Clamp(Wrap(D + jitter), max) BY <1>3 DEF Delay, Doubled
<1> HIDE DEF m
<1>5. \A d \in 0..max : F[d] = IF 2 * d >= max THEN max ELSE 2 * d
  <2> TAKE d \in 0..max
  <2>1. d \in Durations BY <1>0, <1>1 DEF Durations
  <2> QED BY <1>1, <2>1, DoubleFacts
<1> HIDE DEF F
<1>6. D = CappedDoubling(m, max, n) /\ D \in 1..max BY <1>1, <1>2, <1>5, CappedIteration
<1> HIDE DEF D
<1>7. D \in Durations /\ D + jitter \in Int BY <1>0, <1>1, <1>6 DEF Durations
<1>8. Wrap(D + jitter) \in Int BY <1>7, WrapFacts
<1>9. Delay(policy, n, jitter) \in 0..max BY <1>0, <1>1, <1>4, <1>8 DEF Clamp
<1>10. ASSUME jitter = 0 PROVE Delay(policy, n, jitter) = D
  <2>1. D + jitter = D BY <1>7, <1>10 DEF Durations
  <2>2. Wrap(D + jitter) = D BY <1>7, <2>1, WrapFacts
  <2> QED BY <1>0, <1>1, <1>4, <1>6, <2>2 DEF Clamp
<1> QED BY <1>1, <1>3, <1>6, <1>9, <1>10 DEF m

\* RetryAfterDelay: nothing, or what the header says up to the cap.
LEMMA RetryAfterFacts ==
    ASSUME NEW policy, NEW max \in 1..MaxDuration, normalized(policy).max = max, NEW header, header.value \in Int
    PROVE  /\ RetryAfterDelay(policy, header) \in {NoDelay} \cup 0..max
           /\ header.form = "none" => RetryAfterDelay(policy, header) = NoDelay
           /\ header.form = "seconds" /\ header.value \in 0..MaxDuration \div Second =>
                 RetryAfterDelay(policy, header) = Min({header.value * Second, max})
<1>0. MaxDuration \in Nat /\ Second \in 1..MaxDuration BY BackoffAssumption
<1> HIDE DEF MaxDuration
<1>1. \A v \in Nat : Min({v, max}) \in 0..max BY <1>0, MinMaxOfTwo
<1> DEFINE v == header.value
<1>2. CASE header.form = "seconds"
  <2>1. RetryAfterDelay(policy, header) =
            IF v < 0 \/ v > MaxDuration \div Second THEN NoDelay ELSE Min({v * Second, max})
        BY <1>2, Zenon DEF RetryAfterDelay
  <2>2. MaxDuration \div Second \in Int BY <1>0
  <2>3. v >= 0 => v * Second \in Nat BY <1>0
  <2>4. header.form # "none" BY <1>2
  <2>5. CASE v < 0 \/ v > MaxDuration \div Second BY <2>1, <2>2, <2>4, <2>5
  <2>6. CASE ~(v < 0 \/ v > MaxDuration \div Second)
    <3>1. RetryAfterDelay(policy, header) = Min({v * Second, max}) BY <2>1, <2>6
    <3>2. Min({v * Second, max}) \in 0..max BY <1>1, <2>3, <2>6
    <3> QED BY <2>4, <3>1, <3>2
  <2> QED BY <2>5, <2>6
<1>3. CASE header.form = "date"
  <2>1. RetryAfterDelay(policy, header) = IF v <= 0 THEN NoDelay ELSE Min({v, max})
        BY <1>3, Zenon DEF RetryAfterDelay
  <2> QED BY <1>1, <1>3, <2>1
<1>4. CASE header.form \notin {"seconds", "date"}
  <2>1. RetryAfterDelay(policy, header) = NoDelay BY <1>4, Zenon DEF RetryAfterDelay
  <2> QED BY <1>4, <2>1
<1> QED BY <1>2, <1>3, <1>4

\* ExponentialReconnectPolicy.Delay: at most the cap whatever the jitter, and in
\* the upper half of the capped doubling by default.
LEMMA ReconnectFacts ==
    ASSUME NEW policy, policy.base \in Durations, policy.max \in Durations, NEW n \in Nat,
           NEW max, max = IF policy.max <= 0 THEN DefaultMax ELSE policy.max,
           NEW base, base = IF policy.base <= 0 THEN DefaultBase ELSE policy.base
    PROVE  /\ \A j \in Int : ReconnectDelay(policy, n, j) \in 0..Max({base, max})
           /\ LET d == CappedDoubling(base, Max({base, max}), n)
              IN \A j \in equalReconnectJitter(ReconnectCapped(policy, n).delay) :
                    j \in Int /\ ReconnectDelay(policy, n, j) \in (d \div 2)..d
<1>0. MaxDuration \in Nat /\ DefaultBase \in 1..MaxDuration /\ DefaultMax \in 1..MaxDuration BY BackoffAssumption
<1> HIDE DEF MaxDuration
<1>1. max \in 1..MaxDuration /\ base \in 1..MaxDuration BY <1>0 DEF Durations
<1> DEFINE m == Max({base, max})
           F == [d \in Durations |-> ReconnectDouble(d, m)]
           D == Iterated(F, base, n)
<1>2. m \in 1..MaxDuration /\ base \in 1..m
  <2>1. base \in Int /\ max \in Int BY <1>0, <1>1
  <2>2. m = IF base >= max THEN base ELSE max BY <2>1, MinMaxOfTwo
  <2> HIDE DEF m
  <2> QED BY <1>0, <1>1, <2>2
<1>3. ReconnectCapped(policy, n).max = m /\ ReconnectCapped(policy, n).delay = D
  <2>1. {max, base} = {base, max} OBVIOUS
  <2> QED BY <2>1 DEF ReconnectCapped
<1>4. \A j : ReconnectDelay(policy, n, j) = Clamp(j, m) BY <1>3 DEF ReconnectDelay
<1> HIDE DEF m
<1>5. \A d \in 0..m : F[d] = IF 2 * d >= m THEN m ELSE 2 * d
  <2> TAKE d \in 0..m
  <2>1. d \in Durations BY <1>0, <1>2 DEF Durations
  <2> QED BY <1>2, <2>1, DoubleFacts
<1> HIDE DEF F
<1>6. D = CappedDoubling(base, m, n) /\ D \in 1..m BY <1>2, <1>5, CappedIteration
<1> HIDE DEF D
<1>7. \A j \in Int : ReconnectDelay(policy, n, j) \in 0..m BY <1>0, <1>2, <1>4 DEF Clamp
<1>8. ASSUME NEW j \in equalReconnectJitter(D) PROVE j \in Int /\ ReconnectDelay(policy, n, j) \in (D \div 2)..D
  <2>1. D \in Nat /\ D > 0 /\ D <= m /\ m \in Nat BY <1>0, <1>2, <1>6
  <2>2. j \in (D \div 2)..D BY <1>8, <2>1 DEF equalReconnectJitter
  <2>3. D \div 2 \in Nat BY <2>1
  <2>4. j \in Nat /\ j <= m BY <2>1, <2>2, <2>3
  <2> QED BY <1>4, <2>1, <2>2, <2>4 DEF Clamp
<1> QED BY <1>3, <1>6, <1>7, <1>8 DEF m

\* Only a call that pauses has a pause.
Pausing == DOMAIN pause = Callers /\ \A c \in Callers : pause[c] # NoPause => ipc[c] = "pause" /\ BoundedPause(c)

\* Client.call after a status worth a retry.
LEMMA RetryPause ==
    ASSUME Base, OnPath, NEW c \in Callers, Retryable(c), DOMAIN pause = Callers
    PROVE  BoundedPause(c)'
<1>1. /\ config \in Configs /\ attempt[c] \in Nat /\ DOMAIN req = Callers BY DEF Base, Typed, OnPath, PathTyped
<1>2. req[c].kind = "info" /\ UNCHANGED <<attempt, config, req>> BY DEF Retryable, LastAttempt
<1>3. PICK jitter \in config.jitters, header \in config.headers :
        PauseFor(c, LET after == IF config.ws THEN NoDelay ELSE RetryAfterDelay(Policy, header)
                    IN IF after # NoDelay THEN after ELSE Delay(Policy, attempt[c], jitter), jitter, header)
      BY DEF Retryable
<1>4. /\ config.policy.attempts \in Int /\ config.policy.base \in Durations /\ config.policy.max \in Durations
      /\ jitter \in Durations /\ header.value \in Int
      BY <1>1, ResolverAssumption
<1>5. MaxDuration \in Nat /\ DefaultBase \in 1..MaxDuration /\ DefaultMax \in 1..MaxDuration BY BackoffAssumption
<1> HIDE DEF MaxDuration
<1> DEFINE default == config.policy.attempts <= 0
           max == IF config.policy.max <= 0 \/ default THEN DefaultMax ELSE config.policy.max
           base == IF config.policy.base <= 0 \/ default THEN DefaultBase ELSE config.policy.base
           after == IF config.ws THEN NoDelay ELSE RetryAfterDelay(Policy, header)
           delay == IF after # NoDelay THEN after ELSE Delay(Policy, attempt[c], jitter)
           first == Delay(Policy, attempt[c], jitter)
<1>6. /\ Policy.base \in Durations /\ Policy.max \in Durations
      /\ max = IF Policy.max <= 0 THEN DefaultMax ELSE Policy.max
      /\ base = IF Policy.base <= 0 THEN DefaultBase ELSE Policy.base
      BY <1>4, <1>5 DEF Policy, Durations
<1>7. pause'[c].delay = delay /\ pause'[c].jitter = jitter /\ pause'[c].header = header BY <1>3 DEF PauseFor
<1> HIDE DEF max, base
<1>8. /\ normalized(Policy).max = max /\ max \in 1..MaxDuration /\ first \in 0..max
      /\ jitter = 0 => first = CappedDoubling(Min({base, max}), max, attempt[c])
  <2>1. attempt[c] \in Nat /\ jitter \in Durations BY <1>1, <1>4
  <2>2. /\ normalized(Policy).max = max /\ max \in 1..MaxDuration
        /\ Delay(Policy, attempt[c], jitter) \in 0..max
        /\ jitter = 0 => Delay(Policy, attempt[c], jitter) = CappedDoubling(Min({base, max}), max, attempt[c])
        BY <2>1, <1>6, DelayFacts, SMTT(30)
  <2> QED BY <2>2
<1> HIDE DEF first
<1>9. /\ RetryAfterDelay(Policy, header) \in {NoDelay} \cup 0..max
      /\ header.form = "none" => RetryAfterDelay(Policy, header) = NoDelay
      /\ header.form = "seconds" /\ header.value \in 0..MaxDuration \div Second =>
            RetryAfterDelay(Policy, header) = Min({header.value * Second, max})
      BY <1>4, <1>8, RetryAfterFacts
<1>10. delay = IF after # NoDelay THEN after ELSE first BY DEF first
<1>11. \A x \in Nat : x # NoDelay BY DEF NoDelay
<1>12. delay \in 0..max BY <1>8, <1>9, <1>10
<1>13. jitter = 0 /\ (config.ws \/ header.form = "none") => delay = CappedDoubling(Min({base, max}), max, attempt[c])
       BY <1>8, <1>9, <1>10
<1>14. ASSUME ~config.ws, header.form = "seconds", header.value \in 0..MaxDuration \div Second
       PROVE  delay = Min({header.value * Second, max})
  <2>1. after = Min({header.value * Second, max}) BY <1>9, <1>14
  <2>2. after \in Nat
    <3>1. Second \in Nat /\ header.value \in Nat /\ max \in Int /\ max >= 0 BY <1>5, <1>8, <1>14, BackoffAssumption
    <3>2. header.value * Second \in Nat BY <3>1
    <3> QED BY <2>1, <3>1, <3>2, MinMaxOfTwo
  <2> QED BY <1>10, <1>11, <2>1, <2>2
<1> HIDE DEF delay
<1> QED BY <1>2, <1>7, <1>12, <1>13, <1>14 DEF BoundedPause, max, base

\* The run loop of a connection manager after a failed dial or a lost connection.
LEMMA ReconnectPause ==
    ASSUME Base, OnPath, NEW c \in Callers, waitReconnect(c, attempt[c]), DOMAIN pause = Callers,
           req[c].kind = "message", UNCHANGED <<attempt, config, req>>
    PROVE  BoundedPause(c)'
<1>1. config \in Configs /\ attempt[c] \in Nat BY DEF Base, Typed, OnPath, PathTyped
<1>2. PICK j \in Jitters(ReconnectCapped(config.policy, attempt[c]).delay) :
        PauseFor(c, ReconnectDelay(config.policy, attempt[c], j), j, NoHeader)
      BY DEF waitReconnect
<1>3. /\ config.policy.attempts \in Int /\ config.policy.base \in Durations /\ config.policy.max \in Durations
      /\ config.jitters \subseteq Durations
      BY <1>1, ResolverAssumption
<1>4. MaxDuration \in Nat BY BackoffAssumption
<1> HIDE DEF MaxDuration
<1> DEFINE max == IF config.policy.max <= 0 THEN DefaultMax ELSE config.policy.max
           base == IF config.policy.base <= 0 THEN DefaultBase ELSE config.policy.base
           delay == ReconnectDelay(config.policy, attempt[c], j)
           d == CappedDoubling(base, Max({base, max}), attempt[c])
           capped == ReconnectCapped(config.policy, attempt[c]).delay
<1>5. pause'[c].delay = delay BY <1>2 DEF PauseFor
<1>6. /\ \A k \in Int : ReconnectDelay(config.policy, attempt[c], k) \in 0..Max({base, max})
      /\ \A k \in equalReconnectJitter(capped) :
            k \in Int /\ ReconnectDelay(config.policy, attempt[c], k) \in (d \div 2)..d
      BY <1>1, <1>3, ReconnectFacts
<1>7. \A k \in Durations : k \in Int BY <1>4 DEF Durations
<1>8. config.jitters = {} => j \in equalReconnectJitter(capped) BY <1>2 DEF Jitters
<1>9. config.jitters # {} => j \in Int BY <1>2, <1>3, <1>7 DEF Jitters
<1> HIDE DEF capped
<1>10. delay \in 0..Max({base, max}) BY <1>6, <1>8, <1>9
<1>11. config.jitters = {} => delay \in (d \div 2)..d BY <1>6, <1>8
<1> HIDE DEF delay
<1> QED BY <1>5, <1>10, <1>11 DEF BoundedPause

\* A step that sets no pause: a pause stays as long as its attempt and request do.
LEMMA PauseKept ==
    ASSUME Pausing, DOMAIN pause' = Callers, UNCHANGED config,
           \A d \in Callers : \/ pause'[d] = NoPause
                              \/ pause'[d] = pause[d] /\ ipc[d] # "pause"
                              \/ /\ pause'[d] = pause[d] /\ ipc'[d] = ipc[d]
                                 /\ attempt'[d] = attempt[d] /\ req'[d] = req[d]
    PROVE  Pausing'
<1> SUFFICES ASSUME NEW d \in Callers, pause'[d] # NoPause PROVE ipc'[d] = "pause" /\ BoundedPause(d)'
    BY DEF Pausing
<1>1. pause'[d] = pause[d] /\ ipc'[d] = ipc[d] /\ attempt'[d] = attempt[d] /\ req'[d] = req[d] BY DEF Pausing
<1>2. ipc[d] = "pause" /\ BoundedPause(d) BY <1>1 DEF Pausing
<1> QED BY <1>1, <1>2 DEF BoundedPause

\* A step of caller c that sets its pause.
LEMMA PauseSet ==
    ASSUME Pausing, OnPath, NEW c \in Callers, UNCHANGED <<config, attempt, req>>, BoundedPause(c)',
           NEW p, pause' = [pause EXCEPT ![c] = p], IPC(c, "pause")
    PROVE  Pausing'
<1>1. DOMAIN pause = Callers /\ ipc \in [Callers -> PathPlaces] BY DEF Pausing, OnPath, PathTyped
<1>2. ASSUME NEW d \in Callers, pause'[d] # NoPause PROVE ipc'[d] = "pause" /\ BoundedPause(d)'
  <2>1. CASE d = c BY <1>1, <2>1 DEF IPC
  <2>2. CASE d # c
    <3>1. pause'[d] = pause[d] /\ ipc'[d] = ipc[d] BY <1>1, <2>2 DEF IPC
    <3>2. ipc[d] = "pause" /\ BoundedPause(d) BY <1>2, <3>1 DEF Pausing
    <3> QED BY <3>1, <3>2 DEF BoundedPause
  <2> QED BY <2>1, <2>2
<1> QED BY <1>1, <1>2 DEF Pausing

\* The steps of a call.
LEMMA RequestPauses ==
    ASSUME Base, OnPath, Pausing, NEW c \in Callers, RequestStep(c) PROVE Pausing'
<1>0. /\ UNCHANGED <<config, req>> /\ DOMAIN pause = Callers /\ ipc \in [Callers -> PathPlaces]
      /\ attempt \in [Callers -> Nat] /\ Sound(c)
      BY RequestFacts DEF Base, OnPath, PathTyped, Pausing
<1>1. ASSUME NEW to, IPC(c, to), UNCHANGED pause, ipc[c] # "pause",
             attempt' = attempt \/ \E n : attempt' = [attempt EXCEPT ![c] = n]
      PROVE  Pausing'
  <2>1. \A d \in Callers \ {c} : ipc'[d] = ipc[d] /\ attempt'[d] = attempt[d] BY <1>0, <1>1 DEF IPC
  <2> QED BY <1>0, <1>1, <2>1, PauseKept
<1>2. ASSUME NEW to, IPC(c, to), Resume(c), attempt' = attempt \/ \E n : attempt' = [attempt EXCEPT ![c] = n]
      PROVE  Pausing'
  <2>1. \A d \in Callers \ {c} : ipc'[d] = ipc[d] /\ attempt'[d] = attempt[d] /\ pause'[d] = pause[d]
        BY <1>0, <1>2 DEF IPC, Resume
  <2>2. DOMAIN pause' = Callers /\ pause'[c] = NoPause BY <1>0, <1>2 DEF Resume
  <2> QED BY <1>0, <2>1, <2>2, PauseKept
<1>3. CASE Call(c) BY <1>1, <1>3 DEF Call
<1>4. CASE NotAdmitted(c) BY <1>1, <1>4 DEF NotAdmitted
<1>5. CASE Answered(c) BY <1>1, <1>5 DEF Answered, InFlight
<1>6. CASE Failed(c) BY <1>1, <1>6 DEF Failed, InFlight
<1>7. CASE Retryable(c)
  <2>1. BoundedPause(c)' BY <1>0, <1>7, RetryPause
  <2>2. UNCHANGED attempt /\ IPC(c, "pause") /\ \E p : pause' = [pause EXCEPT ![c] = p] BY <1>7 DEF Retryable, PauseFor
  <2> QED BY <1>0, <2>1, <2>2, PauseSet
<1>8. CASE Retry(c) BY <1>2, <1>8 DEF Retry
<1>9. CASE PauseCancelled(c) BY <1>2, <1>9 DEF PauseCancelled
<1>10. CASE DialFails(c) \/ ConnectionLost(c)
  <2>1. waitReconnect(c, attempt[c]) /\ UNCHANGED attempt /\ req[c].kind = "message"
        BY <1>0, <1>10 DEF DialFails, ConnectionLost, Sound, InPlace
  <2>2. BoundedPause(c)' BY <1>0, <2>1, ReconnectPause
  <2>3. IPC(c, "pause") /\ \E p : pause' = [pause EXCEPT ![c] = p] BY <2>1 DEF waitReconnect, PauseFor
  <2> QED BY <1>0, <2>1, <2>2, <2>3, PauseSet
<1>11. CASE DialSucceeds(c) BY <1>1, <1>11 DEF DialSucceeds
<1>12. CASE Written(c) BY <1>1, <1>12 DEF Written, InFlight
<1>13. CASE Redial(c) BY <1>2, <1>13 DEF Redial
<1> QED BY <1>3, <1>4, <1>5, <1>6, <1>7, <1>8, <1>9, <1>10, <1>11, <1>12, <1>13 DEF RequestStep

\* Every step.
LEMMA PausingStep == Base /\ OnPath /\ Pausing /\ [Next]_vars => Pausing'
<1> SUFFICES ASSUME Base, OnPath, Pausing, [Next]_vars PROVE Pausing' OBVIOUS
<1>0. /\ DOMAIN pause = Callers /\ ipc \in [Callers -> PathPlaces] /\ DOMAIN req = Callers
      /\ \A c \in Callers : Sound(c)
      BY DEF OnPath, PathTyped, Pausing, Base, Typed
<1>1. CASE UNCHANGED <<config, pause, ipc, attempt, req>> BY <1>0, <1>1, PauseKept
<1>2. ASSUME NEW c \in Callers, UNCHANGED <<config, pause, attempt>>, ipc[c] # "pause",
             \A d \in Callers \ {c} : ipc'[d] = ipc[d] /\ req'[d] = req[d]
      PROVE  Pausing'
      BY <1>0, <1>2, PauseKept
<1>3. ASSUME NEW c \in Callers, Begin(c) PROVE Pausing'
  <2>1. UNCHANGED <<config, pause, attempt>> /\ rpc[c] = "idle" /\ \E r : req' = [req EXCEPT ![c] = r] BY <1>3 DEF Begin
  <2>2. UNCHANGED ipc \/ \E to : IPC(c, to)
    <3>1. PICK r \in Requests(config, c) :
            CASE r.op = "send" ->
                  /\ RPC(c, "path")
                  /\ IF r.kind = "message" THEN IPC(c, "dial") /\ UNCHANGED limiterVars
                     ELSE IPC(c, "do") /\ TransportDo(c, r)
                  /\ UNCHANGED <<todo, result>>
             [] r.op # "send" /\ RefusedMarket(r) -> Finish(c, "error") /\ UNCHANGED <<ipc, todo, limiterVars>>
             [] OTHER -> /\ RPC(c, IF r.op = "cached" THEN "lookup" ELSE "demand")
                         /\ todo' = [todo EXCEPT ![c] = PlanOf(r)]
                         /\ UNCHANGED <<ipc, result, limiterVars>>
          BY <1>3, Zenon DEF Begin
    <3>2. CASE r.op = "send" BY <3>1, <3>2
    <3>3. CASE r.op # "send" BY <3>1, <3>3
    <3> QED BY <3>2, <3>3
  <2>3. ipc[c] # "pause" BY <1>0, <2>1 DEF Sound, InPlace
  <2>4. \A d \in Callers \ {c} : ipc'[d] = ipc[d] /\ req'[d] = req[d] BY <1>0, <2>1, <2>2 DEF IPC
  <2> QED BY <1>2, <2>1, <2>3, <2>4
<1>4. ASSUME NEW c \in Callers, Demand(c) PROVE Pausing'
  <2>1. UNCHANGED <<config, pause, attempt, req>> /\ rpc[c] = "demand" BY <1>4 DEF Demand
  <2>2. UNCHANGED ipc \/ \E to : IPC(c, to) BY <1>4, DemandCases DEF Base
  <2>3. ipc[c] # "pause" BY <1>0, <2>1 DEF Sound, InPlace
  <2>4. \A d \in Callers \ {c} : ipc'[d] = ipc[d] /\ req'[d] = req[d] BY <1>0, <2>1, <2>2 DEF IPC
  <2> QED BY <1>2, <2>1, <2>3, <2>4
<1>5. ASSUME NEW c \in Callers, Fetch(c) PROVE Pausing'
  <2>1. /\ UNCHANGED <<config, pause, attempt, req>> /\ ipc[c] \in {"ok", "error"}
        /\ IPC(c, "idle") \/ IPC(c, "call")
        BY <1>5 DEF Fetch
  <2>2. \A d \in Callers \ {c} : ipc'[d] = ipc[d] /\ req'[d] = req[d] BY <1>0, <2>1 DEF IPC
  <2> QED BY <1>2, <2>1, <2>2
<1>6. ASSUME NEW c \in Callers, Join(c) \/ RefreshOptional(c) \/ Lookup(c) \/ Fill(c) PROVE Pausing'
      BY <1>1, <1>6 DEF Join, RefreshOptional, Lookup, Fill, pathVars
<1>7. ASSUME NEW c \in Callers, WaitStep(c), UNCHANGED pathVars PROVE Pausing' BY <1>1, <1>7 DEF pathVars
<1>8. ASSUME NEW c \in Callers, CallerStep(c) PROVE Pausing'
      BY <1>3, <1>4, <1>5, <1>6, <1>7, <1>8, RequestPauses DEF CallerStep
<1>9. ASSUME NEW c \in Callers, Cancel(c) PROVE Pausing' BY <1>1, <1>9 DEF Cancel, pathVars
<1>10. CASE ServerUpdates \/ ClockTick \/ UNCHANGED vars BY <1>1, <1>10 DEF ServerUpdates, ClockTick, vars, pathVars
<1> QED BY <1>8, <1>9, <1>10 DEF Next

\* RetryPolicy and ExponentialReconnectPolicy: however many attempts have failed,
\* whatever the policy, the jitter and the header say, a pause is what the capped
\* doubling gives, never negative and never above the cap: no duration wraps.
THEOREM NoPauseRunsAway == Spec => []PausesBounded
<1>1. Init => Pausing BY DEF Init, PathInit, Pausing
<1>2. Pausing => PausesBounded BY DEF Pausing, PausesBounded
<1> QED BY <1>1, <1>2, TypeCorrect, OnPathInit, OnPathStep, PausingStep, PTL DEF Spec
=============================================================================
