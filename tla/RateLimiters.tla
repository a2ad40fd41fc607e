---------------------------- MODULE RateLimiters ----------------------------
(***************************************************************************)
(* The three admission limiters: the rolling message window of              *)
(* websocket/rate.go, the FIFO token bucket of transport/                   *)
(* weighted_rate_limit.go and the FIFO interval limiter of                  *)
(* transport/middleware.go.  Each is a loop around a mutex: check the       *)
(* context, take the lock, admit or choose what to wait for, release the    *)
(* lock, wait for a timer, a change of the queue or the context.  The       *)
(* installed limiter is chosen once ("none" is a transport without one).    *)
(*                                                                          *)
(* Looking at the context touches nothing another caller sees, so it is one *)
(* step with the critical section it leads to.  Tokens are counted in units *)
(* of 1/Window token: a tick of the (monotonic) clock refills Budget units. *)
(***************************************************************************)
EXTENDS Integers, Sequences, SequencesExt, FiniteSetsExt

CONSTANTS Callers,          \* goroutines that share the limiter
          Limit, Span,      \* messageRateLimiter: messages per rolling window
          Budget, Window,   \* weightedRateLimiter: capacity, ticks to refill it
          Interval          \* rateLimiter: ticks between two admissions

ASSUME LimiterAssumption ==
    {Limit, Span, Budget, Window, Interval} \subseteq Nat \ {0}

VARIABLES now,        \* the clock
          limiter,    \* "window", "weighted", "interval" or "none"
          lpc,        \* per caller: where it is in Wait
          weight,     \* per caller: the weight it waits for
          cancelled,  \* the callers whose context is done
          woken,      \* the callers whose captured `changed` channel is closed
          timer,      \* per caller: when its timer fires, NoTimer without one
          queue,      \* the waiters, first in first out
          tokens, updated,  \* the bucket, and when it was last refilled
          sent,       \* the admissions the rolling window remembers
          nextSlot,   \* the earliest next admission of the interval limiter
          spent,      \* history: admissions and surcharges: [at, weight, charge,
                      \* total], total being the weights up to and with this one
          ahead,      \* history: per caller, who was waiting when it was queued
          tickets     \* history: per caller, admissions it has not used

limiterState == <<queue, tokens, updated, sent, nextSlot>>
history == <<spent, ahead, tickets>>
limiterVars == <<limiter, lpc, weight, woken, timer, limiterState, history>>

NoTimer == -1
Capacity == Budget * Window

LimiterInit ==
    /\ now = 0
    /\ lpc = [c \in Callers |-> "idle"]
    /\ weight = [c \in Callers |-> 0]
    /\ cancelled = {} /\ woken = {}
    /\ timer = [c \in Callers |-> NoTimer]
    /\ queue = <<>> /\ tokens = Capacity /\ updated = 0
    /\ sent = <<>> /\ nextSlot = 0
    /\ spent = <<>>
    /\ ahead = [c \in Callers |-> {}]
    /\ tickets = [c \in Callers |-> 0]

\* notifyLocked: close(changed) wakes whoever captured it.
notifyLocked == woken' = {c \in Callers : lpc[c] = "select"}

IsHeadAlways(c) == TRUE
IsHead(c) == queue # <<>> /\ Head(queue) = c
Departed(c, own) == ahead' = [d \in Callers |-> IF d = c THEN own ELSE ahead[d] \ {c}]
Total == IF spent = <<>> THEN 0 ELSE spent[Len(spent)].total
Spend(w, isCharge) ==
    spent' = Append(spent, [at |-> now, weight |-> w, charge |-> isCharge, total |-> Total + w])

----------------------------------------------------------------------------
(* Wait, up to its loop. *)

Waiters == {d \in Callers : lpc[d] \in {"top", "select"}}
Enqueue(c, w) ==
    /\ queue' = Append(queue, c)
    /\ ahead' = [ahead EXCEPT ![c] = Waiters]
    /\ weight' = [weight EXCEPT ![c] = w]
    /\ notifyLocked
    /\ lpc' = [lpc EXCEPT ![c] = "top"]
    /\ UNCHANGED <<limiter, timer, tokens, updated, sent, nextSlot, spent, tickets>>
ReturnAtOnce(c, outcome) ==
    /\ lpc' = [lpc EXCEPT ![c] = outcome]
    /\ UNCHANGED <<limiter, weight, woken, timer, limiterState, history>>

Wait(c, w) ==
    CASE limiter = "none" -> ReturnAtOnce(c, "granted")
      [] limiter = "window" -> ReturnAtOnce(c, "top")
      [] limiter = "weighted" ->
           (CASE c \in cancelled -> ReturnAtOnce(c, "failed")
             [] c \notin cancelled /\ w = 0 -> ReturnAtOnce(c, "granted")
             [] c \notin cancelled /\ w > Budget -> ReturnAtOnce(c, "failed")
             [] OTHER -> Enqueue(c, w))
      [] limiter = "interval" ->
           IF c \in cancelled THEN ReturnAtOnce(c, "failed") ELSE Enqueue(c, 1)

----------------------------------------------------------------------------
(* The loop: an admission, or the wait outside the lock; the `changed`       *)
(* channel was captured under it.                                            *)

Looping(c, kind) == lpc[c] = "top" /\ limiter = kind /\ c \notin cancelled
Sleep(c, until) ==
    /\ lpc' = [lpc EXCEPT ![c] = "select"]
    /\ woken' = woken \ {c}
    /\ timer' = [timer EXCEPT ![c] = until]
    /\ UNCHANGED <<limiter, weight, history>>
Grant(c, w) ==
    /\ lpc' = [lpc EXCEPT ![c] = "granted"]
    /\ weight' = [weight EXCEPT ![c] = 0]
    /\ Spend(w, FALSE)
    /\ tickets' = [tickets EXCEPT ![c] = @ + 1]
    /\ Departed(c, ahead[c])
    /\ UNCHANGED <<limiter, timer>>

\* messageRateLimiter.Wait.
AfterCutoff(t) == t > now - Span
FirstKept ==
    CHOOSE n \in 0..Len(sent) : /\ \A i \in 1..n : ~AfterCutoff(sent[i])
                                /\ n < Len(sent) => AfterCutoff(sent[n + 1])
WindowLocked(c) ==
    LET kept == SubSeq(sent, FirstKept + 1, Len(sent))
    IN /\ Looping(c, "window")
       /\ UNCHANGED <<queue, tokens, updated, nextSlot>>
       /\ IF Len(kept) < Limit
          THEN sent' = Append(kept, now) /\ Grant(c, 1) /\ UNCHANGED woken
          ELSE sent' = kept /\ Sleep(c, kept[1] + Span)

\* weightedRateLimiter.Wait, with refillLocked and delayLocked.
RefilledUncapped == tokens + (now - updated) * Budget
Refilled == IF now <= updated THEN tokens ELSE Min({Capacity, tokens + (now - updated) * Budget})
refillLocked == updated' = IF now <= updated THEN updated ELSE now
delayLocked(w) ==
    LET missing == w * Window - Refilled
    IN IF missing <= 0 THEN 1 ELSE (missing + Budget - 1) \div Budget
WeightedLocked(c) ==
    /\ Looping(c, "weighted")
    /\ refillLocked
    /\ UNCHANGED <<sent, nextSlot>>
    /\ IF IsHead(c) /\ Refilled >= weight[c] * Window
       THEN /\ tokens' = Refilled - weight[c] * Window
            /\ queue' = Tail(queue)
            /\ notifyLocked /\ Grant(c, weight[c])
       ELSE /\ tokens' = Refilled /\ UNCHANGED queue
            /\ Sleep(c, IF IsHead(c) THEN now + delayLocked(weight[c]) ELSE NoTimer)

\* rateLimiter.wait: a waiter whose slot time has passed spins until it is first
\* (a step that changes nothing).
SlotAfter == now + Interval
IntervalLocked(c) ==
    /\ Looping(c, "interval")
    /\ UNCHANGED <<tokens, updated, sent>>
    /\ \/ /\ IsHead(c) /\ nextSlot <= now
          /\ queue' = Tail(queue)
          /\ nextSlot' = SlotAfter
          /\ notifyLocked /\ Grant(c, 1)
       \/ nextSlot > now /\ Sleep(c, nextSlot) /\ UNCHANGED <<queue, nextSlot>>

\* The select: a timer or a closed channel runs the loop again, the context
\* ends it; when several are ready, any of them.
Awake(c) ==
    /\ lpc[c] = "select"
    /\ c \in woken \/ (timer[c] # NoTimer /\ timer[c] <= now)
    /\ lpc' = [lpc EXCEPT ![c] = "top"]
    /\ timer' = [timer EXCEPT ![c] = NoTimer]
    /\ UNCHANGED <<limiter, weight, woken, limiterState, history>>

\* The context is done, at the top of the loop or in the select; remove takes
\* the waiter out of the queue and tells the others.
Leaving(c) == lpc[c] \in {"top", "select"} /\ c \in cancelled
Left(c) ==
    /\ lpc' = [lpc EXCEPT ![c] = "failed"]
    /\ timer' = [timer EXCEPT ![c] = NoTimer]
    /\ weight' = [weight EXCEPT ![c] = 0]
    /\ Departed(c, {})
    /\ UNCHANGED <<limiter, tokens, updated, sent, nextSlot, spent, tickets>>
Queued(c) == \E i \in DOMAIN queue : queue[i] = c
TakenOut(c) ==
    queue' = IF Queued(c) THEN RemoveAt(queue, CHOOSE i \in DOMAIN queue : queue[i] = c) ELSE queue
removeQuietly(c) == Leaving(c) /\ Left(c) /\ TakenOut(c) /\ UNCHANGED woken
remove(c) ==
    /\ Leaving(c) /\ Left(c) /\ TakenOut(c)
    /\ IF Queued(c) THEN notifyLocked ELSE UNCHANGED woken

WaitStep(c) == WindowLocked(c) \/ WeightedLocked(c) \/ IntervalLocked(c) \/ Awake(c) \/ remove(c)

\* Charge reserves a surcharge after the fact, and may overdraw the bucket.
Charge(w) ==
    IF limiter # "weighted" \/ w = 0 THEN UNCHANGED <<limiterState, woken, spent>>
    ELSE /\ tokens' = Refilled - w * Window
         /\ refillLocked
         /\ notifyLocked
         /\ Spend(w, TRUE)
         /\ UNCHANGED <<queue, sent, nextSlot>>

Tick == now' = now + 1

----------------------------------------------------------------------------
\* The weights of the entries from i to j.
Weights(i, j) == spent[j].total - spent[i].total + spent[i].weight

\* messageRateLimiter.Wait: no rolling window of Span ticks ever holds more than
\* Limit admissions, whoever waited, gave up or retried.
WindowRespected ==
    limiter = "window" =>
        \A i \in DOMAIN spent : i + Limit \in DOMAIN spent => spent[i + Limit].at - spent[i].at >= Span

\* weightedRateLimiter: between any two instants the admitted weights, with every
\* surcharge made before the last admission, exceed the capacity by no more than
\* what was refilled meanwhile.
BudgetRespected ==
    limiter = "weighted" =>
        \A i, j \in DOMAIN spent : i <= j /\ ~spent[j].charge =>
            Weights(i, j) * Window <= Capacity + (spent[j].at - spent[i].at) * Budget

\* rateLimiter: two admissions are never closer than the interval, idle time
\* included: it buys no burst.
SpacingRespected ==
    limiter = "interval" =>
        \A i \in 1..Len(spent) - 1 : spent[i + 1].at - spent[i].at >= Interval

\* Whichever limiter is installed keeps its rate.
RatesRespected == WindowRespected /\ BudgetRespected /\ SpacingRespected

\* The FIFO limiters admit nobody before a waiter that was queued earlier and has
\* neither been admitted nor given up, so that a heavy request is not overtaken by
\* light ones for ever; and whoever has returned is no longer in the queue, where
\* it would block everyone behind it.
FirstInFirstOut ==
    /\ limiter \in {"weighted", "interval"} => \A c \in Callers : lpc[c] = "granted" => ahead[c] = {}
    /\ ToSet(queue) \subseteq Waiters
=============================================================================
