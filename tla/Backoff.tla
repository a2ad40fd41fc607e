------------------------------- MODULE Backoff -------------------------------
(***************************************************************************)
(* The delays of transport/retry.go (RetryPolicy, for Info requests) and of *)
(* websocket/reconnect.go (ExponentialReconnectPolicy).  Durations are      *)
(* signed integers of DurationBits bits that wrap as time.Duration does;    *)
(* the defaults and the second keep their order, not their size.            *)
(***************************************************************************)
EXTENDS Integers, FiniteSetsExt

CONSTANTS DurationBits, DefaultBase, DefaultMax, DefaultAttempts, Second

MaxDuration == 2^(DurationBits - 1) - 1
Durations == -(MaxDuration + 1)..MaxDuration
ASSUME BackoffAssumption ==
    /\ MaxDuration \in Nat /\ {DefaultBase, DefaultMax, Second} \subseteq 1..MaxDuration
    /\ DefaultAttempts \in Nat \ {0}

Wrap(d) == ((d + MaxDuration + 1) % (2 * (MaxDuration + 1))) - MaxDuration - 1
Clamp(d, max) == IF d < 0 THEN 0 ELSE IF d > max THEN max ELSE d

\* A function applied n times.
Iterated(F, start, n) == LET f[i \in 0..n] == IF i = 0 THEN start ELSE F[f[i - 1]] IN f[n]

\* The loop over attempts: double unless the cap is within reach.
DoubleUnguarded(d, max) == Wrap(2 * d)
Double(d, max) == IF d >= max - d THEN max ELSE Wrap(2 * d)
Doubled(base, max, attempt) == Iterated([d \in Durations |-> Double(d, max)], base, attempt)

normalized(p) ==
    LET max == IF p.max <= 0 THEN DefaultMax ELSE p.max
        base == IF p.base <= 0 THEN DefaultBase ELSE p.base
    IN [attempts |-> IF p.attempts <= 0 THEN DefaultAttempts ELSE p.attempts,
        base |-> Min({base, max}), max |-> max]

\* RetryPolicy.Delay; the jitter is what the policy's function returned.
Delay(policy, attempt, jitter) ==
    LET p == normalized(policy)
    IN Clamp(Wrap(Doubled(p.base, p.max, attempt) + jitter), p.max)

\* RetryAfterDelay: the header is absent or unreadable, a number of seconds, or
\* a date (its distance from now).  NoDelay is the ok = false result.
NoDelay == -1
RetryAfterDelay(policy, header) ==
    LET max == normalized(policy).max
    IN CASE header.form = "seconds" ->
              IF header.value < 0 \/ header.value > MaxDuration \div Second THEN NoDelay
              ELSE Min({header.value * Second, max})
         [] header.form = "date" -> IF header.value <= 0 THEN NoDelay ELSE Min({header.value, max})
         [] OTHER -> NoDelay

\* ExponentialReconnectPolicy.Delay: the jitter replaces the capped delay.
ReconnectDouble(d, max) == IF d >= max \/ d > max \div 2 THEN max ELSE Wrap(2 * d)
ReconnectCapped(policy, attempt) ==
    LET base == IF policy.base <= 0 THEN DefaultBase ELSE policy.base
        max == LET m == IF policy.max <= 0 THEN DefaultMax ELSE policy.max IN Max({m, base})
    IN [max |-> max,
        delay |-> Iterated([d \in Durations |-> ReconnectDouble(d, max)], base, attempt)]
ReconnectDelay(policy, attempt, jittered) == Clamp(jittered, ReconnectCapped(policy, attempt).max)

\* equalReconnectJitter draws from the upper half.
equalReconnectJitter(d) == IF d <= 0 THEN {0} ELSE (d \div 2)..d

----------------------------------------------------------------------------
\* Reference: capped doubling, computed without overflow.
PowerOfTwo(n) == Iterated([k \in Nat |-> 2 * k], 1, n)
CappedDoubling(base, max, attempt) == Min({base * PowerOfTwo(attempt), max})
=============================================================================
