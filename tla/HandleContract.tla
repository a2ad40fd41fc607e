--------------------------- MODULE HandleContract ---------------------------
(***************************************************************************)
(* What a subscription handle promises to the application, whatever its     *)
(* buffers, goroutines and locks do: events come out in arrival order and   *)
(* at most once; while the handle is open and its context is not cancelled, *)
(* only those events are lost that its backpressure policy gives up; state  *)
(* events come out in increasing order; ending the handle completes, after  *)
(* which nothing is added and nothing is taken back.  SubscriptionStream    *)
(* implements this.                                                         *)
(***************************************************************************)
EXTENDS Integers

VARIABLES keeps,       \* the policy keeps "all" events, the "newest" or the "oldest"
          phase,       \* "open", "ending" or "closed"
          cancelled,   \* the subscriber's context is done
          newest,      \* the messages that reached the handle
          pool,        \* those the application can still receive
          last,        \* the newest one it has received
          numbered,    \* the state events emitted
          seen         \* the number of the newest one it has received

contractVars == <<keeps, phase, cancelled, newest, pool, last, numbered, seen>>

ContractInit ==
    /\ keeps \in {"all", "newest", "oldest"}
    /\ phase = "open" /\ cancelled = FALSE
    /\ newest = 0 /\ pool = {} /\ last = 0
    /\ numbered = 0 /\ seen = 0

\* A message reaches the handle: kept, or ignored by one that is stopping.
Arrive ==
    /\ newest' = newest + 1
    /\ \/ phase # "closed" /\ pool' = pool \cup {newest + 1}
       \/ (phase # "open" \/ cancelled) /\ pool' = pool
    /\ UNCHANGED <<keeps, phase, cancelled, last, numbered, seen>>
\* What the policy may give up: every event but the newest, or that one alone.
Droppable(n) == (keeps = "newest" /\ n # newest) \/ (keeps = "oldest" /\ n = newest)
Lose ==
    /\ phase # "closed"
    /\ \E n \in pool : /\ phase = "ending" \/ cancelled \/ Droppable(n)
                       /\ pool' = pool \ {n}
    /\ UNCHANGED <<keeps, phase, cancelled, newest, last, numbered, seen>>
Receive ==
    /\ \E n \in pool : /\ \A m \in pool : n <= m
                       /\ n > last
                       /\ pool' = pool \ {n} /\ last' = n
    /\ UNCHANGED <<keeps, phase, cancelled, newest, numbered, seen>>

Announce ==
    /\ phase = "open"
    /\ numbered' = numbered + 1
    /\ UNCHANGED <<keeps, phase, cancelled, newest, pool, last, seen>>
Observe ==
    /\ \E k \in 1..numbered : seen < k /\ seen' = k
    /\ UNCHANGED <<keeps, phase, cancelled, newest, pool, last, numbered>>

CancelIt ==
    /\ ~cancelled /\ cancelled' = TRUE
    /\ UNCHANGED <<keeps, phase, newest, pool, last, numbered, seen>>
End ==
    /\ phase = "open" /\ phase' = "ending"
    /\ UNCHANGED <<keeps, cancelled, newest, pool, last, numbered, seen>>
Close ==
    /\ phase = "ending" /\ phase' = "closed"
    /\ numbered' = numbered + 1
    /\ UNCHANGED <<keeps, cancelled, newest, pool, last, seen>>

ContractNext == Arrive \/ Lose \/ Receive \/ Announce \/ Observe \/ CancelIt \/ End \/ Close
ContractSafety == ContractInit /\ [][ContractNext]_contractVars
\* An ending that has begun completes, although the application drains nothing.
Contract == ContractSafety /\ WF_contractVars(Close)
=============================================================================
