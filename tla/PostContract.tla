---------------------------- MODULE PostContract ----------------------------
(***************************************************************************)
(* What POST requests over a socket promise to their callers, whatever      *)
(* sockets, tokens and goroutines do underneath: a request is written at    *)
(* most once, never before it was accepted, and at most Limit are accepted  *)
(* at a time; and what a call returns tells its caller whether the exchange *)
(* may have acted on it.  PostManager implements this.                      *)
(***************************************************************************)
EXTENDS Integers, FiniteSets

CONSTANTS Request, Limit

VARIABLES stage,       \* per request: "idle", "asked", "accepted" or "over"
          open,        \* the client has not been closed
          cancelled,   \* requests given up by their callers
          written,     \* requests a socket took whole
          answers,     \* what the exchange said and may still arrive: <<request, answer>>
          outcome      \* per request: what its call returned

contractVars == <<stage, open, cancelled, written, answers, outcome>>

ContractInit ==
    /\ stage = [r \in Request |-> "idle"] /\ open = TRUE
    /\ cancelled = {} /\ written = {} /\ answers = {}
    /\ outcome = [r \in Request |-> "noResult"]

Accepted == {r \in Request : stage[r] = "accepted"}

Ask(r) ==
    /\ stage[r] = "idle" /\ stage' = [stage EXCEPT ![r] = "asked"]
    /\ UNCHANGED <<open, cancelled, written, answers, outcome>>
Accept(r) ==
    /\ stage[r] = "asked" /\ open /\ Cardinality(Accepted) < Limit
    /\ stage' = [stage EXCEPT ![r] = "accepted"]
    /\ UNCHANGED <<open, cancelled, written, answers, outcome>>
Write(r) ==
    /\ stage[r] = "accepted" /\ r \notin written
    /\ written' = written \cup {r}
    /\ UNCHANGED <<stage, open, cancelled, answers, outcome>>

\* The exchange answers, perhaps twice; answers get lost, with a socket or
\* because nobody waits for them any more.
Say(r, answer) ==
    /\ r \in written /\ answers' = answers \cup {<<r, answer>>}
    /\ UNCHANGED <<stage, open, cancelled, written, outcome>>
Lose ==
    /\ answers' \subseteq answers
    /\ UNCHANGED <<stage, open, cancelled, written, outcome>>

CancelIt(r) ==
    /\ stage[r] \in {"asked", "accepted"} /\ r \notin cancelled
    /\ cancelled' = cancelled \cup {r}
    /\ UNCHANGED <<stage, open, written, answers, outcome>>
Shut ==
    /\ open /\ open' = FALSE
    /\ UNCHANGED <<stage, cancelled, written, answers, outcome>>

\* A call returns what the exchange said; that it was written but its socket
\* was lost, so that nobody knows; that it was not written, so that it can
\* safely be made again; or that it, or everything, was given up.
Justified(r, value) ==
    \/ value \in {"ok", "refused"} /\ <<r, value>> \in answers
    \/ value = "lost" /\ r \in written
    \/ value = "failed" /\ stage[r] = "accepted" /\ r \notin written
    \/ value = "cancelled" /\ r \in cancelled
    \/ value = "closed" /\ ~open
Return(r, value) ==
    /\ stage[r] \in {"asked", "accepted"} /\ Justified(r, value)
    /\ stage' = [stage EXCEPT ![r] = "over"]
    /\ outcome' = [outcome EXCEPT ![r] = value]
    /\ answers' \subseteq answers
    /\ UNCHANGED <<open, cancelled, written>>

ContractNext ==
    \/ \E r \in Request : Ask(r) \/ Accept(r) \/ Write(r) \/ CancelIt(r)
    \/ \E r \in Request, answer \in {"ok", "refused"} : Say(r, answer)
    \/ \E r \in Request, value \in {"ok", "refused", "lost", "failed", "cancelled", "closed"} :
         Return(r, value)
    \/ Lose \/ Shut
ContractSafety == ContractInit /\ [][ContractNext]_contractVars
=============================================================================
