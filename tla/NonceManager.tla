---------------------------- MODULE NonceManager ----------------------------
(***************************************************************************)
(* nonce/manager.go: MonotonicManager hands each signing address           *)
(* max(now, last + 1), under its mutex, whatever the wall clock does.       *)
(***************************************************************************)
EXTENDS Naturals, Sequences

CONSTANTS Addresses,  \* the signing addresses
          Times       \* the readings of the wall clock, in milliseconds

ASSUME TimesAssumption == Times \subseteq Nat /\ Times # {}

VARIABLES clock,  \* now().UnixMilli()
          last,   \* last[a]: the last nonce of a, 0 when there is none
          issued  \* issued[a]: every nonce handed to a, in order (history)

nonceVars == <<clock, last, issued>>

NonceInit ==
    /\ clock \in Times
    /\ last = [a \in Addresses |-> 0]
    /\ issued = [a \in Addresses |-> <<>>]

\* The clock may stand still, jump ahead or go back between two calls.
Tick == clock' \in Times /\ UNCHANGED <<last, issued>>

NextValueSameMilli(a) == IF clock < last[a] THEN last[a] + 1 ELSE clock
NextValue(a) == IF clock <= last[a] THEN last[a] + 1 ELSE clock

\* MonotonicManager.Next: the whole body runs under mu.
NextNonce(a) ==
    /\ last' = [last EXCEPT ![a] = NextValue(a)]
    /\ issued' = [issued EXCEPT ![a] = Append(@, NextValue(a))]
    /\ UNCHANGED clock

NonceNext == Tick \/ \E a \in Addresses : NextNonce(a)
NonceSpec == NonceInit /\ [][NonceNext]_nonceVars

----------------------------------------------------------------------------
NonceTypeOK ==
    /\ clock \in Times
    /\ last \in [Addresses -> Nat]
    /\ issued \in [Addresses -> Seq(Nat)]

\* MonotonicManager.Next never repeats a nonce of an address, never goes back
\* and never returns 0, although the clock may stand still or go back.
NoncesIncrease ==
    \A a \in Addresses : \A i \in 1..Len(issued[a]) :
        /\ issued[a][i] > 0
        /\ \A j \in 1..Len(issued[a]) : i < j => issued[a][i] < issued[a][j]

\* The strengthening that makes it inductive: last bounds what was issued.
LastBounds == \A a \in Addresses : \A i \in 1..Len(issued[a]) : issued[a][i] <= last[a]
=============================================================================
