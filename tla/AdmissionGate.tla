--------------------------- MODULE AdmissionGate ---------------------------
(***************************************************************************)
(* The shared subscription admission gate (websocket/admission.go) and the *)
(* part of every Client that owns leases of it (admitSubscription, remove, *)
(* detachSubscriptionIdentity, Close).                                     *)
(*                                                                         *)
(* Several Clients, the owners, share one gate.  A Client holds one lease  *)
(* per server identity in subLeases, however many registry keys use it.    *)
(* The registry changes under commitMu and client.mu, but the release of a *)
(* lease runs after both are unlocked: releasing counts the releases a     *)
(* goroutine still has to perform for a gate key.                          *)
(***************************************************************************)
EXTENDS Integers, FiniteSets

CONSTANTS
    Owner,              \* Clients sharing the gate (OwnerID)
    RegistryKey,        \* keys of client.subs
    IdentityOf,         \* [RegistryKey -> server identity]
    Identity,           \* server identities
    UserOf,             \* [Identity -> normalised user, or NoUser]
    User,               \* normalised users
    NoUser,             \* the identity names no user ("")
    MaxSubscriptions,   \* g.maxSubscriptions
    MaxUsers,           \* g.maxUsers
    MaxReleasing        \* bound: releases under way for one gate key

ASSUME GateAssumption ==
    /\ IsFiniteSet(Owner) /\ IsFiniteSet(RegistryKey)
    /\ IsFiniteSet(Identity) /\ IsFiniteSet(User)
    /\ IdentityOf \in [RegistryKey -> Identity]
    /\ UserOf \in [Identity -> User \cup {NoUser}]
    /\ NoUser \notin User
    /\ MaxSubscriptions \in Nat \ {0} /\ MaxUsers \in Nat \ {0}
    /\ MaxReleasing \in Nat \ {0}

\* subscriptionAdmissionKey; the user is a function of the identity.
Key == Owner \X Identity

VARIABLES
    subs,           \* registries: <<owner, registry key>>
    closed,         \* owners whose client.closed is set
    held,           \* gate keys with a lease in their owner's subLeases
    releasing,      \* per gate key: leases taken out and not yet released
    references,     \* g.references, 0 for an absent key
    userReferences  \* g.userReferences, 0 for an absent user

registry == <<subs, closed, held>>
gate     == <<references, userReferences>>
vars     == <<registry, releasing, gate>>

TypeOK ==
    /\ subs \subseteq Owner \X RegistryKey
    /\ closed \subseteq Owner
    /\ held \subseteq Key
    /\ releasing \in [Key -> Nat]
    /\ references \in [Key -> Nat]
    /\ userReferences \in [User -> Nat]

Init ==
    /\ subs = {} /\ closed = {} /\ held = {}
    /\ releasing = [k \in Key |-> 0]
    /\ references = [k \in Key |-> 0]
    /\ userReferences = [u \in User |-> 0]

---------------------------------------------------------------------------
(* The gate.  A map entry exists exactly while its count is positive.      *)

ActiveKeys  == {k \in Key : references[k] > 0}          \* len(g.references)
ActiveUsers == {u \in User : userReferences[u] > 0}     \* len(g.userReferences)
UserOfKey(k) == UserOf[k[2]]

\* Fault: the caps are off by one.
AdmissibleOneMore(k) ==
    references[k] = 0 =>
      /\ Cardinality(ActiveKeys) <= MaxSubscriptions
      /\ \/ UserOfKey(k) = NoUser
         \/ UserOfKey(k) \in ActiveUsers
         \/ Cardinality(ActiveUsers) < MaxUsers

\* Acquire succeeds: only the first reference of a key is charged.
Admissible(k) ==
    references[k] = 0 =>
      /\ Cardinality(ActiveKeys) < MaxSubscriptions
      /\ \/ UserOfKey(k) = NoUser
         \/ UserOfKey(k) \in ActiveUsers
         \/ Cardinality(ActiveUsers) < MaxUsers

\* Fault: a key is present or absent, not counted.
AcquireOnce(k) ==
    /\ references' = [references EXCEPT ![k] = 1]
    /\ userReferences' =
         IF references[k] = 0 /\ UserOfKey(k) # NoUser
           THEN [userReferences EXCEPT ![UserOfKey(k)] = @ + 1]
           ELSE userReferences

\* Acquire's effect on the gate.
Acquire(k) ==
    /\ references' = [references EXCEPT ![k] = @ + 1]
    /\ userReferences' =
         IF references[k] = 0 /\ UserOfKey(k) # NoUser
           THEN [userReferences EXCEPT ![UserOfKey(k)] = @ + 1]
           ELSE userReferences

\* The release function: the last reference of a key gives its user back.
Release(k) ==
    /\ releasing[k] > 0
    /\ releasing' = [releasing EXCEPT ![k] = @ - 1]
    /\ references' = [references EXCEPT ![k] = IF @ > 1 THEN @ - 1 ELSE 0]
    /\ userReferences' =
         IF references[k] <= 1 /\ UserOfKey(k) # NoUser
           THEN [userReferences EXCEPT ![UserOfKey(k)] = IF @ > 1 THEN @ - 1 ELSE 0]
           ELSE userReferences
    /\ UNCHANGED registry

---------------------------------------------------------------------------
(* The owners.                                                             *)

\* Registry keys of an owner that use an identity.
Using(o, i) == {r \in RegistryKey : <<o, r>> \in subs /\ IdentityOf[r] = i}

\* subscribeStream: a new key under an identity that already has a lease.
SubscribeShared(o, r) ==
    /\ o \notin closed /\ <<o, r>> \notin subs
    /\ <<o, IdentityOf[r]>> \in held
    /\ subs' = subs \cup {<<o, r>>}
    /\ UNCHANGED <<closed, held, releasing, gate>>

\* subscribeStream: the first key of an identity acquires a lease.
SubscribeFirst(o, r) ==
    LET k == <<o, IdentityOf[r]>> IN
    /\ o \notin closed /\ <<o, r>> \notin subs
    /\ k \notin held /\ Admissible(k)
    /\ Acquire(k)
    /\ held' = held \cup {k}
    /\ subs' = subs \cup {<<o, r>>}
    /\ UNCHANGED <<closed, releasing>>

\* Fault: the lease is forgotten instead of released.
TakeLeaseLost(k) == held' = held \ {k} /\ releasing' = releasing

\* The goroutine takes the lease out of subLeases and will release it.
TakeLease(k) ==
    /\ held' = held \ {k}
    /\ releasing' = [releasing EXCEPT ![k] = @ + 1]

\* client.remove, up to the unlock.
Remove(o, r) ==
    LET k == <<o, IdentityOf[r]>> IN
    /\ <<o, r>> \in subs /\ releasing[k] < MaxReleasing
    /\ subs' = subs \ {<<o, r>>}
    /\ IF Using(o, IdentityOf[r]) = {r}
         THEN TakeLease(k) ELSE UNCHANGED <<held, releasing>>
    /\ UNCHANGED <<closed, gate>>

\* detachSubscriptionIdentity after a permanent rejection, up to the unlock.
Detach(o, i) ==
    /\ <<o, i>> \in held /\ releasing[<<o, i>>] < MaxReleasing
    /\ subs' = subs \ {<<o, r>> : r \in Using(o, i)}
    /\ TakeLease(<<o, i>>)
    /\ UNCHANGED <<closed, gate>>

\* Client.Close: no registration is accepted any more; Close then removes
\* every registered key.
CloseClient(o) ==
    /\ o \notin closed /\ closed' = closed \cup {o}
    /\ UNCHANGED <<subs, held, releasing, gate>>

Next ==
    \/ \E o \in Owner, r \in RegistryKey :
         SubscribeShared(o, r) \/ SubscribeFirst(o, r) \/ Remove(o, r)
    \/ \E o \in Owner, i \in Identity : Detach(o, i)
    \/ \E o \in Owner : CloseClient(o)
    \/ \E k \in Key : Release(k)

\* A goroutine that took a lease out releases it; Client.Close goes through
\* its registry snapshot.
Fairness ==
    /\ \A k \in Key : WF_vars(Release(k))
    /\ \A o \in Owner, r \in RegistryKey : WF_vars(o \in closed /\ Remove(o, r))

Spec == Init /\ [][Next]_vars /\ Fairness
---------------------------------------------------------------------------
(* Properties.                                                             *)

\* A Client holds a lease for exactly the identities its registry uses, so a
\* stream is never open without being counted and no unused slot stays taken,
\* whatever mixture of registrations, removals and rejections came before.
LeasePerIdentity == held = {<<s[1], IdentityOf[s[2]]>> : s \in subs}

\* The count of a gate key is the number of outstanding release functions:
\* the lease in subLeases, if any, and the releases still under way.  A key
\* re-acquired before its old release ran is neither lost nor charged twice.
CountsAreLeases ==
    \A k \in Key : references[k] = releasing[k] + (IF k \in held THEN 1 ELSE 0)

\* A user is counted once for each active key that names it.
UserCounts ==
    \A u \in User :
      userReferences[u] = Cardinality({k \in ActiveKeys : UserOfKey(k) = u})

\* The official caps hold across all Clients sharing the gate.
CapsRespected ==
    /\ Cardinality(ActiveKeys) <= MaxSubscriptions
    /\ Cardinality(ActiveUsers) <= MaxUsers

\* docs/api/websocket.md: the Client "releases [each lease] after the last
\* logical reference closes, a permanent rejection removes the identity, or
\* the Client closes".  The slots of a closed Client all come back.
ClosedClientFreesSlots ==
    \A o \in Owner :
      (o \in closed) ~> [](\A i \in Identity : references[<<o, i>>] = 0)
===========================================================================
