------------------------ MODULE AdmissionGate_proofs ------------------------
(***************************************************************************)
(* What the shared admission gate guarantees for any number of Clients,    *)
(* registry keys, identities and users, and for any caps.                  *)
(***************************************************************************)
EXTENDS AdmissionGate, FiniteSetTheorems, TLAPS

---------------------------------------------------------------------------
(* Type correctness.                                                       *)

\* A gate key names a known user or none.
LEMMA UserOfKeyType ==
    ASSUME NEW k \in Key
    PROVE  UserOfKey(k) \in User \cup {NoUser}
BY GateAssumption DEF Key, UserOfKey

\* Acquire keeps the two maps of the gate well typed.
LEMMA AcquireType ==
    ASSUME TypeOK, NEW k \in Key, Acquire(k)
    PROVE  references' \in [Key -> Nat] /\ userReferences' \in [User -> Nat]
BY UserOfKeyType DEF TypeOK, Acquire

\* TakeLease keeps the leases and the releases under way well typed.
LEMMA TakeLeaseType ==
    ASSUME TypeOK, NEW k \in Key, TakeLease(k)
    PROVE  held' \subseteq Key /\ releasing' \in [Key -> Nat]
BY DEF TypeOK, TakeLease

\* The registry key of an owner names a gate key.
LEMMA KeyOfRegistration ==
    ASSUME NEW o \in Owner, NEW r \in RegistryKey
    PROVE  <<o, IdentityOf[r]>> \in Key
BY GateAssumption DEF Key

\* Every step of the Clients and of the gate keeps the state well typed.
LEMMA TypeStep == TypeOK /\ [Next]_vars => TypeOK'
<1> SUFFICES ASSUME TypeOK, [Next]_vars PROVE TypeOK'
  OBVIOUS
<1>1. ASSUME NEW o \in Owner, NEW r \in RegistryKey, SubscribeShared(o, r)
      PROVE  TypeOK'
  BY <1>1 DEF TypeOK, SubscribeShared, gate
<1>2. ASSUME NEW o \in Owner, NEW r \in RegistryKey, SubscribeFirst(o, r)
      PROVE  TypeOK'
  <2> DEFINE k == <<o, IdentityOf[r]>>
  <2>1. k \in Key  BY KeyOfRegistration
  <2>2. Acquire(k) BY <1>2 DEF SubscribeFirst
  <2>3. references' \in [Key -> Nat] /\ userReferences' \in [User -> Nat]
    BY <2>1, <2>2, AcquireType
  <2> QED BY <1>2, <2>1, <2>3 DEF TypeOK, SubscribeFirst
<1>3. ASSUME NEW o \in Owner, NEW r \in RegistryKey, Remove(o, r)
      PROVE  TypeOK'
  <2> DEFINE k == <<o, IdentityOf[r]>>
  <2>1. k \in Key BY KeyOfRegistration
  <2>2. held' \subseteq Key /\ releasing' \in [Key -> Nat]
    <3>1. CASE TakeLease(k) BY <3>1, <2>1, TakeLeaseType
    <3>2. CASE UNCHANGED <<held, releasing>> BY <3>2 DEF TypeOK
    <3> QED BY <1>3, <3>1, <3>2 DEF Remove
  <2> QED BY <1>3, <2>2 DEF TypeOK, Remove, gate
<1>4. ASSUME NEW o \in Owner, NEW i \in Identity, Detach(o, i)
      PROVE  TypeOK'
  <2>1. <<o, i>> \in Key BY DEF Key
  <2>2. held' \subseteq Key /\ releasing' \in [Key -> Nat]
    BY <1>4, <2>1, TakeLeaseType DEF Detach
  <2> QED BY <1>4, <2>2 DEF TypeOK, Detach, gate
<1>5. ASSUME NEW o \in Owner, CloseClient(o) PROVE TypeOK'
  BY <1>5 DEF TypeOK, CloseClient, gate
<1>6. ASSUME NEW k \in Key, Release(k) PROVE TypeOK'
  BY <1>6, UserOfKeyType DEF TypeOK, Release, registry
<1>7. CASE UNCHANGED vars
  BY <1>7 DEF TypeOK, vars, registry, gate
<1> QED BY <1>1, <1>2, <1>3, <1>4, <1>5, <1>6, <1>7 DEF Next

\* The registries, leases and counters of the gate and its Clients are well
\* typed in every reachable state: no counter ever goes below zero.
THEOREM TypeCorrect == Spec => []TypeOK
<1>1. Init => TypeOK
  BY DEF Init, TypeOK
<1> QED BY <1>1, TypeStep, PTL DEF Spec

---------------------------------------------------------------------------
(* Leases follow the registries.                                           *)

\* LeasePerIdentity in terms of one owner and one identity.
LeaseIffUsed ==
    \A o \in Owner, i \in Identity : <<o, i>> \in held <=> Using(o, i) # {}

\* The two forms agree.
LEMMA LeaseForms == TypeOK => (LeaseIffUsed <=> LeasePerIdentity)
<1> SUFFICES ASSUME TypeOK PROVE LeaseIffUsed <=> LeasePerIdentity
  OBVIOUS
<1> DEFINE Used == {<<s[1], IdentityOf[s[2]]>> : s \in subs}
<1>1. Used \subseteq Key
  BY GateAssumption DEF TypeOK, Key
<1>2. ASSUME NEW o \in Owner, NEW i \in Identity
      PROVE  <<o, i>> \in Used <=> Using(o, i) # {}
  <2>1. ASSUME <<o, i>> \in Used PROVE Using(o, i) # {}
    <3>1. PICK s \in subs : <<o, i>> = <<s[1], IdentityOf[s[2]]>> BY <2>1
    <3>2. s = <<o, s[2]>> /\ s[2] \in RegistryKey BY <3>1 DEF TypeOK
    <3> QED BY <3>1, <3>2 DEF Using
  <2>2. ASSUME Using(o, i) # {} PROVE <<o, i>> \in Used
    <3>1. PICK r \in RegistryKey : <<o, r>> \in subs /\ IdentityOf[r] = i
      BY <2>2 DEF Using
    <3> QED BY <3>1
  <2> QED BY <2>1, <2>2
<1>3. held \subseteq Key BY DEF TypeOK
<1>4. held = Used <=> \A o \in Owner, i \in Identity : <<o, i>> \in held <=> <<o, i>> \in Used
  BY <1>1, <1>3 DEF Key
<1> QED BY <1>2, <1>4 DEF LeasePerIdentity, LeaseIffUsed

\* Every step keeps a lease for exactly the identities in use.
LEMMA LeaseStep == TypeOK /\ LeaseIffUsed /\ [Next]_vars => LeaseIffUsed'
<1> SUFFICES ASSUME TypeOK, LeaseIffUsed, [Next]_vars,
                    NEW o \in Owner, NEW i \in Identity
             PROVE  (<<o, i>> \in held)' <=> (Using(o, i) # {})'
  BY DEF LeaseIffUsed
<1>0. <<o, i>> \in held <=> Using(o, i) # {} BY DEF LeaseIffUsed
<1>1. ASSUME NEW p \in Owner, NEW r \in RegistryKey,
             SubscribeShared(p, r) \/ SubscribeFirst(p, r)
      PROVE  (<<o, i>> \in held)' <=> (Using(o, i) # {})'
  <2>1. subs' = subs \cup {<<p, r>>} /\ held' = held \cup {<<p, IdentityOf[r]>>}
    BY <1>1 DEF SubscribeShared, SubscribeFirst
  <2>2. CASE o = p /\ i = IdentityOf[r]
    BY <2>1, <2>2 DEF Using
  <2>3. CASE ~(o = p /\ i = IdentityOf[r])
    <3>1. Using(o, i)' = Using(o, i) BY <2>1, <2>3 DEF Using
    <3> QED BY <1>0, <2>1, <2>3, <3>1
  <2> QED BY <2>2, <2>3
<1>2. ASSUME NEW p \in Owner, NEW r \in RegistryKey, Remove(p, r)
      PROVE  (<<o, i>> \in held)' <=> (Using(o, i) # {})'
  <2>1. subs' = subs \ {<<p, r>>} /\ <<p, r>> \in subs BY <1>2 DEF Remove
  <2>2. CASE o = p /\ i = IdentityOf[r]
    <3>1. Using(o, i)' = Using(o, i) \ {r} /\ r \in Using(o, i)
      BY <2>1, <2>2 DEF Using
    <3>2. CASE Using(o, i) = {r}
      BY <1>2, <2>2, <3>1, <3>2 DEF Remove, TakeLease
    <3>3. CASE Using(o, i) # {r}
      BY <1>0, <1>2, <2>2, <3>1, <3>3 DEF Remove
    <3> QED BY <3>2, <3>3
  <2>3. CASE ~(o = p /\ i = IdentityOf[r])
    <3>1. Using(o, i)' = Using(o, i) BY <2>1, <2>3 DEF Using
    <3>2. <<o, i>> \in held' <=> <<o, i>> \in held
      BY <1>2, <2>3 DEF Remove, TakeLease
    <3> QED BY <1>0, <3>1, <3>2
  <2> QED BY <2>2, <2>3
<1>3. ASSUME NEW p \in Owner, NEW j \in Identity, Detach(p, j)
      PROVE  (<<o, i>> \in held)' <=> (Using(o, i) # {})'
  <2>1. subs' = subs \ {<<p, r>> : r \in Using(p, j)} /\ held' = held \ {<<p, j>>}
    BY <1>3 DEF Detach, TakeLease
  <2>2. CASE o = p /\ i = j
    <3>1. Using(o, i)' = {} BY <2>1, <2>2 DEF Using
    <3> QED BY <2>1, <2>2, <3>1
  <2>3. CASE ~(o = p /\ i = j)
    <3>1. Using(o, i)' = Using(o, i) BY <2>1, <2>3 DEF Using
    <3> QED BY <1>0, <2>1, <2>3, <3>1
  <2> QED BY <2>2, <2>3
<1>4. CASE UNCHANGED <<subs, held>>
  BY <1>0, <1>4 DEF Using
<1>5. ASSUME NEW p \in Owner, CloseClient(p) PROVE UNCHANGED <<subs, held>>
  BY <1>5 DEF CloseClient
<1>6. ASSUME NEW k \in Key, Release(k) PROVE UNCHANGED <<subs, held>>
  BY <1>6 DEF Release, registry
<1>7. UNCHANGED vars => UNCHANGED <<subs, held>>
  BY DEF vars, registry
<1> QED BY <1>1, <1>2, <1>3, <1>4, <1>5, <1>6, <1>7 DEF Next

---------------------------------------------------------------------------
(* Counts of the gate.                                                     *)

\* Every step keeps the count of each key equal to its outstanding leases.
LEMMA CountStep ==
    TypeOK /\ LeaseIffUsed /\ CountsAreLeases /\ [Next]_vars => CountsAreLeases'
<1> SUFFICES ASSUME TypeOK, LeaseIffUsed, CountsAreLeases, [Next]_vars, NEW k \in Key
             PROVE  references'[k] = releasing'[k] + (IF k \in held' THEN 1 ELSE 0)
  BY DEF CountsAreLeases
<1>0. references[k] = releasing[k] + (IF k \in held THEN 1 ELSE 0)
  BY DEF CountsAreLeases
<1> USE DEF TypeOK
<1>1. ASSUME NEW o \in Owner, NEW r \in RegistryKey, SubscribeFirst(o, r)
      PROVE  references'[k] = releasing'[k] + (IF k \in held' THEN 1 ELSE 0)
  <2>1. <<o, IdentityOf[r]>> \in Key BY KeyOfRegistration
  <2> QED BY <1>0, <1>1, <2>1 DEF SubscribeFirst, Acquire
<1>2. ASSUME NEW o \in Owner, NEW r \in RegistryKey, Remove(o, r)
      PROVE  references'[k] = releasing'[k] + (IF k \in held' THEN 1 ELSE 0)
  <2>1. <<o, IdentityOf[r]>> \in Key BY KeyOfRegistration
  <2>2. <<o, IdentityOf[r]>> \in held
    BY <1>2, GateAssumption DEF Remove, LeaseIffUsed, Using
  <2> QED BY <1>0, <1>2, <2>1, <2>2 DEF Remove, TakeLease, gate
<1>3. ASSUME NEW o \in Owner, NEW i \in Identity, Detach(o, i)
      PROVE  references'[k] = releasing'[k] + (IF k \in held' THEN 1 ELSE 0)
  <2>1. <<o, i>> \in Key BY DEF Key
  <2> QED BY <1>0, <1>3, <2>1 DEF Detach, TakeLease, gate
<1>4. ASSUME NEW j \in Key, Release(j)
      PROVE  references'[k] = releasing'[k] + (IF k \in held' THEN 1 ELSE 0)
  <2>1. references[j] >= releasing[j] BY DEF CountsAreLeases
  <2> QED BY <1>0, <1>4, <2>1 DEF Release, registry
<1>5. CASE UNCHANGED <<held, releasing, references>>
  BY <1>0, <1>5
<1>6. ASSUME NEW o \in Owner, NEW r \in RegistryKey,
             SubscribeShared(o, r)
      PROVE  UNCHANGED <<held, releasing, references>>
  BY <1>6 DEF SubscribeShared, gate
<1>7. ASSUME NEW o \in Owner, CloseClient(o)
      PROVE  UNCHANGED <<held, releasing, references>>
  BY <1>7 DEF CloseClient, gate
<1>8. UNCHANGED vars => UNCHANGED <<held, releasing, references>>
  BY DEF vars, registry, gate
<1> QED BY <1>1, <1>2, <1>3, <1>4, <1>5, <1>6, <1>7, <1>8 DEF Next

\* Whatever the Clients registered, removed or had rejected, each holds a
\* lease for exactly the identities its registry uses, and the gate counts
\* exactly the leases not yet released.
THEOREM LeasesCounted == Spec => [](LeasePerIdentity /\ CountsAreLeases)
<1> DEFINE Leases == TypeOK /\ LeaseIffUsed /\ CountsAreLeases
<1>1. Init => Leases
  BY DEF Init, TypeOK, LeaseIffUsed, CountsAreLeases, Using
<1>2. Leases /\ [Next]_vars => Leases'
  BY TypeStep, LeaseStep, CountStep
<1>3. Leases => LeasePerIdentity /\ CountsAreLeases
  BY LeaseForms
<1> QED BY <1>1, <1>2, <1>3, PTL DEF Spec

---------------------------------------------------------------------------
(* Users and caps.                                                         *)

\* Active keys that name a user.
KeysOf(u) == {k \in ActiveKeys : UserOfKey(k) = u}

\* The sets the gate counts are finite.
LEMMA Finiteness ==
    /\ IsFiniteSet(Key)
    /\ IsFiniteSet(ActiveKeys) /\ IsFiniteSet(ActiveUsers)
    /\ \A u : IsFiniteSet(KeysOf(u))
<1>1. IsFiniteSet(Key) BY GateAssumption, FS_Product DEF Key
<1>2. ActiveKeys \subseteq Key BY DEF ActiveKeys
<1>3. ActiveUsers \subseteq User BY DEF ActiveUsers
<1>4. \A u : KeysOf(u) \subseteq Key BY <1>2 DEF KeysOf
<1> QED BY <1>1, <1>2, <1>3, <1>4, FS_Subset, GateAssumption

\* What Acquire does to the set of active keys of each user.
LEMMA AcquireKeys ==
    ASSUME TypeOK, NEW k \in Key, Acquire(k)
    PROVE  /\ ActiveKeys' = ActiveKeys \cup {k}
           /\ k \in ActiveKeys <=> references[k] # 0
           /\ \A u \in User : KeysOf(u)' = IF u = UserOfKey(k)
                                             THEN KeysOf(u) \cup {k} ELSE KeysOf(u)
<1>1. references' = [references EXCEPT ![k] = @ + 1] /\ references \in [Key -> Nat]
  BY DEF Acquire, TypeOK
<1>2. ActiveKeys' = ActiveKeys \cup {k} BY <1>1 DEF ActiveKeys
<1>3. k \in ActiveKeys <=> references[k] # 0 BY <1>1 DEF ActiveKeys
<1> QED BY <1>2, <1>3 DEF KeysOf, UserOfKey

\* What a release does to the set of active keys of each user.
LEMMA ReleaseKeys ==
    ASSUME TypeOK, NEW k \in Key, Release(k), references[k] >= 1
    PROVE  /\ k \in ActiveKeys
           /\ ActiveKeys' = IF references[k] = 1 THEN ActiveKeys \ {k} ELSE ActiveKeys
           /\ \A u \in User :
                KeysOf(u)' = IF references[k] = 1 /\ u = UserOfKey(k)
                               THEN KeysOf(u) \ {k} ELSE KeysOf(u)
<1>1. /\ references' = [references EXCEPT ![k] = IF @ > 1 THEN @ - 1 ELSE 0]
      /\ references \in [Key -> Nat]
  BY DEF Release, TypeOK
<1>2. k \in ActiveKeys BY <1>1 DEF ActiveKeys
<1>3. ActiveKeys' = IF references[k] = 1 THEN ActiveKeys \ {k} ELSE ActiveKeys
  BY <1>1 DEF ActiveKeys
<1> QED BY <1>2, <1>3 DEF KeysOf, UserOfKey

\* Every step keeps each user counted once per active key naming it.
LEMMA UserStep ==
    TypeOK /\ CountsAreLeases /\ UserCounts /\ [Next]_vars => UserCounts'
<1> SUFFICES ASSUME TypeOK, CountsAreLeases, UserCounts, [Next]_vars, NEW u \in User
             PROVE  userReferences'[u] = Cardinality(KeysOf(u)')
  BY DEF UserCounts, KeysOf
<1>0. userReferences[u] = Cardinality(KeysOf(u)) BY DEF UserCounts, KeysOf
<1>f. IsFiniteSet(KeysOf(u)) BY Finiteness
<1>1. ASSUME NEW o \in Owner, NEW r \in RegistryKey, SubscribeFirst(o, r)
      PROVE  userReferences'[u] = Cardinality(KeysOf(u)')
  <2> DEFINE k == <<o, IdentityOf[r]>>
  <2> k \in Key BY KeyOfRegistration
  <2>1. Acquire(k) BY <1>1 DEF SubscribeFirst
  <2> HIDE DEF k
  <2>2. UserOfKey(k) = u => u # NoUser BY GateAssumption
  <2>3. CASE references[k] = 0 /\ UserOfKey(k) = u
    <3>1. KeysOf(u)' = KeysOf(u) \cup {k} /\ k \notin KeysOf(u)
      BY <2>1, <2>3, AcquireKeys DEF KeysOf
    <3>2. Cardinality(KeysOf(u)') = Cardinality(KeysOf(u)) + 1
      BY <1>f, <3>1, FS_AddElement
    <3>3. userReferences'[u] = userReferences[u] + 1
      BY <2>1, <2>2, <2>3 DEF Acquire, TypeOK
    <3> QED BY <1>0, <3>2, <3>3
  <2>4. CASE references[k] # 0 \/ UserOfKey(k) # u
    <3>1. KeysOf(u)' = KeysOf(u)
      BY <2>1, <2>4, AcquireKeys DEF KeysOf
    <3>2. userReferences'[u] = userReferences[u]
      BY <2>1, <2>4 DEF Acquire, TypeOK
    <3> QED BY <1>0, <3>1, <3>2
  <2> QED BY <2>3, <2>4
<1>2. ASSUME NEW k \in Key, Release(k)
      PROVE  userReferences'[u] = Cardinality(KeysOf(u)')
  <2>1. references[k] \in Nat /\ references[k] >= 1
    BY <1>2 DEF Release, CountsAreLeases, TypeOK
  <2>2. CASE references[k] = 1 /\ UserOfKey(k) = u
    <3>1. KeysOf(u)' = KeysOf(u) \ {k} /\ k \in KeysOf(u)
      BY <1>2, <2>1, <2>2, ReleaseKeys DEF KeysOf
    <3>2. Cardinality(KeysOf(u)') = Cardinality(KeysOf(u)) - 1
      BY <1>f, <3>1, FS_RemoveElement
    <3>3. Cardinality(KeysOf(u)) # 0 /\ Cardinality(KeysOf(u)) \in Nat
      BY <1>f, <3>1, FS_EmptySet, FS_CardinalityType
    <3>4. u # NoUser BY GateAssumption
    <3>5. userReferences'[u] = IF userReferences[u] > 1 THEN userReferences[u] - 1 ELSE 0
      BY <1>2, <2>2, <3>4 DEF Release, TypeOK
    <3> QED BY <1>0, <3>2, <3>3, <3>5
  <2>3. CASE references[k] # 1 \/ UserOfKey(k) # u
    <3>1. KeysOf(u)' = KeysOf(u) BY <1>2, <2>1, <2>3, ReleaseKeys
    <3>2. userReferences'[u] = userReferences[u]
      BY <1>2, <2>1, <2>3 DEF Release, TypeOK
    <3> QED BY <1>0, <3>1, <3>2
  <2> QED BY <2>2, <2>3
<1>3. CASE UNCHANGED gate
  BY <1>0, <1>3 DEF gate, KeysOf, ActiveKeys
<1>4. ASSUME NEW o \in Owner, NEW r \in RegistryKey,
             SubscribeShared(o, r) \/ Remove(o, r) PROVE UNCHANGED gate
  BY <1>4 DEF SubscribeShared, Remove
<1>5. ASSUME NEW o \in Owner, NEW i \in Identity, Detach(o, i) PROVE UNCHANGED gate
  BY <1>5 DEF Detach
<1>6. ASSUME NEW o \in Owner, CloseClient(o) PROVE UNCHANGED gate
  BY <1>6 DEF CloseClient
<1>7. UNCHANGED vars => UNCHANGED gate BY DEF vars
<1> QED BY <1>1, <1>2, <1>3, <1>4, <1>5, <1>6, <1>7 DEF Next

\* Only an admitted first reference can make the sets the caps bound larger.
LEMMA CapsStep ==
    TypeOK /\ CountsAreLeases /\ CapsRespected /\ [Next]_vars => CapsRespected'
<1> SUFFICES ASSUME TypeOK, CountsAreLeases, CapsRespected, [Next]_vars
             PROVE  CapsRespected'
  OBVIOUS
<1>f. /\ IsFiniteSet(ActiveKeys) /\ IsFiniteSet(ActiveUsers)
      /\ Cardinality(ActiveKeys) \in Nat /\ Cardinality(ActiveUsers) \in Nat
  BY Finiteness, FS_CardinalityType
<1>1. ASSUME NEW o \in Owner, NEW r \in RegistryKey, SubscribeFirst(o, r)
      PROVE  CapsRespected'
  <2> DEFINE k == <<o, IdentityOf[r]>>
  <2> k \in Key BY KeyOfRegistration
  <2>1. Acquire(k) /\ Admissible(k) BY <1>1 DEF SubscribeFirst
  <2> HIDE DEF k
  <2>2. Cardinality(ActiveKeys') <= MaxSubscriptions
    <3>1. CASE references[k] = 0
      <4>1. ActiveKeys' = ActiveKeys \cup {k} /\ k \notin ActiveKeys
        BY <2>1, <3>1, AcquireKeys
      <4>2. Cardinality(ActiveKeys') = Cardinality(ActiveKeys) + 1
        BY <1>f, <4>1, FS_AddElement
      <4> QED BY <1>f, <2>1, <3>1, <4>2, GateAssumption DEF Admissible
    <3>2. CASE references[k] # 0
      <4>1. ActiveKeys' = ActiveKeys BY <2>1, <3>2, AcquireKeys
      <4> QED BY <4>1 DEF CapsRespected
    <3> QED BY <3>1, <3>2
  <2>3. Cardinality(ActiveUsers') <= MaxUsers
    <3>1. CASE /\ references[k] = 0 /\ UserOfKey(k) # NoUser
               /\ UserOfKey(k) \notin ActiveUsers
      <4>1. ActiveUsers' = ActiveUsers \cup {UserOfKey(k)}
        BY <2>1, <3>1, UserOfKeyType DEF Acquire, ActiveUsers, TypeOK
      <4>2. Cardinality(ActiveUsers') = Cardinality(ActiveUsers) + 1
        BY <1>f, <3>1, <4>1, FS_AddElement
      <4> QED BY <1>f, <2>1, <3>1, <4>2, GateAssumption DEF Admissible
    <3>2. CASE ~(/\ references[k] = 0 /\ UserOfKey(k) # NoUser
                 /\ UserOfKey(k) \notin ActiveUsers)
      <4>1. ActiveUsers' = ActiveUsers
        BY <2>1, <3>2, UserOfKeyType DEF Acquire, ActiveUsers, TypeOK
      <4> QED BY <4>1 DEF CapsRespected
    <3> QED BY <3>1, <3>2
  <2> QED BY <2>2, <2>3 DEF CapsRespected
<1>2. ASSUME NEW k \in Key, Release(k) PROVE CapsRespected'
  <2>1. references[k] \in Nat /\ references[k] >= 1
    BY <1>2 DEF Release, CountsAreLeases, TypeOK
  <2>2. ActiveKeys' \subseteq ActiveKeys
    BY <1>2, <2>1, ReleaseKeys
  <2>3. ActiveUsers' \subseteq ActiveUsers
    BY <1>2, UserOfKeyType DEF Release, ActiveUsers, TypeOK
  <2>4. /\ Cardinality(ActiveKeys') <= Cardinality(ActiveKeys)
        /\ Cardinality(ActiveUsers') <= Cardinality(ActiveUsers)
        /\ Cardinality(ActiveKeys') \in Nat /\ Cardinality(ActiveUsers') \in Nat
    BY <1>f, <2>2, <2>3, FS_Subset, FS_CardinalityType
  <2> QED BY <1>f, <2>4, GateAssumption DEF CapsRespected
<1>3. CASE UNCHANGED gate
  BY <1>3 DEF gate, CapsRespected, ActiveKeys, ActiveUsers
<1>4. ASSUME NEW o \in Owner, NEW r \in RegistryKey,
             SubscribeShared(o, r) \/ Remove(o, r) PROVE UNCHANGED gate
  BY <1>4 DEF SubscribeShared, Remove
<1>5. ASSUME NEW o \in Owner, NEW i \in Identity, Detach(o, i) PROVE UNCHANGED gate
  BY <1>5 DEF Detach
<1>6. ASSUME NEW o \in Owner, CloseClient(o) PROVE UNCHANGED gate
  BY <1>6 DEF CloseClient
<1>7. UNCHANGED vars => UNCHANGED gate BY DEF vars
<1> QED BY <1>1, <1>2, <1>3, <1>4, <1>5, <1>6, <1>7 DEF Next

\* However many Clients share the gate, and although a key may be acquired
\* again before its old lease is released, the caps on active subscriptions
\* and on unique users hold and users are counted once per active key.
THEOREM CapsHold == Spec => [](CapsRespected /\ UserCounts)
<1> DEFINE GateInv == /\ TypeOK /\ LeaseIffUsed /\ CountsAreLeases
                      /\ UserCounts /\ CapsRespected
<1>1. Init => GateInv
  <2> SUFFICES ASSUME Init PROVE GateInv
    OBVIOUS
  <2>1. TypeOK /\ LeaseIffUsed /\ CountsAreLeases
    BY DEF Init, TypeOK, LeaseIffUsed, CountsAreLeases, Using
  <2>2. ActiveKeys = {} /\ ActiveUsers = {}
    BY DEF Init, ActiveKeys, ActiveUsers
  <2>3. Cardinality({}) = 0 BY FS_EmptySet
  <2>4. CapsRespected BY <2>2, <2>3, GateAssumption DEF CapsRespected
  <2>5. ASSUME NEW u \in User
        PROVE  userReferences[u] = Cardinality({k \in ActiveKeys : UserOfKey(k) = u})
    <3>1. {k \in ActiveKeys : UserOfKey(k) = u} = {} BY <2>2
    <3> QED BY <2>3, <3>1 DEF Init
  <2> QED BY <2>1, <2>4, <2>5 DEF UserCounts
<1>2. GateInv /\ [Next]_vars => GateInv'
  BY TypeStep, LeaseStep, CountStep, UserStep, CapsStep
<1> QED BY <1>1, <1>2, PTL DEF Spec
===========================================================================
