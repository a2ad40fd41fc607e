------------------------ MODULE AssetResolver_proofs ------------------------
(***************************************************************************)
(* What the resolvers guarantee for any callers, requests, settings and     *)
(* metadata, whatever the limiter, the transport and the server do.         *)
(***************************************************************************)
EXTENDS AssetResolver, SequenceTheorems, WellFoundedInduction, TLAPS

----------------------------------------------------------------------------
(* Type correctness, as far as the arguments below need it. *)

Plans == [ns : Namespaces, force : BOOLEAN]
Snapshots == [parts : Seq(Nat), at : Int]
Results == [err : BOOLEAN, snap : Snapshots]
ResolverPlaces == {"idle", "path", "lookup", "demand", "fetch", "join", "optional", "fill", "done"}

\* The state of the resolver and what it reads of the request path.
Typed ==
    /\ now \in Nat /\ version \in Nat /\ config \in Configs
    /\ rpc \in [Callers -> ResolverPlaces] /\ todo \in [Callers -> Seq(Plans)]
    /\ DOMAIN ipc = Callers /\ value \in [Callers -> Nat] /\ DOMAIN req = Callers
    /\ parts \in [Callers -> Seq(Nat)] /\ inbox \in [Callers -> Results]
    /\ DOMAIN read = Callers
    /\ cache \in [Namespaces -> Snapshots] /\ DOMAIN loading = Namespaces
    /\ started \in [Callers -> Nat] /\ renewed \in [Callers -> SUBSET Namespaces]
    /\ DOMAIN result = Callers

\* A caller inside the resolver makes a resolving request and has something
\* left to ask for where it asks; only the leader of a load fetches; only a
\* joiner has a result to pick up; who has not begun has read nothing.
PlacedAt(c) ==
    /\ rpc[c] \notin {"idle", "path", "done"} => req[c].op \in Resolving /\ req[c].kind = "info"
    /\ rpc[c] \in {"lookup", "demand", "fetch", "join"} => todo[c] # <<>>
    /\ rpc[c] = "fetch" => loading[Head(todo[c]).ns] = c
    /\ rpc[c] = "optional" => req[c].op = "refresh"
    /\ rpc[c] \in {"lookup", "fill"} => req[c].op # "refresh"
    /\ rpc[c] # "join" => inbox[c] = NoResult
    /\ rpc[c] = "idle" => read[c] = {} /\ todo[c] = <<>> /\ result[c] = "none"
    /\ started[c] <= now
Placed == \A c \in Callers : PlacedAt(c)

\* Typing and places together, the base of every argument.
Base == Typed /\ Placed

\* A sequence of one element, as the plans of most requests are.
LEMMA One ==
    ASSUME NEW S, NEW x \in S
    PROVE  <<x>> \in Seq(S) /\ Len(<<x>>) = 1 /\ <<x>> # <<>> /\ <<x>>[1] = x
OBVIOUS

\* More of a sequence that is not empty, as the plan of ResolveID may be.
LEMMA More ==
    ASSUME NEW S, NEW s \in Seq(S), NEW t \in Seq(S), s # <<>>
    PROVE  s \o t \in Seq(S) /\ s \o t # <<>> /\ Len(s \o t) = Len(s) + Len(t)
OBVIOUS

\* What a request asks for: a namespace at least, and Refresh the base snapshot,
\* by force.
LEMMA PlanFacts ==
    ASSUME NEW r, r.op \in Resolving
    PROVE  /\ PlanOf(r) \in Seq(Plans) /\ PlanOf(r) # <<>>
           /\ r.op = "refresh" => PlanOf(r) = <<Plan("base", TRUE)>>
<1> DEFINE hip3 == IF HIP3From(r.id) THEN <<Plan("hip3", FALSE)>> ELSE <<>>
           outcome == IF OutcomeFrom(r.id) /\ config.outcomes THEN <<Plan("outcome", FALSE)>> ELSE <<>>
<1>1. \A ns \in Namespaces, f \in BOOLEAN : Plan(ns, f) \in Plans
      BY DEF Plan, Plans
<1>2. <<Plan("base", FALSE)>> \in Seq(Plans) /\ <<Plan("base", TRUE)>> \in Seq(Plans)
      /\ hip3 \in Seq(Plans) /\ outcome \in Seq(Plans)
  <2>1. Plan("base", FALSE) \in Plans /\ Plan("base", TRUE) \in Plans
        /\ Plan("hip3", FALSE) \in Plans /\ Plan("outcome", FALSE) \in Plans
        BY <1>1 DEF Namespaces
  <2>2. <<>> \in Seq(Plans) OBVIOUS
  <2>3. <<Plan("hip3", FALSE)>> \in Seq(Plans) /\ <<Plan("outcome", FALSE)>> \in Seq(Plans) BY <2>1, One
  <2>4. hip3 \in Seq(Plans) /\ outcome \in Seq(Plans) BY <2>2, <2>3
  <2>5. <<Plan("base", FALSE)>> \in Seq(Plans) /\ <<Plan("base", TRUE)>> \in Seq(Plans) BY <2>1, One
  <2> QED BY <2>4, <2>5
<1>3. CASE r.op \in {"resolve", "cached", "cachedRefresh"}
      BY <1>2, <1>3 DEF PlanOf
<1>4. CASE r.op = "refresh"
      BY <1>2, <1>4 DEF PlanOf
<1>5. CASE r.op = "market"
  <2> DEFINE ns == IF r.ref.kind = "HIP3" THEN "hip3" ELSE IF r.ref.kind = "Outcome" THEN "outcome" ELSE "base"
  <2>1. ns \in Namespaces BY DEF Namespaces
  <2>2. <<Plan(ns, FALSE)>> \in Seq(Plans) /\ <<Plan(ns, FALSE)>> # <<>> BY <2>1, <1>1, One
  <2>3. PlanOf(r) = <<Plan(ns, FALSE)>> BY <1>5 DEF PlanOf
  <2> QED BY <2>2, <2>3, <1>5
<1>6. CASE r.op = "id"
  <2> HIDE DEF hip3, outcome
  <2>1. PlanOf(r) = (<<Plan("base", FALSE)>> \o hip3) \o outcome BY <1>6 DEF PlanOf, hip3, outcome
  <2>2. <<Plan("base", FALSE)>> # <<>> OBVIOUS
  <2>3. <<Plan("base", FALSE)>> \o hip3 \in Seq(Plans) /\ <<Plan("base", FALSE)>> \o hip3 # <<>>
        BY <2>2, <1>2, More
  <2>4. (<<Plan("base", FALSE)>> \o hip3) \o outcome \in Seq(Plans)
        /\ (<<Plan("base", FALSE)>> \o hip3) \o outcome # <<>>
        BY <2>3, <1>2, More
  <2> QED BY <2>1, <2>4, <1>6
<1> QED BY <1>3, <1>4, <1>5, <1>6 DEF Resolving

\* A request, whatever becomes of it, tells the resolver the version it read.
LEMMA RequestFacts ==
    ASSUME Typed, NEW c \in Callers, RequestStep(c)
    PROVE  /\ UNCHANGED <<now, config, req, version>>
           /\ DOMAIN ipc' = Callers /\ value' \in [Callers -> Nat]
           /\ \A d \in Callers \ {c} : ipc'[d] = ipc[d] /\ value'[d] = value[d]
           /\ ipc'[c] = "ok" => req[c].kind = "message" \/ value'[c] = version
<1> USE DEF Typed, IPC, PauseFor, waitReconnect
<1>1. CASE Call(c) BY <1>1 DEF Call
<1>2. CASE NotAdmitted(c) BY <1>2 DEF NotAdmitted
<1>3. CASE Answered(c) BY <1>3 DEF Answered
<1>4. CASE Failed(c) BY <1>4 DEF Failed
<1>5. CASE Retryable(c) BY <1>5 DEF Retryable
<1>6. CASE Retry(c) BY <1>6 DEF Retry
<1>7. CASE PauseCancelled(c) BY <1>7 DEF PauseCancelled
<1>8. CASE DialFails(c) BY <1>8 DEF DialFails
<1>9. CASE DialSucceeds(c) BY <1>9 DEF DialSucceeds
<1>10. CASE Written(c) BY <1>10 DEF Written
<1>11. CASE ConnectionLost(c) BY <1>11 DEF ConnectionLost
<1>12. CASE Redial(c) BY <1>12 DEF Redial
<1> QED BY <1>1, <1>2, <1>3, <1>4, <1>5, <1>6, <1>7, <1>8, <1>9, <1>10, <1>11, <1>12 DEF RequestStep

\* A call begins: it goes out unresolved, is refused, or asks for its snapshots.
LEMMA BeginFacts ==
    ASSUME Base, NEW c \in Callers, Begin(c)
    PROVE  /\ rpc[c] = "idle"
           /\ \E r \in Requests(config, c) :
                /\ req' = [req EXCEPT ![c] = r]
                /\ \/ /\ rpc' = [rpc EXCEPT ![c] = "path"] /\ UNCHANGED <<todo, result>>
                   \/ /\ rpc' = [rpc EXCEPT ![c] = "done"] /\ UNCHANGED todo
                      /\ result' = [result EXCEPT ![c] = "error"]
                   \/ /\ r.op \in Resolving /\ r.kind = "info"
                      /\ rpc' = [rpc EXCEPT ![c] = IF r.op = "cached" THEN "lookup" ELSE "demand"]
                      /\ todo' = [todo EXCEPT ![c] = PlanOf(r)] /\ UNCHANGED result
           /\ DOMAIN ipc' = Callers /\ \A d \in Callers \ {c} : ipc'[d] = ipc[d]
           /\ started' = [started EXCEPT ![c] = now] /\ renewed' = [renewed EXCEPT ![c] = {}]
           /\ UNCHANGED <<now, config, version, value, parts, inbox, read, failed, cache, loading, entry>>
<1>1. PICK r \in Requests(config, c) :
        /\ req' = [req EXCEPT ![c] = r]
        /\ CASE r.op = "send" ->
                  /\ RPC(c, "path")
                  /\ IF r.kind = "message" THEN IPC(c, "dial") /\ UNCHANGED limiterVars
                     ELSE IPC(c, "do") /\ TransportDo(c, r)
                  /\ UNCHANGED <<todo, result>>
             [] r.op # "send" /\ RefusedMarket(r) -> Finish(c, "error") /\ UNCHANGED <<ipc, todo, limiterVars>>
             [] OTHER -> /\ RPC(c, IF r.op = "cached" THEN "lookup" ELSE "demand")
                         /\ todo' = [todo EXCEPT ![c] = PlanOf(r)]
                         /\ UNCHANGED <<ipc, result, limiterVars>>
      BY DEF Begin
<1>2. r.op \in Resolving \cup {"send"} /\ (r.op # "send" => r.kind = "info")
      BY ResolverAssumption DEF Base, Typed
<1>0. /\ rpc[c] = "idle"
      /\ started' = [started EXCEPT ![c] = now] /\ renewed' = [renewed EXCEPT ![c] = {}]
      /\ UNCHANGED <<now, config, version, value, parts, inbox, read, failed, cache, loading, entry>>
      BY DEF Begin
<1>3. CASE r.op = "send"
  <2>1. /\ rpc' = [rpc EXCEPT ![c] = "path"] /\ UNCHANGED <<todo, result>>
        /\ \E to \in {"dial", "do"} : ipc' = [ipc EXCEPT ![c] = to]
        BY <1>1, <1>3 DEF RPC, IPC
  <2>2. DOMAIN ipc' = Callers /\ \A d \in Callers \ {c} : ipc'[d] = ipc[d] BY <2>1 DEF Base, Typed
  <2> QED BY <1>0, <1>1, <2>1, <2>2
<1>4. CASE r.op # "send" /\ RefusedMarket(r) BY <1>0, <1>1, <1>4 DEF RPC, Finish, Base, Typed
<1>5. CASE r.op # "send" /\ ~RefusedMarket(r) BY <1>0, <1>1, <1>2, <1>5 DEF RPC, Base, Typed
<1> QED BY <1>3, <1>4, <1>5

\* The tail of what is left to ask for.
LEMMA TailFacts ==
    ASSUME NEW s \in Seq(Plans), s # <<>>
    PROVE  /\ Head(s) \in Plans /\ Tail(s) \in Seq(Plans)
           /\ Len(s) > 1 => Tail(s) # <<>>
           /\ Head(s) = s[1] /\ 1 \in DOMAIN s
           /\ \A k \in DOMAIN Tail(s) : k + 1 \in DOMAIN s /\ Tail(s)[k] = s[k + 1]
           /\ Tail(s) # <<>> => 2 \in DOMAIN s /\ Head(Tail(s)) = s[2]
<1>1. Len(s) \in Nat /\ Len(s) >= 1 /\ DOMAIN s = 1..Len(s) OBVIOUS
<1>2. Tail(s) \in Seq(Plans) /\ Head(s) = s[1] /\ Len(Tail(s)) = Len(s) - 1 OBVIOUS
<1>3. \A k \in 1..Len(s) - 1 : Tail(s)[k] = s[k + 1] OBVIOUS
<1>4. Head(s) \in Plans BY <1>1, <1>2
<1>5. DOMAIN Tail(s) = 1..Len(s) - 1 BY <1>1, <1>2
<1>6. Len(s) > 1 <=> Tail(s) # <<>> BY <1>1, <1>2, EmptySeq
<1>7. Tail(s) # <<>> => Head(Tail(s)) = Tail(s)[1] BY <1>2
<1> QED BY <1>1, <1>2, <1>3, <1>4, <1>5, <1>6, <1>7

\* A snapshot was taken: it is added to what was read, and the caller asks for
\* the next one, or goes on to the optional namespaces, the fill or the end.
LEMMA TookFacts ==
    ASSUME Typed, NEW c \in Callers, NEW snap, todo[c] # <<>>, Took(c, snap)
    PROVE  /\ read' = [read EXCEPT ![c] = read[c] \cup {[ns |-> Head(todo[c]).ns, snap |-> snap]}]
           /\ todo' = [todo EXCEPT ![c] = Tail(todo[c])]
           /\ \E to \in {"optional", "demand", "fill", "done"} :
                /\ rpc' = [rpc EXCEPT ![c] = to]
                /\ to = "optional" <=> (req[c].op = "refresh" /\ Head(todo[c]).ns = "base")
                /\ to = "demand" => Len(todo[c]) > 1
                /\ to = "fill" => req[c].op # "refresh"
           /\ result' = result \/ \E o \in {"ok", "error"} : result' = [result EXCEPT ![c] = o]
           /\ UNCHANGED failed
<1> DEFINE r == req[c]
           snaps == read[c] \cup {[ns |-> Head(todo[c]).ns, snap |-> snap]}
           atBase == req[c].op = "refresh" /\ Head(todo[c]).ns = "base"
<1>1. CASE atBase BY <1>1 DEF Took, RPC
<1>2. CASE ~atBase /\ Len(todo[c]) > 1 BY <1>2 DEF Took, RPC
<1>3. CASE ~atBase /\ ~(Len(todo[c]) > 1)
  <2>1. IF r.op = "refresh" THEN Finish(c, IF c \in failed THEN "error" ELSE "ok")
        ELSE IF AnswerOf(r, snaps) = NotFound THEN Finish(c, "error")
        ELSE IF r.op \in {"cached", "cachedRefresh"} THEN RPC(c, "fill") /\ UNCHANGED result
        ELSE Finish(c, "ok")
        BY <1>3 DEF Took
  <2>2. CASE r.op = "refresh" BY <2>1, <2>2, <1>3 DEF Took, RPC, Finish
  <2>3. CASE r.op # "refresh" BY <2>1, <2>3, <1>3 DEF Took, RPC, Finish
  <2> QED BY <2>2, <2>3
<1> QED BY <1>1, <1>2, <1>3

\* Nothing was taken: the call fails, but Refresh goes on to the next optional
\* namespace.
LEMMA LackedFacts ==
    ASSUME Typed, NEW c \in Callers, todo[c] # <<>>, Lacked(c)
    PROVE  /\ UNCHANGED read
           /\ todo' = [todo EXCEPT ![c] = Tail(todo[c])]
           /\ \/ /\ rpc' = [rpc EXCEPT ![c] = "done"] /\ result' = [result EXCEPT ![c] = "error"]
              \/ /\ rpc' = [rpc EXCEPT ![c] = "demand"] /\ UNCHANGED result /\ Len(todo[c]) > 1
                 /\ req[c].op = "refresh" /\ Head(todo[c]).ns # "base"
BY DEF Lacked, RPC, Finish

----------------------------------------------------------------------------
(* Typing and places are kept. *)

\* The callers a step is not about stay where they are.
Frame(c) ==
    \A d \in Callers \ {c} :
        /\ rpc'[d] = rpc[d] /\ todo'[d] = todo[d] /\ req'[d] = req[d]
        /\ read'[d] = read[d] /\ result'[d] = result[d] /\ started'[d] = started[d]
        /\ rpc[d] # "join" => inbox'[d] = inbox[d]
        /\ \A ns \in Namespaces : loading[ns] = d => loading'[ns] = d

\* A step of one caller of the resolver leaves every other where it was allowed to be.
LEMMA OthersStay ==
    ASSUME Base, NEW c \in Callers, Frame(c), now' \in Nat, now' >= now
    PROVE  \A d \in Callers \ {c} : PlacedAt(d)'
<1> SUFFICES ASSUME NEW d \in Callers \ {c} PROVE PlacedAt(d)' OBVIOUS
<1>1. PlacedAt(d) BY DEF Base, Placed
<1>2. rpc[d] = "fetch" => Head(todo[d]).ns \in Namespaces
  <2>1. rpc[d] = "fetch" => todo[d] # <<>> BY <1>1 DEF PlacedAt
  <2>2. todo[d] \in Seq(Plans) BY DEF Base, Typed
  <2> QED BY <2>1, <2>2, TailFacts DEF Plans
<1>3. started[d] <= now' BY <1>1 DEF PlacedAt, Base, Typed
<1> QED BY <1>1, <1>2, <1>3 DEF Frame, PlacedAt

\* Begin: a new call is typed by its menu and has everything to ask for.
LEMMA BeginBase ==
    ASSUME Base, NEW c \in Callers, Begin(c)
    PROVE  Base'
<1> USE BeginFacts
<1>1. PICK r \in Requests(config, c) :
        /\ req' = [req EXCEPT ![c] = r]
        /\ \/ /\ rpc' = [rpc EXCEPT ![c] = "path"] /\ UNCHANGED <<todo, result>>
           \/ /\ rpc' = [rpc EXCEPT ![c] = "done"] /\ UNCHANGED todo
              /\ result' = [result EXCEPT ![c] = "error"]
           \/ /\ r.op \in Resolving /\ r.kind = "info"
              /\ rpc' = [rpc EXCEPT ![c] = IF r.op = "cached" THEN "lookup" ELSE "demand"]
              /\ todo' = [todo EXCEPT ![c] = PlanOf(r)] /\ UNCHANGED result
      OBVIOUS
<1>2. r.op \in Resolving => PlanOf(r) \in Seq(Plans) /\ PlanOf(r) # <<>> BY PlanFacts
<1>3. Typed'
  <2>0. /\ rpc \in [Callers -> ResolverPlaces] /\ todo \in [Callers -> Seq(Plans)]
        /\ started \in [Callers -> Nat] /\ renewed \in [Callers -> SUBSET Namespaces] /\ now \in Nat
        BY DEF Base, Typed
  <2>1. rpc' \in [Callers -> ResolverPlaces] /\ todo' \in [Callers -> Seq(Plans)]
    <3>1. CASE UNCHANGED todo /\ \E to \in {"path", "done"} : rpc' = [rpc EXCEPT ![c] = to]
          BY <3>1, <2>0 DEF ResolverPlaces
    <3>2. CASE /\ r.op \in Resolving
               /\ rpc' = [rpc EXCEPT ![c] = IF r.op = "cached" THEN "lookup" ELSE "demand"]
               /\ todo' = [todo EXCEPT ![c] = PlanOf(r)]
      <4>1. rpc' \in [Callers -> ResolverPlaces] BY <3>2, <2>0 DEF ResolverPlaces
      <4>2. todo' \in [Callers -> Seq(Plans)] BY <3>2, <2>0, <1>2
      <4> QED BY <4>1, <4>2
    <3> QED BY <1>1, <3>1, <3>2
  <2>2. DOMAIN req' = Callers /\ DOMAIN result' = Callers BY <1>1 DEF Base, Typed
  <2>3. started' \in [Callers -> Nat] /\ renewed' \in [Callers -> SUBSET Namespaces]
    <3>1. started' = [started EXCEPT ![c] = now] /\ renewed' = [renewed EXCEPT ![c] = {}] OBVIOUS
    <3> HIDE BeginFacts
    <3> QED BY <3>1, <2>0
  <2> QED BY <2>1, <2>2, <2>3 DEF Base, Typed
<1>4. Frame(c) BY <1>1 DEF Frame, Base, Typed
<1>5. PlacedAt(c)'
  <2>1. PlacedAt(c) /\ rpc[c] = "idle" BY DEF Base, Placed
  <2>2. inbox'[c] = NoResult BY <2>1 DEF PlacedAt
  <2>3. started'[c] <= now' BY DEF Base, Typed
  <2>4. req'[c] = r BY <1>1 DEF Base, Typed
  <2>5. rpc'[c] = "path" \/ rpc'[c] = "done"
        \/ (/\ r.op \in Resolving /\ r.kind = "info" /\ todo'[c] # <<>>
            /\ rpc'[c] = IF r.op = "cached" THEN "lookup" ELSE "demand")
        BY <1>1, <1>2 DEF Base, Typed
  <2> QED BY <2>2, <2>3, <2>4, <2>5 DEF PlacedAt
<1>6. now' \in Nat /\ now' >= now BY DEF Base, Typed
<1> QED BY <1>3, <1>4, <1>5, <1>6, OthersStay DEF Base, Placed

\* What a caller that took or lacked a snapshot is up to next.
LEMMA NextPlace ==
    ASSUME Base, NEW c \in Callers, todo[c] # <<>>, rpc[c] \in {"demand", "fetch", "join"},
           (\E snap : Took(c, snap)) \/ Lacked(c)
    PROVE  /\ rpc' \in [Callers -> ResolverPlaces] /\ todo' \in [Callers -> Seq(Plans)]
           /\ DOMAIN read' = Callers /\ DOMAIN result' = Callers
           /\ \A d \in Callers \ {c} : /\ rpc'[d] = rpc[d] /\ todo'[d] = todo[d]
                                       /\ read'[d] = read[d] /\ result'[d] = result[d]
           /\ rpc'[c] \in {"optional", "demand", "fill", "done"}
           /\ rpc'[c] = "demand" => todo'[c] # <<>>
           /\ rpc'[c] = "optional" => req[c].op = "refresh"
           /\ rpc'[c] = "fill" => req[c].op # "refresh"
<1>1. /\ rpc \in [Callers -> ResolverPlaces] /\ todo \in [Callers -> Seq(Plans)]
      /\ DOMAIN read = Callers /\ DOMAIN result = Callers
      BY DEF Base, Typed
<1>2. Tail(todo[c]) \in Seq(Plans) /\ (Len(todo[c]) > 1 => Tail(todo[c]) # <<>>)
      BY <1>1, TailFacts
<1>3. CASE \E snap : Took(c, snap)
  <2>0. PICK snap : Took(c, snap) BY <1>3
  <2>1. PICK to \in {"optional", "demand", "fill", "done"} :
                /\ rpc' = [rpc EXCEPT ![c] = to]
                /\ to = "optional" <=> (req[c].op = "refresh" /\ Head(todo[c]).ns = "base")
                /\ to = "demand" => Len(todo[c]) > 1
                /\ to = "fill" => req[c].op # "refresh"
        BY <2>0, TookFacts DEF Base
  <2>2. /\ read' = [read EXCEPT ![c] = read[c] \cup {[ns |-> Head(todo[c]).ns, snap |-> snap]}]
        /\ todo' = [todo EXCEPT ![c] = Tail(todo[c])]
        /\ result' = result \/ \E o \in {"ok", "error"} : result' = [result EXCEPT ![c] = o]
        BY <2>0, TookFacts DEF Base
  <2>3. rpc' \in [Callers -> ResolverPlaces] BY <1>1, <2>1 DEF ResolverPlaces
  <2>4. todo' \in [Callers -> Seq(Plans)] /\ todo'[c] = Tail(todo[c]) BY <1>1, <1>2, <2>2
  <2>5. DOMAIN read' = Callers /\ DOMAIN result' = Callers BY <1>1, <2>2
  <2>6. \A d \in Callers \ {c} : /\ rpc'[d] = rpc[d] /\ todo'[d] = todo[d]
                                 /\ read'[d] = read[d] /\ result'[d] = result[d]
        BY <1>1, <2>1, <2>2
  <2>7. rpc'[c] \in {"optional", "demand", "fill", "done"} /\ (rpc'[c] = "demand" => Len(todo[c]) > 1)
        /\ (rpc'[c] = "optional" => req[c].op = "refresh") /\ (rpc'[c] = "fill" => req[c].op # "refresh")
        BY <1>1, <2>1
  <2> QED BY <1>2, <2>3, <2>4, <2>5, <2>6, <2>7
<1>4. CASE Lacked(c)
  <2>1. /\ UNCHANGED read
        /\ todo' = [todo EXCEPT ![c] = Tail(todo[c])]
        /\ \/ /\ rpc' = [rpc EXCEPT ![c] = "done"] /\ result' = [result EXCEPT ![c] = "error"]
           \/ /\ rpc' = [rpc EXCEPT ![c] = "demand"] /\ UNCHANGED result /\ Len(todo[c]) > 1
        BY <1>4, LackedFacts DEF Base
  <2>2. PICK to \in {"demand", "done"} : rpc' = [rpc EXCEPT ![c] = to] /\ (to = "demand" => Len(todo[c]) > 1)
        BY <2>1
  <2>3. result' = result \/ result' = [result EXCEPT ![c] = "error"] BY <2>1
  <2>4. rpc' \in [Callers -> ResolverPlaces] BY <1>1, <2>2 DEF ResolverPlaces
  <2>5. todo' \in [Callers -> Seq(Plans)] /\ todo'[c] = Tail(todo[c]) BY <1>1, <1>2, <2>1
  <2>6. DOMAIN read' = Callers /\ DOMAIN result' = Callers BY <1>1, <2>1, <2>3
  <2>7. \A d \in Callers \ {c} : /\ rpc'[d] = rpc[d] /\ todo'[d] = todo[d]
                                 /\ read'[d] = read[d] /\ result'[d] = result[d]
        BY <1>1, <2>1, <2>2, <2>3
  <2>8. rpc'[c] \in {"demand", "done"} /\ (rpc'[c] = "demand" => Len(todo[c]) > 1) BY <1>1, <2>2
  <2> QED BY <1>2, <2>4, <2>5, <2>6, <2>7, <2>8
<1> QED BY <1>3, <1>4

\* Whoever asks for a snapshot has something left to ask for.
LEMMA Asking ==
    ASSUME Base, NEW c \in Callers, rpc[c] \in {"demand", "fetch", "join"}
    PROVE  /\ PlacedAt(c) /\ todo[c] # <<>> /\ todo[c] \in Seq(Plans)
           /\ Head(todo[c]) \in Plans /\ Head(todo[c]).ns \in Namespaces
           /\ req[c].op \in Resolving /\ req[c].kind = "info"
<1>1. PlacedAt(c) /\ todo[c] # <<>> BY DEF Base, Placed, PlacedAt
<1>2. todo[c] \in Seq(Plans) BY DEF Base, Typed
<1>3. Head(todo[c]) \in Plans BY <1>1, <1>2, TailFacts
<1>4. Head(todo[c]).ns \in Namespaces BY <1>3 DEF Plans
<1>5. req[c].op \in Resolving /\ req[c].kind = "info" BY <1>1 DEF PlacedAt
<1> QED BY <1>1, <1>2, <1>3, <1>4, <1>5

\* The four ways a caller leaves the check of the cache.
LEMMA DemandCases ==
    ASSUME Base, NEW c \in Callers, Demand(c)
    PROVE  \/ Lacked(c) /\ UNCHANGED <<ipc, parts, loading>>
           \/ /\ ~Head(todo[c]).force /\ Valid(Head(todo[c]).ns)
              /\ Took(c, cache[Head(todo[c]).ns]) /\ UNCHANGED <<ipc, parts, loading>>
           \/ RPC(c, "join") /\ UNCHANGED <<ipc, parts, loading, todo, read, failed, result>>
           \/ /\ loading[Head(todo[c]).ns] = NoLoad
              /\ loading' = [loading EXCEPT ![Head(todo[c]).ns] = c]
              /\ parts' = [parts EXCEPT ![c] = <<>>]
              /\ IPC(c, "call") /\ RPC(c, "fetch")
              /\ UNCHANGED <<todo, read, failed, result>>
<1> DEFINE ns == Head(todo[c]).ns
<1>0. Head(todo[c]).force \in BOOLEAN BY Asking DEF Demand, Plans
<1>1. CASE c \in cancelled BY <1>1 DEF Demand
<1>2. CASE c \notin cancelled /\ ~Head(todo[c]).force /\ Valid(ns) BY <1>2 DEF Demand
<1>3. CASE c \notin cancelled /\ (Head(todo[c]).force \/ ~Valid(ns)) /\ LoadInFlight(ns) BY <1>3 DEF Demand
<1>4. CASE c \notin cancelled /\ (Head(todo[c]).force \/ ~Valid(ns)) /\ ~LoadInFlight(ns)
      BY <1>4 DEF Demand, LoadInFlight
<1> QED BY <1>0, <1>1, <1>2, <1>3, <1>4

\* Demand: to the next place, to the load in flight, or to the lead of a new one,
\* which nobody else has.
LEMMA DemandBase ==
    ASSUME Base, NEW c \in Callers, Demand(c)
    PROVE  Base'
<1> DEFINE ns == Head(todo[c]).ns
<1>0. rpc[c] = "demand" /\ UNCHANGED <<now, config, req, version, value, inbox, cache, started, renewed>>
      BY DEF Demand
<1>1. /\ PlacedAt(c) /\ todo[c] # <<>> /\ todo[c] \in Seq(Plans) /\ ns \in Namespaces
      /\ req[c].op \in Resolving /\ req[c].kind = "info"
      BY <1>0, Asking
<1>2. now' \in Nat /\ now' >= now BY <1>0 DEF Base, Typed
<1>3. inbox'[c] = NoResult /\ started'[c] <= now' /\ req'[c] = req[c] BY <1>0, <1>1 DEF PlacedAt
<1>4. /\ rpc \in [Callers -> ResolverPlaces] /\ todo \in [Callers -> Seq(Plans)] /\ parts \in [Callers -> Seq(Nat)]
      /\ DOMAIN read = Callers /\ DOMAIN result = Callers /\ DOMAIN ipc = Callers /\ DOMAIN loading = Namespaces
      BY DEF Base, Typed
<1>5. CASE ((\E snap : Took(c, snap)) \/ Lacked(c)) /\ UNCHANGED <<ipc, parts, loading>>
  <2>1. /\ rpc' \in [Callers -> ResolverPlaces] /\ todo' \in [Callers -> Seq(Plans)]
        /\ DOMAIN read' = Callers /\ DOMAIN result' = Callers
        /\ \A d \in Callers \ {c} : /\ rpc'[d] = rpc[d] /\ todo'[d] = todo[d]
                                    /\ read'[d] = read[d] /\ result'[d] = result[d]
        /\ rpc'[c] \in {"optional", "demand", "fill", "done"}
        /\ rpc'[c] = "demand" => todo'[c] # <<>>
        /\ rpc'[c] = "optional" => req[c].op = "refresh"
        /\ rpc'[c] = "fill" => req[c].op # "refresh"
        BY <1>0, <1>1, <1>5, NextPlace
  <2>2. Typed' BY <1>0, <1>5, <2>1 DEF Base, Typed
  <2>3. Frame(c) BY <1>0, <1>5, <2>1 DEF Frame
  <2>4. PlacedAt(c)' BY <1>1, <1>3, <2>1 DEF PlacedAt
  <2> QED BY <1>2, <2>2, <2>3, <2>4, OthersStay DEF Base, Placed
<1>6. CASE RPC(c, "join") /\ UNCHANGED <<ipc, parts, loading, todo, read, failed, result>>
  <2>1. rpc' \in [Callers -> ResolverPlaces] /\ rpc'[c] = "join" BY <1>4, <1>6 DEF RPC, ResolverPlaces
  <2>2. Typed' BY <1>0, <1>6, <2>1 DEF Base, Typed
  <2>3. Frame(c) BY <1>0, <1>4, <1>6 DEF Frame, RPC
  <2>4. PlacedAt(c)' BY <1>1, <1>3, <1>6, <2>1 DEF PlacedAt
  <2> QED BY <1>2, <2>2, <2>3, <2>4, OthersStay DEF Base, Placed
<1>7. CASE /\ loading[ns] = NoLoad
           /\ loading' = [loading EXCEPT ![ns] = c]
           /\ parts' = [parts EXCEPT ![c] = <<>>]
           /\ IPC(c, "call") /\ RPC(c, "fetch")
           /\ UNCHANGED <<todo, read, failed, result>>
  <2>1. rpc' \in [Callers -> ResolverPlaces] /\ rpc'[c] = "fetch" BY <1>4, <1>7 DEF RPC, ResolverPlaces
  <2>2. parts' \in [Callers -> Seq(Nat)] BY <1>4, <1>7
  <2>3. DOMAIN ipc' = Callers /\ DOMAIN loading' = Namespaces /\ loading'[ns] = c BY <1>1, <1>4, <1>7 DEF IPC
  <2>4. Typed' BY <1>0, <1>7, <2>1, <2>2, <2>3 DEF Base, Typed
  <2>5. Frame(c) BY <1>0, <1>4, <1>7, ResolverAssumption DEF Frame, RPC
  <2>6. PlacedAt(c)' BY <1>1, <1>3, <1>7, <2>1, <2>3 DEF PlacedAt
  <2> QED BY <1>2, <2>4, <2>5, <2>6, OthersStay DEF Base, Placed
<1> QED BY <1>5, <1>6, <1>7, DemandCases

\* The ways a step of the leader ends: the load failed, another part is to be
\* read, or the snapshot is complete.
LEMMA FetchCases ==
    ASSUME Base, NEW c \in Callers, Fetch(c)
    PROVE  /\ rpc[c] = "fetch" /\ value' = [value EXCEPT ![c] = 0] /\ \E i : IPC(c, i)
           /\ UNCHANGED <<now, config, req, version, entry, started>>
           /\ \/ FetchFailed(c) /\ UNCHANGED parts
              \/ /\ ipc[c] = "ok" /\ Len(Append(parts[c], value[c])) # Parts(Head(todo[c]).ns)
                 /\ parts' = [parts EXCEPT ![c] = Append(parts[c], value[c])] /\ IPC(c, "call")
                 /\ UNCHANGED <<rpc, todo, inbox, read, failed, cache, loading, renewed, result>>
              \/ /\ ipc[c] = "ok" /\ Len(Append(parts[c], value[c])) = Parts(Head(todo[c]).ns)
                 /\ FetchSucceeded(c, Append(parts[c], value[c])) /\ UNCHANGED parts
BY DEF Fetch

\* The result of a load reaches those who wait for it and nobody else.
LEMMA Delivered ==
    ASSUME Base, NEW c \in Callers, NEW load \in Results, Deliver(c, load)
    PROVE  /\ inbox' \in [Callers -> Results]
           /\ \A d \in Callers : rpc[d] # "join" => inbox'[d] = inbox[d]
           /\ \A d \in Callers : inbox'[d] # inbox[d] =>
                inbox'[d] = load /\ Head(todo[d]).ns = Head(todo[c]).ns /\ rpc[d] = "join"
<1>1. inbox \in [Callers -> Results] BY DEF Base, Typed
<1>2. inbox' = [j \in Callers |-> IF j \in Waiting(c) THEN load ELSE inbox[j]] BY DEF Deliver
<1>3. \A d \in Callers : d \in Waiting(c) => rpc[d] = "join" /\ Head(todo[d]).ns = Head(todo[c]).ns
      BY DEF Waiting
<1>4. inbox' \in [Callers -> Results] BY <1>1, <1>2
<1>5. \A d \in Callers : inbox'[d] = IF d \in Waiting(c) THEN load ELSE inbox[d] BY <1>2
<1> QED BY <1>3, <1>4, <1>5

\* NoSnapshot and NoResult are what they stand in for.
LEMMA Nothing == NoSnapshot \in Snapshots /\ NoResult \in Results
<1>1. <<>> \in Seq(Nat) OBVIOUS
<1>2. NoSnapshot \in Snapshots BY <1>1 DEF NoSnapshot, Snapshots
<1>3. [err |-> FALSE, snap |-> NoSnapshot] \in [err : BOOLEAN, snap : Snapshots] BY <1>2
<1> QED BY <1>2, <1>3 DEF NoResult, Results

\* A complete snapshot, and what it is handed out as.
LEMMA Complete ==
    ASSUME Base, NEW c \in Callers
    PROVE  /\ Append(parts[c], value[c]) \in Seq(Nat)
           /\ Len(Append(parts[c], value[c])) = Len(parts[c]) + 1
           /\ \A i \in 1..Len(parts[c]) : Append(parts[c], value[c])[i] = parts[c][i]
           /\ Append(parts[c], value[c])[Len(parts[c]) + 1] = value[c]
           /\ [parts |-> Append(parts[c], value[c]), at |-> now] \in Snapshots
           /\ [err |-> FALSE, snap |-> [parts |-> Append(parts[c], value[c]), at |-> now]] \in Results
           /\ [err |-> TRUE, snap |-> NoSnapshot] \in Results
<1>1. parts[c] \in Seq(Nat) /\ value[c] \in Nat /\ now \in Int BY DEF Base, Typed
<1>2. Append(parts[c], value[c]) \in Seq(Nat) BY <1>1
<1>3. [parts |-> Append(parts[c], value[c]), at |-> now] \in Snapshots BY <1>1, <1>2 DEF Snapshots
<1>4. [err |-> FALSE, snap |-> [parts |-> Append(parts[c], value[c]), at |-> now]] \in Results
      BY <1>3 DEF Results
<1>5. [err |-> TRUE, snap |-> NoSnapshot] \in Results BY Nothing DEF Results
<1> QED BY <1>1, <1>2, <1>3, <1>4, <1>5

\* Fetch: the leader reads on, or gives the lead up and hands out the result.
LEMMA FetchBase ==
    ASSUME Base, NEW c \in Callers, Fetch(c)
    PROVE  Base'
<1> DEFINE ns == Head(todo[c]).ns
           p == Append(parts[c], value[c])
<1>0. /\ rpc[c] = "fetch" /\ value' = [value EXCEPT ![c] = 0] /\ \E i : IPC(c, i)
      /\ UNCHANGED <<now, config, req, version, entry, started>>
      BY FetchCases
<1>1. /\ PlacedAt(c) /\ todo[c] # <<>> /\ todo[c] \in Seq(Plans) /\ ns \in Namespaces
      /\ req[c].op \in Resolving /\ req[c].kind = "info"
      BY <1>0, Asking
<1>2. now' \in Nat /\ now' >= now BY <1>0 DEF Base, Typed
<1>3. inbox[c] = NoResult /\ started'[c] <= now' /\ req'[c] = req[c] /\ loading[ns] = c BY <1>0, <1>1 DEF PlacedAt
<1>4. /\ rpc \in [Callers -> ResolverPlaces] /\ todo \in [Callers -> Seq(Plans)] /\ parts \in [Callers -> Seq(Nat)]
      /\ DOMAIN read = Callers /\ DOMAIN result = Callers /\ DOMAIN ipc = Callers /\ DOMAIN loading = Namespaces
      /\ value \in [Callers -> Nat] /\ cache \in [Namespaces -> Snapshots]
      /\ renewed \in [Callers -> SUBSET Namespaces]
      BY DEF Base, Typed
<1>5. value' \in [Callers -> Nat] /\ DOMAIN ipc' = Callers BY <1>0, <1>4 DEF IPC
<1>6. ASSUME (\E snap : Took(c, snap)) \/ Lacked(c), UNCHANGED parts, loading' = [loading EXCEPT ![ns] = NoLoad],
             cache' \in [Namespaces -> Snapshots], renewed' \in [Callers -> SUBSET Namespaces],
             \E load \in Results : Deliver(c, load)
      PROVE  Base'
  <2>1. /\ rpc' \in [Callers -> ResolverPlaces] /\ todo' \in [Callers -> Seq(Plans)]
        /\ DOMAIN read' = Callers /\ DOMAIN result' = Callers
        /\ \A d \in Callers \ {c} : /\ rpc'[d] = rpc[d] /\ todo'[d] = todo[d]
                                    /\ read'[d] = read[d] /\ result'[d] = result[d]
        /\ rpc'[c] \in {"optional", "demand", "fill", "done"}
        /\ rpc'[c] = "demand" => todo'[c] # <<>>
        /\ rpc'[c] = "optional" => req[c].op = "refresh"
        /\ rpc'[c] = "fill" => req[c].op # "refresh"
        BY <1>0, <1>1, <1>6, NextPlace
  <2>2. /\ inbox' \in [Callers -> Results]
        /\ \A d \in Callers : rpc[d] # "join" => inbox'[d] = inbox[d]
        BY <1>6, Delivered
  <2>3. DOMAIN loading' = Namespaces BY <1>4, <1>6
  <2>4. Typed' BY <1>0, <1>4, <1>5, <1>6, <2>1, <2>2, <2>3 DEF Base, Typed
  <2>5. \A d \in Callers \ {c}, m \in Namespaces : loading[m] = d => loading'[m] = d BY <1>3, <1>4, <1>6
  <2>6. Frame(c) BY <1>0, <2>1, <2>2, <2>5 DEF Frame
  <2>7. inbox'[c] = NoResult BY <1>0, <1>3, <2>2
  <2>8. PlacedAt(c)' BY <1>1, <1>3, <2>1, <2>7 DEF PlacedAt
  <2> QED BY <1>2, <2>4, <2>6, <2>8, OthersStay DEF Base, Placed
<1>7. CASE FetchFailed(c) /\ UNCHANGED parts
  <2>1. \E load \in Results : Deliver(c, load) BY <1>7, Complete DEF FetchFailed
  <2> QED BY <1>4, <1>6, <1>7, <2>1 DEF FetchFailed
<1>8. CASE FetchSucceeded(c, p) /\ UNCHANGED parts
  <2>1. \E load \in Results : Deliver(c, load) BY <1>8, Complete DEF FetchSucceeded
  <2>2. cache' \in [Namespaces -> Snapshots]
    <3>1. cache' = [cache EXCEPT ![ns] = [parts |-> p, at |-> now]] BY <1>8 DEF FetchSucceeded
    <3> QED BY <3>1, <1>4, Complete
  <2>3. renewed' \in [Callers -> SUBSET Namespaces]
    <3>1. renewed' = [d \in Callers |-> IF rpc[d] \in {"idle", "done"} THEN renewed[d] ELSE renewed[d] \cup {ns}]
          BY <1>8 DEF FetchSucceeded
    <3>2. \A d \in Callers : renewed[d] \in SUBSET Namespaces /\ renewed[d] \cup {ns} \in SUBSET Namespaces
          BY <1>1, <1>4
    <3> QED BY <3>1, <3>2
  <2>4. (\E snap : Took(c, snap)) /\ loading' = [loading EXCEPT ![ns] = NoLoad] BY <1>8 DEF FetchSucceeded
  <2> QED BY <1>6, <1>8, <2>1, <2>2, <2>3, <2>4
<1>9. CASE /\ parts' = [parts EXCEPT ![c] = p]
           /\ UNCHANGED <<rpc, todo, inbox, read, failed, cache, loading, renewed, result>>
  <2>1. parts' \in [Callers -> Seq(Nat)] BY <1>4, <1>9, Complete
  <2>2. Typed' BY <1>0, <1>5, <1>9, <2>1 DEF Base, Typed
  <2>3. Frame(c) BY <1>0, <1>9 DEF Frame
  <2>4. PlacedAt(c)' BY <1>0, <1>1, <1>3, <1>9 DEF PlacedAt
  <2> QED BY <1>2, <2>2, <2>3, <2>4, OthersStay DEF Base, Placed
<1> QED BY <1>7, <1>8, <1>9, FetchCases

\* How a joiner goes on: without a snapshot, with the leader's, or, unless it was
\* to force a load, with the one that is still valid.
LEMMA JoinCases ==
    ASSUME Base, NEW c \in Callers, Join(c)
    PROVE  /\ rpc[c] = "join" /\ inbox' = [inbox EXCEPT ![c] = NoResult]
           /\ UNCHANGED <<now, config, req, ipc, version, value, parts, cache, loading, entry, started, renewed>>
           /\ \/ Lacked(c)
              \/ inbox[c].snap # NoSnapshot /\ Took(c, inbox[c].snap)
              \/ /\ ~Head(todo[c]).force /\ Valid(Head(todo[c]).ns)
                 /\ Took(c, cache[Head(todo[c]).ns])
<1>1. Head(todo[c]).force \in BOOLEAN BY Asking DEF Join, Plans
<1> QED BY <1>1 DEF Join, JoinMayFallBack, pathVars

\* Join: the joiner picks its result up and goes on.
LEMMA JoinBase ==
    ASSUME Base, NEW c \in Callers, Join(c)
    PROVE  Base'
<1>0. /\ rpc[c] = "join" /\ inbox' = [inbox EXCEPT ![c] = NoResult]
      /\ UNCHANGED <<now, config, req, ipc, version, value, parts, cache, loading, entry, started, renewed>>
      /\ (\E snap : Took(c, snap)) \/ Lacked(c)
      BY JoinCases
<1>1. /\ PlacedAt(c) /\ todo[c] # <<>> /\ req[c].op \in Resolving /\ req[c].kind = "info"
      BY <1>0, Asking
<1>2. now' \in Nat /\ now' >= now /\ inbox \in [Callers -> Results] BY <1>0 DEF Base, Typed
<1>3. started'[c] <= now' /\ req'[c] = req[c] BY <1>0, <1>1 DEF PlacedAt
<1>4. inbox' \in [Callers -> Results] /\ inbox'[c] = NoResult /\ \A d \in Callers \ {c} : inbox'[d] = inbox[d]
      BY <1>0, <1>2, Nothing
<1>5. /\ rpc' \in [Callers -> ResolverPlaces] /\ todo' \in [Callers -> Seq(Plans)]
      /\ DOMAIN read' = Callers /\ DOMAIN result' = Callers
      /\ \A d \in Callers \ {c} : /\ rpc'[d] = rpc[d] /\ todo'[d] = todo[d]
                                  /\ read'[d] = read[d] /\ result'[d] = result[d]
      /\ rpc'[c] \in {"optional", "demand", "fill", "done"}
      /\ rpc'[c] = "demand" => todo'[c] # <<>>
      /\ rpc'[c] = "optional" => req[c].op = "refresh"
      /\ rpc'[c] = "fill" => req[c].op # "refresh"
      BY <1>0, <1>1, NextPlace
<1>6. Typed' BY <1>0, <1>4, <1>5 DEF Base, Typed
<1>7. Frame(c) BY <1>0, <1>4, <1>5 DEF Frame
<1>8. PlacedAt(c)' BY <1>1, <1>3, <1>4, <1>5 DEF PlacedAt
<1> QED BY <1>2, <1>6, <1>7, <1>8, OthersStay DEF Base, Placed

\* What Refresh asks for after the base snapshot: namespaces it loads by force.
MoreToRefresh ==
    (IF cache["hip3"] # NoSnapshot THEN <<Plan("hip3", TRUE)>> ELSE <<>>)
        \o (IF config.outcomes /\ cache["outcome"] # NoSnapshot THEN <<Plan("outcome", TRUE)>> ELSE <<>>)

\* Refresh forces every namespace it adds, and adds none the client cannot load.
LEMMA MoreFacts ==
    MoreToRefresh \in Seq(Plans) /\ \A k \in DOMAIN MoreToRefresh : MoreToRefresh[k].force = TRUE
<1> DEFINE Forced == {q \in Plans : q.force = TRUE}
           hip3 == IF cache["hip3"] # NoSnapshot THEN <<Plan("hip3", TRUE)>> ELSE <<>>
           outcome == IF config.outcomes /\ cache["outcome"] # NoSnapshot THEN <<Plan("outcome", TRUE)>> ELSE <<>>
<1>1. Plan("hip3", TRUE) \in Plans /\ Plan("outcome", TRUE) \in Plans BY DEF Plan, Plans, Namespaces
<1>2. Plan("hip3", TRUE).force = TRUE /\ Plan("outcome", TRUE).force = TRUE BY DEF Plan
<1>3. Plan("hip3", TRUE) \in Forced /\ Plan("outcome", TRUE) \in Forced BY <1>1, <1>2
<1> HIDE DEF Forced
<1>4. <<Plan("hip3", TRUE)>> \in Seq(Forced) /\ <<Plan("outcome", TRUE)>> \in Seq(Forced) BY <1>3, One
<1>5. <<>> \in Seq(Forced) OBVIOUS
<1>6. hip3 \in Seq(Forced) /\ outcome \in Seq(Forced) BY <1>4, <1>5
<1> HIDE DEF hip3, outcome
<1>7. hip3 \o outcome \in Seq(Forced) BY <1>6
<1>8. MoreToRefresh = hip3 \o outcome BY DEF MoreToRefresh, hip3, outcome
<1>9. ASSUME NEW s \in Seq(Forced) PROVE s \in Seq(Plans) /\ \A k \in DOMAIN s : s[k].force = TRUE
  <2>1. \A q \in Forced : q \in Plans /\ q.force = TRUE BY DEF Forced
  <2>2. s \in [1..Len(s) -> Forced] /\ Len(s) \in Nat OBVIOUS
  <2>3. s \in [1..Len(s) -> Plans] BY <2>1, <2>2
  <2> QED BY <2>1, <2>2, <2>3, IsASeq
<1> QED BY <1>7, <1>8, <1>9

\* The steps of the resolvers that take no snapshot.
LEMMA OptionalBase ==
    ASSUME Base, NEW c \in Callers, RefreshOptional(c)
    PROVE  Base'
<1>0. /\ rpc[c] = "optional"
      /\ \/ Finish(c, "ok") /\ UNCHANGED todo
         \/ /\ MoreToRefresh # <<>> /\ RPC(c, "demand") /\ todo' = [todo EXCEPT ![c] = MoreToRefresh]
            /\ UNCHANGED result
      /\ UNCHANGED <<now, config, req, ipc, version, value, parts, inbox, read, cache, loading, started, renewed>>
      BY DEF RefreshOptional, MoreToRefresh, pathVars
<1>1. /\ rpc \in [Callers -> ResolverPlaces] /\ todo \in [Callers -> Seq(Plans)] /\ DOMAIN result = Callers
      BY DEF Base, Typed
<1>2. PlacedAt(c) BY DEF Base, Placed
<1>3. rpc' \in [Callers -> ResolverPlaces] /\ DOMAIN result' = Callers BY <1>0, <1>1 DEF RPC, Finish, ResolverPlaces
<1>4. todo' \in [Callers -> Seq(Plans)] BY <1>0, <1>1, MoreFacts
<1>5. Typed' BY <1>0, <1>3, <1>4 DEF Base, Typed
<1>6. Frame(c) BY <1>0, <1>1 DEF Frame, RPC, Finish
<1>7. rpc'[c] = "done" \/ (rpc'[c] = "demand" /\ todo'[c] # <<>>) BY <1>0, <1>1 DEF RPC, Finish
<1>8. PlacedAt(c)' BY <1>0, <1>2, <1>7 DEF PlacedAt
<1>9. now' \in Nat /\ now' >= now BY <1>0 DEF Base, Typed
<1> QED BY <1>5, <1>6, <1>8, <1>9, OthersStay DEF Base, Placed

\* The lookup and the fill of CachedResolver.
LEMMA CachedBase ==
    ASSUME Base, NEW c \in Callers, Lookup(c) \/ Fill(c)
    PROVE  Base'
<1>0. /\ \/ rpc[c] = "lookup" /\ rpc' \in {[rpc EXCEPT ![c] = "done"], [rpc EXCEPT ![c] = "demand"]}
         \/ rpc[c] = "fill" /\ rpc' = [rpc EXCEPT ![c] = "done"]
      /\ result' = result \/ \E o : result' = [result EXCEPT ![c] = o]
      /\ read' = read \/ \E x : read' = [read EXCEPT ![c] = x]
      /\ UNCHANGED <<now, config, req, ipc, version, value, todo, parts, inbox, cache, loading, started, renewed>>
      BY DEF Lookup, Fill, Finish, RPC, pathVars
<1>1. rpc \in [Callers -> ResolverPlaces] /\ DOMAIN result = Callers /\ DOMAIN read = Callers BY DEF Base, Typed
<1>2. PlacedAt(c) BY DEF Base, Placed
<1>3. rpc' \in [Callers -> ResolverPlaces] BY <1>0, <1>1 DEF ResolverPlaces
<1>4. DOMAIN result' = Callers /\ DOMAIN read' = Callers BY <1>0, <1>1
<1>5. Typed' BY <1>0, <1>3, <1>4 DEF Base, Typed
<1>6. Frame(c) BY <1>0, <1>1 DEF Frame
<1>7. rpc[c] \in {"lookup", "fill"} /\ (rpc'[c] = "done" \/ (rpc'[c] = "demand" /\ rpc[c] = "lookup"))
      BY <1>0, <1>1
<1>8. PlacedAt(c)' BY <1>0, <1>2, <1>7 DEF PlacedAt
<1>9. now' \in Nat /\ now' >= now BY <1>0 DEF Base, Typed
<1> QED BY <1>5, <1>6, <1>8, <1>9, OthersStay DEF Base, Placed

\* What happens outside the resolver: requests, the limiter, contexts, the server
\* and the clock.
Outside ==
    /\ UNCHANGED resolverVars
    /\ UNCHANGED <<config, req>>
    /\ now' \in Nat /\ now' >= now /\ version' \in Nat /\ version' >= version
    /\ DOMAIN ipc' = Callers /\ value' \in [Callers -> Nat]
    /\ \A c \in Callers : ipc'[c] = "ok" =>
         (ipc[c] = "ok" /\ value'[c] = value[c]) \/ req[c].kind = "message" \/ value'[c] = version

\* The steps outside are those that are none of the resolvers'.
LEMMA OutsideSteps ==
    ASSUME Base,
           \/ \E c \in Callers : \/ RequestStep(c) /\ UNCHANGED resolverVars
                                 \/ WaitStep(c) /\ UNCHANGED <<now, cancelled, pathVars, resolverVars>>
                                 \/ Cancel(c)
           \/ ServerUpdates \/ ClockTick \/ UNCHANGED vars
    PROVE  Outside
<1>0. /\ now \in Nat /\ version \in Nat /\ DOMAIN ipc = Callers /\ value \in [Callers -> Nat]
      BY DEF Base, Typed
<1>1. ASSUME NEW c \in Callers, RequestStep(c), UNCHANGED resolverVars PROVE Outside
  <2>1. /\ UNCHANGED <<now, config, req, version>>
        /\ DOMAIN ipc' = Callers /\ value' \in [Callers -> Nat]
        /\ \A d \in Callers \ {c} : ipc'[d] = ipc[d] /\ value'[d] = value[d]
        /\ ipc'[c] = "ok" => req[c].kind = "message" \/ value'[c] = version
        BY <1>1, RequestFacts DEF Base
  <2> QED BY <1>0, <1>1, <2>1 DEF Outside
<1>2. CASE UNCHANGED <<now, pathVars, resolverVars>> BY <1>0, <1>2 DEF Outside, pathVars
<1>3. ASSUME NEW c \in Callers, Cancel(c) PROVE Outside BY <1>2, <1>3 DEF Cancel
<1>4. CASE ServerUpdates BY <1>0, <1>4 DEF ServerUpdates, Outside
<1>5. CASE ClockTick BY <1>0, <1>5 DEF ClockTick, Tick, Outside, pathVars
<1>6. CASE UNCHANGED vars BY <1>2, <1>6 DEF vars
<1> QED BY <1>1, <1>2, <1>3, <1>4, <1>5, <1>6

\* They keep typing and places, as time only adds to the age of a call.
LEMMA OutsideBase ==
    ASSUME Base, Outside
    PROVE  Base'
<1>1. Typed' BY DEF Base, Typed, Outside, resolverVars
<1>2. ASSUME NEW c \in Callers PROVE PlacedAt(c)'
  <2>1. PlacedAt(c) BY DEF Base, Placed
  <2>2. started[c] <= now' BY <2>1 DEF PlacedAt, Outside, Base, Typed
  <2> QED BY <2>1, <2>2 DEF PlacedAt, Outside, resolverVars
<1> QED BY <1>1, <1>2 DEF Base, Placed

\* Every step is one of a caller in the resolver or one outside it.
LEMMA StepCases ==
    ASSUME Base, [Next]_vars
    PROVE  Outside \/ \E c \in Callers : \/ Begin(c) \/ Demand(c) \/ Fetch(c) \/ Join(c)
                                         \/ RefreshOptional(c) \/ Lookup(c) \/ Fill(c)
BY OutsideSteps DEF Next, CallerStep

\* Nobody has begun: the initial state is typed and everyone is in place.
LEMMA BaseInit == Init => Base
<1> SUFFICES ASSUME Init PROVE Base OBVIOUS
<1>1. /\ now = 0 /\ version = 0 /\ config \in Configs /\ ipc = [c \in Callers |-> "idle"]
      /\ value = [c \in Callers |-> 0] /\ req = [c \in Callers |-> NoRequest]
      BY DEF Init, PathInit, LimiterInit
<1>2. /\ rpc \in [Callers -> ResolverPlaces] /\ todo \in [Callers -> Seq(Plans)] /\ parts \in [Callers -> Seq(Nat)]
      BY DEF Init, ResolverPlaces
<1>3. inbox \in [Callers -> Results] /\ cache \in [Namespaces -> Snapshots] BY Nothing DEF Init
<1>4. DOMAIN read = Callers /\ DOMAIN loading = Namespaces /\ DOMAIN result = Callers BY DEF Init
<1>5. started \in [Callers -> Nat] /\ renewed \in [Callers -> SUBSET Namespaces] BY DEF Init
<1>6. Typed BY <1>1, <1>2, <1>3, <1>4, <1>5 DEF Typed
<1>7. Placed BY <1>1 DEF Init, Placed, PlacedAt
<1> QED BY <1>6, <1>7 DEF Base

\* Every step keeps typing and places.
LEMMA BaseStep == Base /\ [Next]_vars => Base'
BY StepCases, OutsideBase, BeginBase, DemandBase, FetchBase, JoinBase, OptionalBase, CachedBase

\* The resolvers' variables keep their types and every caller is in a place that
\* its request and what it has left to ask for explain; in particular a namespace
\* never has two leaders.
THEOREM TypeCorrect == Spec => []Base
BY BaseInit, BaseStep, PTL DEF Spec

----------------------------------------------------------------------------
(* Fresh answers. *)

\* The result a joiner was handed was loaded after its own call began.
JoinedFresh == \A c \in Callers : inbox[c].snap # NoSnapshot => inbox[c].snap.at >= started[c]

\* The snapshot the leader c has completed.
Loaded(c, snap) ==
    /\ rpc[c] = "fetch" /\ ipc[c] = "ok"
    /\ snap = [parts |-> Append(parts[c], value[c]), at |-> now]
    /\ Len(Append(parts[c], value[c])) = Parts(Head(todo[c]).ns)

\* A new result in an inbox is of a load that ends now; it is handed to a joiner of
\* that namespace, which counts as renewed for every call under way.
LEMMA Handed ==
    ASSUME Base, NEW c \in Callers, Fetch(c), NEW d \in Callers, inbox'[d] # inbox[d], inbox'[d].snap # NoSnapshot
    PROVE  /\ inbox'[d].snap.at = now /\ rpc[d] = "join" /\ Head(todo[d]).ns = Head(todo[c]).ns
           /\ Head(todo[c]).ns \in renewed'[d] /\ Loaded(c, inbox'[d].snap)
<1>1. CASE FetchFailed(c)
  <2> DEFINE load == [err |-> TRUE, snap |-> NoSnapshot]
  <2>1. Deliver(c, load) BY <1>1 DEF FetchFailed
  <2>2. load \in Results BY Complete
  <2>3. load.snap = NoSnapshot OBVIOUS
  <2> HIDE DEF load
  <2>4. inbox'[d] = load BY <2>1, <2>2, Delivered
  <2> QED BY <2>3, <2>4
<1>2. CASE /\ FetchSucceeded(c, Append(parts[c], value[c])) /\ ipc[c] = "ok"
           /\ Len(Append(parts[c], value[c])) = Parts(Head(todo[c]).ns)
  <2> DEFINE snap == [parts |-> Append(parts[c], value[c]), at |-> now]
             load == [err |-> FALSE, snap |-> snap]
  <2>1. Deliver(c, load) /\ load \in Results BY <1>2, Complete DEF FetchSucceeded
  <2>2. load.snap.at = now /\ Loaded(c, load.snap)
    <3>1. rpc[c] = "fetch" BY FetchCases
    <3> QED BY <1>2, <3>1 DEF Loaded
  <2> HIDE DEF load
  <2>3. inbox'[d] = load /\ rpc[d] = "join" /\ Head(todo[d]).ns = Head(todo[c]).ns BY <2>1, Delivered
  <2>4. Head(todo[c]).ns \in renewed'[d] BY <1>2, <2>3 DEF FetchSucceeded
  <2> QED BY <2>2, <2>3, <2>4
<1> QED BY <1>1, <1>2, FetchCases

\* Joined results stay fresh: a call's start never moves while it has one.
LEMMA JoinedFreshStep == Base /\ JoinedFresh /\ [Next]_vars => JoinedFresh'
<1> SUFFICES ASSUME Base, JoinedFresh, [Next]_vars PROVE JoinedFresh' OBVIOUS
<1>0. started \in [Callers -> Nat] /\ inbox \in [Callers -> Results] /\ now \in Nat
      /\ \A d \in Callers : started[d] <= now
      BY DEF Base, Typed, Placed, PlacedAt
<1>1. CASE UNCHANGED <<inbox, started>> BY <1>1 DEF JoinedFresh
<1>2. ASSUME NEW c \in Callers, Begin(c) PROVE JoinedFresh'
  <2>1. started' = [started EXCEPT ![c] = now] /\ UNCHANGED inbox /\ rpc[c] = "idle" BY <1>2, BeginFacts
  <2>2. inbox[c] = NoResult BY <2>1 DEF Base, Placed, PlacedAt
  <2>3. inbox[c].snap = NoSnapshot BY <2>2 DEF NoResult
  <2> QED BY <1>0, <2>1, <2>3 DEF JoinedFresh
<1>3. ASSUME NEW c \in Callers, Fetch(c) PROVE JoinedFresh'
  <2>1. UNCHANGED started BY <1>3, FetchCases
  <2>2. ASSUME NEW d \in Callers, inbox'[d].snap # NoSnapshot PROVE inbox'[d].snap.at >= started'[d]
    <3>1. CASE inbox'[d] = inbox[d] BY <2>1, <2>2, <3>1 DEF JoinedFresh
    <3>2. CASE inbox'[d] # inbox[d]
      <4>1. inbox'[d].snap.at = now BY <1>3, <2>2, <3>2, Handed
      <4> QED BY <1>0, <2>1, <4>1
    <3> QED BY <3>1, <3>2
  <2> QED BY <2>2 DEF JoinedFresh
<1>4. ASSUME NEW c \in Callers, Join(c) PROVE JoinedFresh'
  <2>1. UNCHANGED started /\ inbox' = [inbox EXCEPT ![c] = NoResult] BY <1>4, JoinCases
  <2>2. inbox'[c].snap = NoSnapshot BY <1>0, <2>1 DEF NoResult
  <2> QED BY <1>0, <2>1, <2>2 DEF JoinedFresh
<1>5. Outside => UNCHANGED <<inbox, started>> BY DEF Outside, resolverVars
<1>6. \A c \in Callers : Demand(c) \/ RefreshOptional(c) \/ Lookup(c) \/ Fill(c) => UNCHANGED <<inbox, started>>
      BY DEF Demand, RefreshOptional, Lookup, Fill
<1> QED BY <1>1, <1>2, <1>3, <1>4, <1>5, <1>6, StepCases

\* What a step adds to what a caller has read: the cached entry, a snapshot that
\* is valid, the leader's or the one handed to a joiner.
LEMMA NewlyRead ==
    ASSUME Base, [Next]_vars, NEW c \in Callers, NEW s \in read'[c] \ read[c]
    PROVE  \/ s.ns = "entry"
           \/ s.ns \in Namespaces /\ s.snap = cache[s.ns] /\ Valid(s.ns) /\ ~Head(todo[c]).force
              /\ rpc[c] \in {"demand", "join"}
           \/ s.ns = Head(todo[c]).ns /\ s.snap.at = now /\ Fetch(c) /\ s.ns \in renewed'[c] /\ Loaded(c, s.snap)
           \/ rpc[c] = "join" /\ s.ns = Head(todo[c]).ns /\ inbox[c].snap # NoSnapshot /\ s.snap = inbox[c].snap
              /\ UNCHANGED renewed
<1>0. DOMAIN read = Callers BY DEF Base, Typed
<1>1. ~Outside BY DEF Outside, resolverVars
<1>2. \A d \in Callers : ~(Begin(d) \/ RefreshOptional(d) \/ Fill(d)) BY DEF Begin, RefreshOptional, Fill
<1>3. ASSUME NEW d \in Callers, Lookup(d) PROVE s.ns = "entry"
      BY <1>0, <1>3 DEF Lookup, Finish
<1>4. ASSUME NEW d \in Callers, rpc[d] \in {"demand", "fetch", "join"}, NEW snap, Took(d, snap)
      PROVE  c = d /\ s.ns = Head(todo[c]).ns /\ s.snap = snap
  <2>1. todo[d] # <<>> BY <1>4, Asking
  <2>2. read' = [read EXCEPT ![d] = read[d] \cup {[ns |-> Head(todo[d]).ns, snap |-> snap]}]
        BY <1>4, <2>1, TookFacts DEF Base
  <2> QED BY <1>0, <2>2
<1>5. ASSUME NEW d \in Callers, rpc[d] \in {"demand", "fetch", "join"} PROVE ~Lacked(d)
      BY DEF Lacked
<1>6. ASSUME NEW d \in Callers, Demand(d)
      PROVE  s.ns \in Namespaces /\ s.snap = cache[s.ns] /\ Valid(s.ns) /\ ~Head(todo[c]).force /\ rpc[c] = "demand"
  <2>1. rpc[d] = "demand" BY <1>6 DEF Demand
  <2>2. ~Head(todo[d]).force /\ Valid(Head(todo[d]).ns) /\ Took(d, cache[Head(todo[d]).ns])
        BY <1>5, <1>6, <2>1, DemandCases
  <2>3. c = d /\ s.ns = Head(todo[c]).ns /\ s.snap = cache[Head(todo[d]).ns] BY <1>4, <2>1, <2>2
  <2> QED BY <2>1, <2>2, <2>3, Asking
<1>7. ASSUME NEW d \in Callers, Fetch(d)
      PROVE  s.ns = Head(todo[c]).ns /\ s.snap.at = now /\ Fetch(c) /\ s.ns \in renewed'[c] /\ Loaded(c, s.snap)
  <2>1. rpc[d] = "fetch" BY <1>7 DEF Fetch
  <2>2. /\ FetchSucceeded(d, Append(parts[d], value[d])) /\ ipc[d] = "ok"
        /\ Len(Append(parts[d], value[d])) = Parts(Head(todo[d]).ns)
        BY <1>5, <1>7, <2>1, FetchCases DEF FetchFailed
  <2>3. Took(d, [parts |-> Append(parts[d], value[d]), at |-> now]) BY <2>2 DEF FetchSucceeded
  <2>4. c = d /\ s.ns = Head(todo[c]).ns /\ s.snap = [parts |-> Append(parts[d], value[d]), at |-> now]
        BY <1>4, <2>1, <2>3
  <2>5. Head(todo[c]).ns \in renewed'[c] BY <2>1, <2>2, <2>4 DEF FetchSucceeded
  <2>6. Loaded(c, s.snap) BY <2>1, <2>2, <2>4 DEF Loaded
  <2> QED BY <1>7, <2>4, <2>5, <2>6
<1>8. ASSUME NEW d \in Callers, Join(d)
      PROVE  \/ s.ns \in Namespaces /\ s.snap = cache[s.ns] /\ Valid(s.ns) /\ ~Head(todo[c]).force /\ rpc[c] = "join"
             \/ rpc[c] = "join" /\ s.ns = Head(todo[c]).ns /\ inbox[c].snap # NoSnapshot /\ s.snap = inbox[c].snap
                /\ UNCHANGED renewed
  <2>1. rpc[d] = "join" /\ UNCHANGED renewed BY <1>8, JoinCases
  <2>2. CASE inbox[d].snap # NoSnapshot /\ Took(d, inbox[d].snap)
        BY <1>4, <2>1, <2>2
  <2>3. CASE ~Head(todo[d]).force /\ Valid(Head(todo[d]).ns) /\ Took(d, cache[Head(todo[d]).ns])
    <3>1. c = d /\ s.ns = Head(todo[c]).ns /\ s.snap = cache[Head(todo[d]).ns] BY <1>4, <2>1, <2>3
    <3> QED BY <2>1, <2>3, <3>1, Asking
  <2> QED BY <1>5, <1>8, <2>1, <2>2, <2>3, JoinCases
<1> QED BY <1>1, <1>2, <1>3, <1>6, <1>7, <1>8, StepCases

\* snapshot and optionalSnapshot: whatever a read is given was loaded while its
\* call was under way or is within its TTL, for the leader of a load, its joiners
\* and those who fall back.
THEOREM AnswersFresh == Spec => FreshAnswers
<1>1. Init => JoinedFresh BY DEF Init, JoinedFresh, NoResult
<1>2. Base /\ JoinedFresh /\ [Next]_vars =>
        [\A c \in Callers : \A s \in read'[c] \ read[c] : s.ns # "entry" =>
            config.ttl = 0 \/ s.snap.at >= started[c] \/ now < s.snap.at + config.ttl]_vars
  <2> SUFFICES ASSUME Base, JoinedFresh, [Next]_vars, NEW c \in Callers, NEW s \in read'[c] \ read[c], s.ns # "entry"
               PROVE  config.ttl = 0 \/ s.snap.at >= started[c] \/ now < s.snap.at + config.ttl
      OBVIOUS
  <2>1. CASE s.snap = cache[s.ns] /\ Valid(s.ns) BY <2>1 DEF Valid
  <2>2. CASE s.snap.at = now BY <2>2 DEF Base, Typed, Placed, PlacedAt
  <2>3. CASE inbox[c].snap # NoSnapshot /\ s.snap = inbox[c].snap BY <2>3 DEF JoinedFresh
  <2> QED BY <2>1, <2>2, <2>3, NewlyRead
<1> QED BY <1>1, <1>2, BaseInit, BaseStep, JoinedFreshStep, PTL DEF Spec, FreshAnswers

----------------------------------------------------------------------------
(* Refresh is real. *)

\* A Refresh under way: it forces all it still asks for; what it has read, and what
\* it was handed as a joiner, was loaded since it began, and the base snapshot is
\* the first it asks for or was loaded already.
Refreshing(c) ==
    /\ \A k \in DOMAIN todo[c] : todo[c][k].force = TRUE
    /\ \A s \in read[c] : s.ns \in renewed[c]
    /\ inbox[c].snap # NoSnapshot => Head(todo[c]).ns \in renewed[c]
    /\ rpc[c] \in {"demand", "fetch", "join"} => "base" \in renewed[c] \/ Head(todo[c]).ns = "base"
    /\ rpc[c] = "optional" \/ result[c] = "ok" => "base" \in renewed[c]
AllRefreshing == \A c \in Callers : req[c].op = "refresh" => Refreshing(c)

\* What was loaded for a call stays loaded for it until it begins anew.
LEMMA RenewedGrows ==
    ASSUME Base, [Next]_vars, NEW c \in Callers, ~Begin(c)
    PROVE  renewed[c] \subseteq renewed'[c] /\ req'[c] = req[c]
<1>0. renewed \in [Callers -> SUBSET Namespaces] /\ DOMAIN req = Callers BY DEF Base, Typed
<1>1. ASSUME NEW d \in Callers, Begin(d) PROVE renewed[c] \subseteq renewed'[c] /\ req'[c] = req[c]
  <2>1. d # c BY <1>1
  <2>2. renewed' = [renewed EXCEPT ![d] = {}] /\ \E r : req' = [req EXCEPT ![d] = r] BY <1>1, BeginFacts
  <2> QED BY <1>0, <2>1, <2>2
<1>2. ASSUME NEW d \in Callers, Fetch(d) PROVE renewed[c] \subseteq renewed'[c] /\ req'[c] = req[c]
  <2>1. UNCHANGED req BY <1>2, FetchCases
  <2>2. UNCHANGED renewed
        \/ renewed' = [e \in Callers |-> IF rpc[e] \in {"idle", "done"} THEN renewed[e]
                                         ELSE renewed[e] \cup {Head(todo[d]).ns}]
        BY <1>2, FetchCases DEF FetchFailed, FetchSucceeded
  <2> QED BY <2>1, <2>2
<1>3. Outside => UNCHANGED <<renewed, req>> BY DEF Outside, resolverVars
<1>4. \A d \in Callers : Demand(d) \/ Join(d) \/ RefreshOptional(d) \/ Lookup(d) \/ Fill(d) => UNCHANGED <<renewed, req>>
      BY DEF Demand, Join, RefreshOptional, Lookup, Fill, pathVars
<1> QED BY <1>1, <1>2, <1>3, <1>4, StepCases

\* A Refresh that is not itself taking a step is still under way as it was.
LEMMA RefreshingStays ==
    ASSUME Base, NEW c \in Callers, req[c].op = "refresh", Refreshing(c), [Next]_vars, ~Begin(c),
           UNCHANGED <<rpc[c], todo[c], read[c], result[c]>>, inbox'[c].snap # NoSnapshot => inbox'[c] = inbox[c]
    PROVE  Refreshing(c)'
<1>1. renewed[c] \subseteq renewed'[c] BY RenewedGrows
<1> QED BY <1>1 DEF Refreshing

\* It took a snapshot that was loaded since it began, or lacks an optional one.
LEMMA RefreshGoesOn ==
    ASSUME Base, [Next]_vars, NEW c \in Callers, req[c].op = "refresh", Refreshing(c), rpc[c] \in {"demand", "fetch", "join"},
           inbox'[c].snap = NoSnapshot,
           ((\E snap : Took(c, snap)) /\ Head(todo[c]).ns \in renewed'[c]) \/ Lacked(c)
    PROVE  Refreshing(c)'
<1>0. /\ rpc \in [Callers -> ResolverPlaces] /\ todo \in [Callers -> Seq(Plans)]
      /\ DOMAIN read = Callers /\ DOMAIN result = Callers
      BY DEF Base, Typed
<1>1. todo[c] # <<>> /\ todo[c] \in Seq(Plans) BY Asking
<1>2. renewed[c] \subseteq renewed'[c]
  <2>1. ~Begin(c) BY DEF Begin
  <2> QED BY <2>1, RenewedGrows
<1>3. \A k \in DOMAIN Tail(todo[c]) : Tail(todo[c])[k].force = TRUE BY <1>1, TailFacts DEF Refreshing
<1>4. CASE (\E snap : Took(c, snap)) /\ Head(todo[c]).ns \in renewed'[c]
  <2>1. PICK snap : Took(c, snap) BY <1>4
  <2>2. /\ read' = [read EXCEPT ![c] = read[c] \cup {[ns |-> Head(todo[c]).ns, snap |-> snap]}]
        /\ todo' = [todo EXCEPT ![c] = Tail(todo[c])]
        BY <1>1, <2>1, TookFacts DEF Base
  <2>3. "base" \in renewed'[c] BY <1>2, <1>4 DEF Refreshing
  <2>4. todo'[c] = Tail(todo[c]) BY <1>0, <2>2
  <2>5. \A s \in read'[c] : s.ns \in renewed'[c] BY <1>0, <1>2, <1>4, <2>2 DEF Refreshing
  <2> QED BY <1>3, <2>3, <2>4, <2>5 DEF Refreshing
<1>5. CASE Lacked(c)
  <2>1. /\ UNCHANGED read /\ todo'[c] = Tail(todo[c])
        /\ \/ rpc'[c] = "done" /\ result'[c] = "error"
           \/ rpc'[c] = "demand" /\ Head(todo[c]).ns # "base"
        BY <1>0, <1>1, <1>5, LackedFacts DEF Base
  <2>2. \A s \in read'[c] : s.ns \in renewed'[c] BY <1>2, <2>1 DEF Refreshing
  <2>3. CASE rpc'[c] = "done" /\ result'[c] = "error" BY <1>3, <2>1, <2>2, <2>3 DEF Refreshing
  <2>4. CASE rpc'[c] = "demand" /\ Head(todo[c]).ns # "base"
    <3>1. "base" \in renewed'[c] BY <1>2, <2>4 DEF Refreshing
    <3> QED BY <1>3, <2>1, <2>2, <2>4, <3>1 DEF Refreshing
  <2> QED BY <2>1, <2>3, <2>4
<1> QED BY <1>4, <1>5

\* A Refresh that begins forces the base snapshot and has nothing yet.
LEMMA RefreshBegins ==
    ASSUME Base, NEW c \in Callers, Begin(c), req'[c].op = "refresh"
    PROVE  Refreshing(c)'
<1>0. /\ rpc \in [Callers -> ResolverPlaces] /\ todo \in [Callers -> Seq(Plans)]
      /\ DOMAIN req = Callers /\ DOMAIN result = Callers
      BY DEF Base, Typed
<1>1. rpc[c] = "idle" /\ UNCHANGED <<inbox, read>> BY BeginFacts
<1>2. PlacedAt(c) BY DEF Base, Placed
<1>3. read'[c] = {} /\ inbox'[c] = NoResult /\ todo[c] = <<>> /\ result[c] = "none" BY <1>1, <1>2 DEF PlacedAt
<1>4. inbox'[c].snap = NoSnapshot BY <1>3 DEF NoResult
<1>5. PICK r \in Requests(config, c) :
        /\ req' = [req EXCEPT ![c] = r]
        /\ \/ /\ rpc' = [rpc EXCEPT ![c] = "path"] /\ UNCHANGED <<todo, result>>
           \/ /\ rpc' = [rpc EXCEPT ![c] = "done"] /\ UNCHANGED todo
              /\ result' = [result EXCEPT ![c] = "error"]
           \/ /\ r.op \in Resolving /\ r.kind = "info"
              /\ rpc' = [rpc EXCEPT ![c] = IF r.op = "cached" THEN "lookup" ELSE "demand"]
              /\ todo' = [todo EXCEPT ![c] = PlanOf(r)] /\ UNCHANGED result
      BY BeginFacts
<1>6. r.op = "refresh" BY <1>0, <1>5
<1>7. PlanOf(r) = <<Plan("base", TRUE)>>
  <2>1. r.op \in Resolving BY <1>6 DEF Resolving
  <2> QED BY <1>6, <2>1, PlanFacts
<1>8. CASE todo'[c] = <<>> /\ rpc'[c] \in {"path", "done"} /\ result'[c] \in {"none", "error"}
      BY <1>3, <1>4, <1>8 DEF Refreshing
<1>9. CASE todo'[c] = <<Plan("base", TRUE)>> /\ rpc'[c] = "demand" /\ result'[c] = "none"
  <2>1. \A k \in DOMAIN <<Plan("base", TRUE)>> : <<Plan("base", TRUE)>>[k].force = TRUE BY DEF Plan
  <2>2. Head(<<Plan("base", TRUE)>>).ns = "base" BY DEF Plan
  <2> QED BY <1>3, <1>4, <1>9, <2>1, <2>2 DEF Refreshing
<1> QED BY <1>0, <1>3, <1>5, <1>6, <1>7, <1>8, <1>9

\* Refresh, step by step, of any caller.
LEMMA RefreshingStep == Base /\ AllRefreshing /\ [Next]_vars => AllRefreshing'
<1> SUFFICES ASSUME Base, AllRefreshing, [Next]_vars, NEW c \in Callers, req'[c].op = "refresh"
             PROVE  Refreshing(c)'
    BY DEF AllRefreshing
<1>0. /\ rpc \in [Callers -> ResolverPlaces] /\ todo \in [Callers -> Seq(Plans)]
      /\ DOMAIN req = Callers /\ DOMAIN result = Callers /\ DOMAIN read = Callers /\ inbox \in [Callers -> Results]
      BY DEF Base, Typed
<1>1. CASE Begin(c) BY <1>1, RefreshBegins
<1>2. SUFFICES ASSUME ~Begin(c) PROVE Refreshing(c)' BY <1>1
<1>3. req[c].op = "refresh" /\ Refreshing(c) /\ renewed[c] \subseteq renewed'[c] BY <1>2, RenewedGrows DEF AllRefreshing
<1>4. CASE UNCHANGED <<rpc[c], todo[c], read[c], result[c]>> /\ (inbox'[c].snap # NoSnapshot => inbox'[c] = inbox[c])
      BY <1>2, <1>3, <1>4, RefreshingStays
<1>5. ASSUME NEW d \in Callers, d # c, Begin(d) \/ Demand(d) \/ Join(d) \/ RefreshOptional(d) \/ Lookup(d) \/ Fill(d)
      PROVE  Refreshing(c)'
  <2>1. CASE Begin(d)
    <3>1. UNCHANGED <<inbox, read>> /\ UNCHANGED <<rpc[c], todo[c], result[c]>>
          BY <1>0, <1>5, <2>1, BeginFacts
    <3> QED BY <1>4, <3>1
  <2>2. CASE Demand(d)
    <3>1. rpc[d] = "demand" /\ UNCHANGED inbox BY <2>2 DEF Demand
    <3>2. todo[d] # <<>> BY <3>1, Asking
    <3>3. UNCHANGED <<rpc[c], todo[c], read[c], result[c]>>
          BY <1>0, <1>5, <2>2, <3>1, <3>2, DemandCases, NextPlace DEF RPC
    <3> QED BY <1>4, <3>1, <3>3
  <2>3. CASE Join(d)
    <3>1. rpc[d] = "join" /\ inbox' = [inbox EXCEPT ![d] = NoResult] /\ ((\E snap : Took(d, snap)) \/ Lacked(d))
          BY <2>3, JoinCases
    <3>2. todo[d] # <<>> BY <3>1, Asking
    <3>3. UNCHANGED <<rpc[c], todo[c], read[c], result[c]>> BY <1>5, <3>1, <3>2, NextPlace
    <3> QED BY <1>0, <1>4, <1>5, <3>1, <3>3
  <2>4. CASE RefreshOptional(d) \/ Lookup(d) \/ Fill(d)
    <3>1. UNCHANGED <<rpc[c], todo[c], read[c], result[c], inbox>>
          BY <1>0, <1>5, <2>4 DEF RefreshOptional, Lookup, Fill, Finish, RPC
    <3> QED BY <1>4, <3>1
  <2> QED BY <1>5, <2>1, <2>2, <2>3, <2>4
<1>6. CASE Outside BY <1>4, <1>6 DEF Outside, resolverVars
<1>7. CASE Demand(c)
  <2>1. rpc[c] = "demand" /\ UNCHANGED inbox BY <1>7 DEF Demand
  <2>2. PlacedAt(c) /\ todo[c] # <<>> /\ todo[c] \in Seq(Plans) BY <2>1, Asking
  <2>3. Head(todo[c]).force = TRUE BY <1>3, <2>2, TailFacts DEF Refreshing
  <2>4. inbox'[c].snap = NoSnapshot BY <2>1, <2>2 DEF PlacedAt, NoResult
  <2>5. CASE Lacked(c) BY <1>3, <2>1, <2>4, <2>5, RefreshGoesOn
  <2>6. CASE \E to \in {"join", "fetch"} : RPC(c, to) /\ UNCHANGED <<todo, read, result>>
    <3>1. rpc'[c] \in {"join", "fetch"} BY <1>0, <2>6 DEF RPC
    <3> QED BY <1>3, <2>1, <2>4, <2>6, <3>1 DEF Refreshing
  <2> QED BY <1>7, <2>3, <2>5, <2>6, DemandCases
<1>8. CASE Join(c)
  <2>1. rpc[c] = "join" /\ inbox' = [inbox EXCEPT ![c] = NoResult] BY <1>8, JoinCases
  <2>2. todo[c] # <<>> /\ todo[c] \in Seq(Plans) BY <2>1, Asking
  <2>3. Head(todo[c]).force = TRUE BY <1>3, <2>2, TailFacts DEF Refreshing
  <2>4. inbox'[c].snap = NoSnapshot BY <1>0, <2>1 DEF NoResult
  <2>5. Lacked(c) \/ (inbox[c].snap # NoSnapshot /\ \E snap : Took(c, snap)) BY <1>8, <2>3, JoinCases
  <2>6. inbox[c].snap # NoSnapshot => Head(todo[c]).ns \in renewed'[c] BY <1>3 DEF Refreshing
  <2> QED BY <1>3, <2>1, <2>4, <2>5, <2>6, RefreshGoesOn
<1>9. CASE RefreshOptional(c)
  <2>1. /\ rpc[c] = "optional" /\ UNCHANGED <<read, inbox>>
        /\ (Finish(c, "ok") /\ UNCHANGED todo)
           \/ (RPC(c, "demand") /\ todo' = [todo EXCEPT ![c] = MoreToRefresh] /\ UNCHANGED result)
        BY <1>9 DEF RefreshOptional, MoreToRefresh
  <2>2. "base" \in renewed'[c] BY <1>3, <2>1 DEF Refreshing
  <2>3. PlacedAt(c) BY DEF Base, Placed
  <2>4. inbox'[c].snap = NoSnapshot BY <2>1, <2>3 DEF PlacedAt, NoResult
  <2>5. \A k \in DOMAIN todo'[c] : todo'[c][k].force = TRUE BY <1>0, <1>3, <2>1, MoreFacts DEF Refreshing
  <2>6. \A s \in read'[c] : s.ns \in renewed'[c] BY <1>3, <2>1 DEF Refreshing
  <2> QED BY <2>2, <2>4, <2>5, <2>6 DEF Refreshing
<1>10. CASE Lookup(c) \/ Fill(c)
  <2>1. PlacedAt(c) /\ rpc[c] \in {"lookup", "fill"} BY <1>10 DEF Base, Placed, Lookup, Fill
  <2> QED BY <1>3, <2>1 DEF PlacedAt
<1>11. ASSUME NEW d \in Callers, Fetch(d) PROVE Refreshing(c)'
  <2>1. rpc[d] = "fetch" BY <1>11, FetchCases
  <2>2. todo[d] # <<>> /\ PlacedAt(d) BY <2>1, Asking
  <2>3. CASE d # c
    <3>1. UNCHANGED <<rpc[c], todo[c], read[c], result[c]>>
      <4>1. CASE (\E snap : Took(d, snap)) \/ Lacked(d) BY <2>1, <2>2, <2>3, <4>1, NextPlace
      <4>2. CASE UNCHANGED <<rpc, todo, read, result>> BY <4>2
      <4> QED BY <1>11, <4>1, <4>2, FetchCases DEF FetchFailed, FetchSucceeded
    <3>2. CASE inbox'[c] = inbox[c] BY <1>4, <3>1, <3>2
    <3>3. CASE inbox'[c] # inbox[c]
      <4>1. inbox'[c].snap # NoSnapshot => Head(todo[c]).ns \in renewed'[c] BY <1>11, <3>3, Handed
      <4> QED BY <1>3, <3>1, <4>1 DEF Refreshing
    <3> QED BY <3>2, <3>3
  <2>4. CASE d = c
    <3>0. inbox[c].snap = NoSnapshot BY <2>1, <2>2, <2>4 DEF PlacedAt, NoResult
    <3>1. inbox'[c].snap = NoSnapshot
      <4>1. inbox'[c].snap # NoSnapshot => inbox'[c] = inbox[c] BY <1>11, <2>1, <2>4, Handed
      <4> QED BY <3>0, <4>1
    <3>2. CASE FetchFailed(c) BY <1>3, <2>1, <2>4, <3>1, <3>2, RefreshGoesOn DEF FetchFailed
    <3>3. CASE FetchSucceeded(c, Append(parts[c], value[c]))
      <4>1. (\E snap : Took(c, snap)) /\ Head(todo[c]).ns \in renewed'[c] BY <2>1, <2>4, <3>3 DEF FetchSucceeded
      <4> QED BY <1>3, <2>1, <2>4, <3>1, <4>1, RefreshGoesOn
    <3>4. CASE UNCHANGED <<rpc, todo, inbox, read, result>> BY <1>4, <3>4
    <3> QED BY <1>11, <2>4, <3>2, <3>3, <3>4, FetchCases
  <2> QED BY <2>3, <2>4
<1> QED BY <1>2, <1>5, <1>6, <1>7, <1>8, <1>9, <1>10, <1>11, StepCases

\* MetaResolver.Refresh: when it reports success, the base snapshot and every
\* optional one it was given were loaded after it began, by itself or by the load
\* it joined; another caller's failure is no success of its own.
THEOREM RefreshesReal == Spec => []RefreshIsReal
<1>1. Init => AllRefreshing BY DEF Init, PathInit, AllRefreshing, NoRequest
<1>2. AllRefreshing => RefreshIsReal BY DEF AllRefreshing, Refreshing, RefreshIsReal
<1> QED BY <1>1, <1>2, BaseInit, BaseStep, RefreshingStep, PTL DEF Spec

----------------------------------------------------------------------------
(* Snapshots advance. *)

\* No part of a snapshot is ahead of the server, and what the leader of a load has
\* read so far is not older than any part of the snapshot it is to replace.
NotOlder(ns, v) == v <= version /\ \A i \in DOMAIN cache[ns].parts : cache[ns].parts[i] <= v
LeaderAhead(c) ==
    rpc[c] = "fetch" => /\ \A k \in DOMAIN parts[c] : NotOlder(Head(todo[c]).ns, parts[c][k])
                        /\ ipc[c] = "ok" => NotOlder(Head(todo[c]).ns, value[c])
CacheBehind(ns) ==
    /\ Len(cache[ns].parts) <= Parts(ns)
    /\ \A i \in DOMAIN cache[ns].parts : cache[ns].parts[i] <= version
Advancing == (\A ns \in Namespaces : CacheBehind(ns)) /\ (\A c \in Callers : LeaderAhead(c))

\* What a complete load reads is no older than what it replaces.
LEMMA CompleteNotOlder ==
    ASSUME Base, Advancing, NEW c \in Callers, rpc[c] = "fetch", ipc[c] = "ok"
    PROVE  /\ DOMAIN Append(parts[c], value[c]) = 1..Len(Append(parts[c], value[c]))
           /\ \A k \in DOMAIN Append(parts[c], value[c]) : NotOlder(Head(todo[c]).ns, Append(parts[c], value[c])[k])
<1> DEFINE p == Append(parts[c], value[c])
<1>1. parts[c] \in Seq(Nat) BY DEF Base, Typed
<1>2. /\ p \in Seq(Nat) /\ Len(p) = Len(parts[c]) + 1
      /\ \A i \in 1..Len(parts[c]) : p[i] = parts[c][i]
      /\ p[Len(parts[c]) + 1] = value[c]
      BY Complete
<1>3. DOMAIN p = 1..Len(p) /\ Len(parts[c]) \in Nat /\ DOMAIN parts[c] = 1..Len(parts[c]) BY <1>1, <1>2
<1>4. /\ \A k \in DOMAIN parts[c] : NotOlder(Head(todo[c]).ns, parts[c][k])
      /\ NotOlder(Head(todo[c]).ns, value[c])
      BY DEF Advancing, LeaderAhead
<1> HIDE DEF p
<1>5. ASSUME NEW k \in DOMAIN p PROVE NotOlder(Head(todo[c]).ns, p[k])
  <2>1. k \in 1..Len(parts[c]) \/ k = Len(parts[c]) + 1 BY <1>2, <1>3
  <2> QED BY <1>2, <1>3, <1>4, <2>1
<1> QED BY <1>3, <1>5 DEF p

\* Only a complete load replaces a snapshot, and by what it read.
LEMMA CacheStep ==
    ASSUME Base, [Next]_vars
    PROVE  \/ UNCHANGED cache
           \/ \E c \in Callers :
                /\ Fetch(c) /\ rpc[c] = "fetch" /\ ipc[c] = "ok" /\ UNCHANGED version
                /\ Len(Append(parts[c], value[c])) = Parts(Head(todo[c]).ns)
                /\ cache' = [cache EXCEPT ![Head(todo[c]).ns] = [parts |-> Append(parts[c], value[c]), at |-> now]]
<1>1. Outside => UNCHANGED cache BY DEF Outside, resolverVars
<1>2. \A c \in Callers : Begin(c) \/ Demand(c) \/ Join(c) \/ RefreshOptional(c) \/ Lookup(c) \/ Fill(c) => UNCHANGED cache
      BY DEF Begin, Demand, Join, RefreshOptional, Lookup, Fill
<1>3. ASSUME NEW c \in Callers, Fetch(c), ~UNCHANGED cache
      PROVE  /\ rpc[c] = "fetch" /\ ipc[c] = "ok" /\ UNCHANGED version
             /\ Len(Append(parts[c], value[c])) = Parts(Head(todo[c]).ns)
             /\ cache' = [cache EXCEPT ![Head(todo[c]).ns] = [parts |-> Append(parts[c], value[c]), at |-> now]]
      BY <1>3, FetchCases DEF FetchFailed, FetchSucceeded
<1> QED BY <1>1, <1>2, <1>3, StepCases

\* The server only moves on.
LEMMA VersionGrows ==
    ASSUME Base, [Next]_vars
    PROVE  version' \in Nat /\ version' >= version
<1>1. Outside => version' \in Nat /\ version' >= version BY DEF Outside
<1>2. \A c \in Callers : Begin(c) \/ Demand(c) \/ Fetch(c) \/ Join(c) \/ RefreshOptional(c) \/ Lookup(c) \/ Fill(c)
        => UNCHANGED version
      BY DEF Begin, Demand, Fetch, Join, RefreshOptional, Lookup, Fill, pathVars
<1>3. version \in Nat BY DEF Base, Typed
<1> QED BY <1>1, <1>2, <1>3, StepCases

\* The parts of every snapshot stay behind the server.
LEMMA CacheBehindStep ==
    ASSUME Base, Advancing, [Next]_vars, NEW ns \in Namespaces
    PROVE  CacheBehind(ns)'
<1>0. version \in Nat /\ version' \in Nat /\ version' >= version /\ cache \in [Namespaces -> Snapshots]
      BY VersionGrows DEF Base, Typed
<1>1. CASE cache'[ns] = cache[ns]
  <2>1. CacheBehind(ns) BY DEF Advancing
  <2>2. cache[ns].parts \in Seq(Nat) BY <1>0 DEF Snapshots
  <2>3. \A i \in DOMAIN cache[ns].parts : cache[ns].parts[i] \in Nat BY <2>2
  <2> QED BY <1>0, <1>1, <2>1, <2>3 DEF CacheBehind
<1>2. CASE cache'[ns] # cache[ns]
  <2>1. PICK c \in Callers :
                /\ Fetch(c) /\ rpc[c] = "fetch" /\ ipc[c] = "ok" /\ UNCHANGED version
                /\ Len(Append(parts[c], value[c])) = Parts(Head(todo[c]).ns)
                /\ cache' = [cache EXCEPT ![Head(todo[c]).ns] = [parts |-> Append(parts[c], value[c]), at |-> now]]
        BY <1>2, CacheStep
  <2> DEFINE p == Append(parts[c], value[c])
  <2>2. ns = Head(todo[c]).ns /\ cache'[ns] = [parts |-> p, at |-> now] BY <1>0, <1>2, <2>1
  <2>3. \A k \in DOMAIN p : p[k] <= version BY <2>1, CompleteNotOlder DEF NotOlder
  <2>4. Parts(ns) \in Nat BY DEF Parts
  <2> QED BY <2>1, <2>2, <2>3, <2>4 DEF CacheBehind
<1> QED BY <1>1, <1>2

\* How a leader came to be one: it took the lead, read a part, or goes on waiting
\* for the answer, which is of the server's version when it comes.
LEMMA LeaderStep ==
    ASSUME Base, [Next]_vars, NEW c \in Callers, rpc'[c] = "fetch"
    PROVE  \/ parts'[c] = <<>> /\ ipc'[c] = "call"
           \/ /\ rpc[c] = "fetch" /\ todo'[c] = todo[c] /\ ipc[c] = "ok" /\ ipc'[c] = "call"
              /\ parts'[c] = Append(parts[c], value[c])
           \/ /\ rpc[c] = "fetch" /\ todo'[c] = todo[c] /\ parts'[c] = parts[c]
              /\ ipc'[c] = "ok" => (ipc[c] = "ok" /\ value'[c] = value[c]) \/ value'[c] = version
<1>0. /\ rpc \in [Callers -> ResolverPlaces] /\ todo \in [Callers -> Seq(Plans)] /\ DOMAIN ipc = Callers
      /\ parts \in [Callers -> Seq(Nat)] /\ value \in [Callers -> Nat]
      BY DEF Base, Typed
<1>1. CASE Outside
  <2>1. rpc[c] = "fetch" /\ todo'[c] = todo[c] /\ parts'[c] = parts[c] BY <1>1 DEF Outside, resolverVars
  <2>2. req[c].kind # "message" BY <2>1, Asking
  <2> QED BY <1>1, <2>1, <2>2 DEF Outside
<1>2. ASSUME NEW d \in Callers, Begin(d)
      PROVE  rpc[c] = "fetch" /\ UNCHANGED <<todo[c], parts[c], ipc[c], value[c]>>
  <2>1. UNCHANGED <<parts, value>> BY <1>2 DEF Begin
  <2>2. rpc[d] = "idle" /\ \A e \in Callers \ {d} : ipc'[e] = ipc[e] BY <1>2, BeginFacts
  <2>3. PICK r :
        \/ rpc' = [rpc EXCEPT ![d] = "path"] /\ UNCHANGED todo
        \/ rpc' = [rpc EXCEPT ![d] = "done"] /\ UNCHANGED todo
        \/ /\ rpc' = [rpc EXCEPT ![d] = IF r.op = "cached" THEN "lookup" ELSE "demand"]
           /\ todo' = [todo EXCEPT ![d] = PlanOf(r)]
        BY <1>2, BeginFacts
  <2>4. c # d BY <1>0, <2>3
  <2> QED BY <1>0, <2>1, <2>2, <2>3, <2>4
<1>3. ASSUME NEW d \in Callers, Demand(d)
      PROVE  \/ parts'[c] = <<>> /\ ipc'[c] = "call"
             \/ rpc[c] = "fetch" /\ UNCHANGED <<todo[c], parts[c], ipc[c], value[c]>>
  <2>1. rpc[d] = "demand" /\ UNCHANGED value BY <1>3 DEF Demand
  <2>2. todo[d] # <<>> BY <2>1, Asking
  <2>3. CASE ((\E snap : Took(d, snap)) \/ Lacked(d)) /\ UNCHANGED <<ipc, parts, loading>>
        BY <2>1, <2>2, <2>3, NextPlace
  <2>4. CASE RPC(d, "join") /\ UNCHANGED <<ipc, parts, loading, todo, read, failed, result>>
        BY <1>0, <2>1, <2>4 DEF RPC
  <2>5. CASE parts' = [parts EXCEPT ![d] = <<>>] /\ IPC(d, "call") /\ RPC(d, "fetch") /\ UNCHANGED todo
        BY <1>0, <2>1, <2>5 DEF RPC, IPC
  <2> QED BY <1>3, <2>3, <2>4, <2>5, DemandCases
<1>4. ASSUME NEW d \in Callers, Fetch(d)
      PROVE  \/ /\ rpc[c] = "fetch" /\ todo'[c] = todo[c] /\ ipc[c] = "ok" /\ ipc'[c] = "call"
                /\ parts'[c] = Append(parts[c], value[c])
             \/ rpc[c] = "fetch" /\ UNCHANGED <<todo[c], parts[c], ipc[c], value[c]>>
  <2>1. rpc[d] = "fetch" /\ value' = [value EXCEPT ![d] = 0] /\ \E i : IPC(d, i) BY <1>4, FetchCases
  <2>2. todo[d] # <<>> BY <2>1, Asking
  <2>3. CASE ((\E snap : Took(d, snap)) \/ Lacked(d)) /\ UNCHANGED parts
    <3>1. c # d /\ rpc[c] = "fetch" /\ todo'[c] = todo[c] BY <2>1, <2>2, <2>3, NextPlace
    <3> QED BY <1>0, <2>1, <2>3, <3>1 DEF IPC
  <2>4. CASE /\ ipc[d] = "ok" /\ parts' = [parts EXCEPT ![d] = Append(parts[d], value[d])] /\ IPC(d, "call")
             /\ UNCHANGED <<rpc, todo>>
        BY <1>0, <2>1, <2>4 DEF IPC
  <2> QED BY <1>4, <2>3, <2>4, FetchCases DEF FetchFailed, FetchSucceeded
<1>5. ASSUME NEW d \in Callers, Join(d)
      PROVE  rpc[c] = "fetch" /\ UNCHANGED <<todo[c], parts[c], ipc[c], value[c]>>
  <2>1. rpc[d] = "join" /\ ((\E snap : Took(d, snap)) \/ Lacked(d)) /\ UNCHANGED <<parts, ipc, value>>
        BY <1>5, JoinCases
  <2>2. todo[d] # <<>> BY <2>1, Asking
  <2> QED BY <2>1, <2>2, NextPlace
<1>6. ASSUME NEW d \in Callers, RefreshOptional(d) \/ Lookup(d) \/ Fill(d)
      PROVE  rpc[c] = "fetch" /\ UNCHANGED <<todo[c], parts[c], ipc[c], value[c]>>
      BY <1>0, <1>6 DEF RefreshOptional, Lookup, Fill, Finish, RPC, pathVars
<1> QED BY <1>1, <1>2, <1>3, <1>4, <1>5, <1>6, StepCases

\* What a leader has read stays no older than the snapshot it is to replace, which
\* nobody else replaces meanwhile.
LEMMA StaysAhead ==
    ASSUME Base, [Next]_vars, NEW c \in Callers, rpc[c] = "fetch", rpc'[c] = "fetch", todo'[c] = todo[c],
           NEW v \in Nat, NotOlder(Head(todo[c]).ns, v)
    PROVE  v <= version' /\ \A i \in DOMAIN cache'[Head(todo'[c]).ns].parts : cache'[Head(todo'[c]).ns].parts[i] <= v
<1> DEFINE ns == Head(todo[c]).ns
<1>0. version \in Nat /\ version' \in Nat /\ version' >= version /\ cache \in [Namespaces -> Snapshots]
      BY VersionGrows DEF Base, Typed
<1>1. PlacedAt(c) /\ ns \in Namespaces /\ todo[c] # <<>> BY Asking
<1>2. cache'[ns] = cache[ns]
  <2>1. SUFFICES ASSUME NEW d \in Callers, Fetch(d), rpc[d] = "fetch", ~UNCHANGED cache,
                        cache' = [cache EXCEPT ![Head(todo[d]).ns] = [parts |-> Append(parts[d], value[d]), at |-> now]]
                 PROVE  cache'[ns] = cache[ns]
        BY CacheStep
  <2>2. PlacedAt(d) /\ Head(todo[d]).ns \in Namespaces /\ todo[d] # <<>> BY <2>1, Asking
  <2>3. d # c
    <3>1. \E snap : Took(d, snap) BY <2>1, FetchCases DEF FetchFailed, FetchSucceeded
    <3>2. rpc'[d] # "fetch" BY <2>1, <2>2, <3>1, NextPlace
    <3> QED BY <3>2
  <2>4. Head(todo[d]).ns # ns BY <1>1, <2>1, <2>2, <2>3 DEF PlacedAt
  <2> QED BY <1>0, <1>1, <2>1, <2>4
<1> QED BY <1>0, <1>2 DEF NotOlder

\* Leaders stay ahead, and snapshots behind the server.
LEMMA AdvancingStep == Base /\ Advancing /\ [Next]_vars => Advancing'
<1> SUFFICES ASSUME Base, Advancing, [Next]_vars PROVE Advancing' OBVIOUS
<1>1. ASSUME NEW ns \in Namespaces PROVE CacheBehind(ns)' BY CacheBehindStep
<1>2. ASSUME NEW c \in Callers, rpc'[c] = "fetch"
      PROVE  /\ \A k \in DOMAIN parts'[c] : NotOlder(Head(todo[c]).ns, parts[c][k])'
             /\ ipc'[c] = "ok" => NotOlder(Head(todo[c]).ns, value[c])'
  <2> DEFINE New(v) == /\ v <= version'
                       /\ \A i \in DOMAIN cache'[Head(todo'[c]).ns].parts : cache'[Head(todo'[c]).ns].parts[i] <= v
  <2>0. parts \in [Callers -> Seq(Nat)] /\ value \in [Callers -> Nat] /\ version \in Nat BY DEF Base, Typed
  <2>1. SUFFICES (\A k \in DOMAIN parts'[c] : New(parts'[c][k])) /\ (ipc'[c] = "ok" => New(value'[c]))
        BY DEF NotOlder
  <2>2. ASSUME rpc[c] = "fetch", todo'[c] = todo[c], NEW v \in Nat, NotOlder(Head(todo[c]).ns, v) PROVE New(v)
        BY <1>2, <2>2, StaysAhead
  <2> HIDE DEF New
  <2>3. CASE parts'[c] = <<>> /\ ipc'[c] = "call" BY <2>3
  <2>4. CASE /\ rpc[c] = "fetch" /\ todo'[c] = todo[c] /\ ipc[c] = "ok" /\ ipc'[c] = "call"
             /\ parts'[c] = Append(parts[c], value[c])
    <3>1. Append(parts[c], value[c]) \in Seq(Nat) BY <2>0
    <3>2. \A k \in DOMAIN Append(parts[c], value[c]) : Append(parts[c], value[c])[k] \in Nat BY <3>1
    <3>3. \A k \in DOMAIN Append(parts[c], value[c]) : NotOlder(Head(todo[c]).ns, Append(parts[c], value[c])[k])
          BY <2>4, CompleteNotOlder
    <3> QED BY <2>2, <2>4, <3>2, <3>3
  <2>5. CASE /\ rpc[c] = "fetch" /\ todo'[c] = todo[c] /\ parts'[c] = parts[c]
             /\ ipc'[c] = "ok" => (ipc[c] = "ok" /\ value'[c] = value[c]) \/ value'[c] = version
    <3>1. LeaderAhead(c) /\ Head(todo[c]).ns \in Namespaces BY <2>5, Asking DEF Advancing
    <3>2. \A k \in DOMAIN parts[c] : parts[c][k] \in Nat BY <2>0
    <3>3. \A k \in DOMAIN parts[c] : New(parts[c][k]) BY <2>2, <2>5, <3>1, <3>2 DEF LeaderAhead
    <3>4. NotOlder(Head(todo[c]).ns, version) BY <2>0, <3>1 DEF Advancing, CacheBehind, NotOlder
    <3>5. New(version) BY <2>0, <2>2, <2>5, <3>4
    <3>6. ipc[c] = "ok" => New(value[c]) BY <2>0, <2>2, <2>5, <3>1 DEF LeaderAhead
    <3> QED BY <2>5, <3>3, <3>5, <3>6
  <2> QED BY <1>2, <2>3, <2>4, <2>5, LeaderStep
<1>3. ASSUME NEW c \in Callers PROVE LeaderAhead(c)' BY <1>2 DEF LeaderAhead
<1> QED BY <1>1, <1>3 DEF Advancing

\* Nothing is cached and nobody leads a load.
LEMMA AdvancingInit == Init => Advancing
<1> SUFFICES ASSUME Init PROVE Advancing OBVIOUS
<1>1. \A c \in Callers : rpc[c] # "fetch" BY DEF Init
<1>2. \A ns \in Namespaces : cache[ns].parts = <<>> BY DEF Init, NoSnapshot
<1> QED BY <1>1, <1>2 DEF Advancing, LeaderAhead, CacheBehind, Parts

\* One load at a time per namespace: a snapshot is only ever replaced by one none
\* of whose parts is older, whoever leads, fails, joins or cancels.
THEOREM SnapshotsNeverGoBack == Spec => SnapshotsAdvance
<1>1. Init => Advancing BY AdvancingInit
<1>2. Base /\ Advancing /\ [Next]_vars =>
        [\A ns \in Namespaces : \A i \in DOMAIN cache[ns].parts : cache'[ns].parts[i] >= cache[ns].parts[i]]_vars
  <2> SUFFICES ASSUME Base, Advancing, [Next]_vars, NEW ns \in Namespaces, NEW i \in DOMAIN cache[ns].parts
               PROVE  cache'[ns].parts[i] >= cache[ns].parts[i]
      OBVIOUS
  <2>0. cache \in [Namespaces -> Snapshots] BY DEF Base, Typed
  <2>1. cache[ns].parts \in Seq(Nat) BY <2>0 DEF Snapshots
  <2>2. cache[ns].parts[i] \in Nat /\ i \in 1..Len(cache[ns].parts) BY <2>1
  <2>3. CASE cache'[ns] = cache[ns] BY <2>2, <2>3
  <2>4. CASE cache'[ns] # cache[ns]
    <3>1. PICK c \in Callers :
                /\ Fetch(c) /\ rpc[c] = "fetch" /\ ipc[c] = "ok" /\ UNCHANGED version
                /\ Len(Append(parts[c], value[c])) = Parts(Head(todo[c]).ns)
                /\ cache' = [cache EXCEPT ![Head(todo[c]).ns] = [parts |-> Append(parts[c], value[c]), at |-> now]]
          BY <2>4, CacheStep
    <3> DEFINE p == Append(parts[c], value[c])
    <3>2. ns = Head(todo[c]).ns /\ cache'[ns].parts = p BY <2>0, <2>4, <3>1
    <3>3. i \in DOMAIN p
      <4>1. CacheBehind(ns) /\ Len(cache[ns].parts) \in Nat /\ Parts(ns) \in Nat BY <2>1 DEF Advancing, Parts
      <4>2. Len(cache[ns].parts) <= Len(p)
        <5> HIDE DEF p
        <5>1. Len(p) = Parts(ns) BY <3>1, <3>2 DEF p
        <5> QED BY <2>2, <4>1, <5>1 DEF CacheBehind
      <4>3. Len(p) \in Nat /\ DOMAIN p = 1..Len(p) BY Complete
      <4> HIDE DEF p
      <4>4. i \in 1..Len(p) BY <2>2, <4>1, <4>2, <4>3
      <4> QED BY <4>3, <4>4
    <3>4. NotOlder(ns, p[i]) /\ p[i] \in Nat
      <4>1. p \in Seq(Nat) BY Complete
      <4>2. \A k \in DOMAIN p : NotOlder(Head(todo[c]).ns, p[k]) BY <3>1, CompleteNotOlder
      <4> HIDE DEF p
      <4> QED BY <3>2, <3>3, <4>1, <4>2
    <3>5. cache[ns].parts[i] <= p[i] BY <3>4 DEF NotOlder
    <3> QED BY <2>2, <3>2, <3>4, <3>5
  <2> QED BY <2>3, <2>4
<1> QED BY <1>1, <1>2, BaseInit, BaseStep, AdvancingStep, PTL DEF Spec, SnapshotsAdvance

----------------------------------------------------------------------------
(* The index of a snapshot. *)

\* A set of natural numbers has a least element.
LEMMA LeastOf ==
    ASSUME NEW S \in SUBSET Nat, S # {}
    PROVE  \E x \in S : \A y \in S : x <= y
<1>1. PICK x \in S : \A y \in S : ~(<<y, x>> \in OpToRel(<, Nat)) BY NatLessThanWellFounded, WFMin
<1>2. \A y \in S : ~(y < x) BY <1>1 DEF OpToRel
<1> QED BY <1>2

\* The loop of FlattenSeq up to n.
Flattening(f, seqs, n) == f = [i \in 1..n |-> IF i = 1 THEN seqs[i] ELSE f[i - 1] \o seqs[i]]

\* That loop has a value: a least length without one would extend the one before.
LEMMA FlatteningExists ==
    ASSUME NEW seqs, NEW n \in Nat
    PROVE  \E f : Flattening(f, seqs, n)
<1> DEFINE Good(m) == \E f : Flattening(f, seqs, m)
           Bad == {m \in Nat : ~Good(m)}
<1> SUFFICES ASSUME Bad # {} PROVE FALSE OBVIOUS
<1>1. PICK x \in Bad : \A y \in Bad : x <= y
  <2>1. Bad \in SUBSET Nat OBVIOUS
  <2> HIDE DEF Bad
  <2> QED BY <2>1, LeastOf
<1>2. x \in Nat /\ ~Good(x) OBVIOUS
<1>3. x # 0
  <2>1. Good(0)
    <3> DEFINE g == [i \in 1..0 |-> <<>>]
    <3>1. g = [i \in 1..0 |-> IF i = 1 THEN seqs[i] ELSE g[i - 1] \o seqs[i]] OBVIOUS
    <3> QED BY <3>1 DEF Flattening
  <2> QED BY <1>2, <2>1
<1>4. x - 1 \in Nat /\ ~(x <= x - 1) BY <1>2, <1>3
<1>5. Good(x - 1) BY <1>1, <1>4
<1>6. PICK f : f = [i \in 1..(x - 1) |-> IF i = 1 THEN seqs[i] ELSE f[i - 1] \o seqs[i]] BY <1>5 DEF Flattening
<1> DEFINE g == [i \in 1..x |-> IF i = x THEN (IF x = 1 THEN seqs[x] ELSE f[x - 1] \o seqs[x]) ELSE f[i]]
<1> HIDE DEF Good, Bad
<1>7. \A i \in 1..x : g[i] = IF i = 1 THEN seqs[i] ELSE g[i - 1] \o seqs[i]
  <2> TAKE i \in 1..x
  <2>1. CASE i = x
    <3>1. g[x] = IF x = 1 THEN seqs[x] ELSE f[x - 1] \o seqs[x] BY <1>2, <1>3
    <3>2. x # 1 => x - 1 \in 1..x /\ x - 1 # x BY <1>2, <1>3
    <3>3. x # 1 => g[x - 1] = f[x - 1] BY <3>2
    <3> HIDE DEF g
    <3> QED BY <2>1, <3>1, <3>3
  <2>2. CASE i # x
    <3>1. i \in 1..(x - 1) /\ g[i] = f[i] BY <1>2, <2>2
    <3>2. f[i] = IF i = 1 THEN seqs[i] ELSE f[i - 1] \o seqs[i] BY <1>6, <3>1
    <3>3. i # 1 => i - 1 \in 1..x /\ i - 1 # x BY <1>2, <3>1
    <3>4. i # 1 => g[i - 1] = f[i - 1] BY <3>3
    <3> HIDE DEF g
    <3> QED BY <3>1, <3>2, <3>4
  <2> QED BY <2>1, <2>2
<1>8. g = [i \in 1..x |-> IF i = 1 THEN seqs[i] ELSE g[i - 1] \o seqs[i]]
  <2>1. g = [i \in 1..x |-> g[i]] OBVIOUS
  <2> HIDE DEF g
  <2> QED BY <1>7, <2>1
<1>9. Good(x) BY <1>8 DEF Good, Flattening
<1> QED BY <1>2, <1>9

\* What FlattenSeq returns holds nothing but the elements of its sequences.
LEMMA Flattened ==
    ASSUME NEW T, NEW seqs \in Seq(Seq(T))
    PROVE  FlattenSeq(seqs) \in Seq(T)
<1> DEFINE n == Len(seqs)
           f == CHOOSE g : Flattening(g, seqs, n)
<1>0. n \in Nat /\ \A i \in 1..n : seqs[i] \in Seq(T) OBVIOUS
<1>1. FlattenSeq(seqs) = IF n = 0 THEN seqs ELSE f[n] BY DEF FlattenSeq, Flattening
<1>2. Flattening(f, seqs, n) BY <1>0, FlatteningExists
<1> HIDE DEF f
<1>3. \A i \in 1..n : f[i] = IF i = 1 THEN seqs[i] ELSE f[i - 1] \o seqs[i] BY <1>2 DEF Flattening
<1>4. \A i \in 1..n : f[i] \in Seq(T)
  <2> DEFINE Bad == {i \in 1..n : f[i] \notin Seq(T)}
  <2> SUFFICES ASSUME Bad # {} PROVE FALSE OBVIOUS
  <2>1. PICK x \in Bad : \A y \in Bad : x <= y
    <3>1. Bad \in SUBSET Nat BY <1>0
    <3> HIDE DEF Bad
    <3> QED BY <3>1, LeastOf
  <2>2. x \in 1..n /\ f[x] \notin Seq(T) OBVIOUS
  <2>3. x # 1 BY <1>0, <1>3, <2>2
  <2>4. x - 1 \in 1..n /\ ~(x <= x - 1) BY <1>0, <2>2, <2>3
  <2>5. f[x - 1] \in Seq(T) BY <2>1, <2>4
  <2>6. f[x] = f[x - 1] \o seqs[x] /\ seqs[x] \in Seq(T) BY <1>0, <1>3, <2>2, <2>3
  <2> HIDE DEF n, Bad
  <2> QED BY <2>2, <2>5, <2>6
<1>5. CASE n = 0
  <2>1. seqs = <<>> BY <1>5, EmptySeq
  <2> QED BY <1>1, <1>5, <2>1
<1>6. CASE n # 0
  <2>1. n \in 1..n BY <1>0, <1>6
  <2> QED BY <1>1, <1>4, <1>6, <2>1
<1> QED BY <1>5, <1>6

\* A function on 1..n is a sequence of its values.
LEMMA Listed ==
    ASSUME NEW n \in Nat, NEW s, DOMAIN s = 1..n, s = [i \in 1..n |-> s[i]]
    PROVE  s \in Seq(ToSet(s)) /\ Len(s) = n /\ ToSet(s) = {s[i] : i \in 1..n}
<1>1. ToSet(s) = {s[i] : i \in 1..n} BY DEF ToSet
<1>2. \A i \in 1..n : s[i] \in ToSet(s) BY <1>1
<1>3. s \in [1..n -> ToSet(s)] BY <1>2
<1>4. s \in Seq(ToSet(s)) BY <1>3, IsASeq
<1>5. Len(s) = n BY <1>4
<1> QED BY <1>1, <1>4, <1>5

\* What a list of lists holds once flattened is in one of them.
LEMMA FlattenedFrom ==
    ASSUME NEW n \in Nat, NEW lists, DOMAIN lists = 1..n, lists = [i \in 1..n |-> lists[i]],
           \A i \in 1..n : lists[i] \in Seq(ToSet(lists[i]))
    PROVE  /\ FlattenSeq(lists) \in Seq(ToSet(FlattenSeq(lists)))
           /\ \A b \in ToSet(FlattenSeq(lists)) : \E i \in 1..n : b \in ToSet(lists[i])
<1> DEFINE T == UNION {ToSet(lists[i]) : i \in 1..n}
           flat == FlattenSeq(lists)
<1>1. ASSUME NEW i \in 1..n PROVE lists[i] \in Seq(T)
  <2>1. lists[i] \in [1..Len(lists[i]) -> ToSet(lists[i])] /\ Len(lists[i]) \in Nat OBVIOUS
  <2>2. \A b \in ToSet(lists[i]) : b \in T OBVIOUS
  <2>3. lists[i] \in [1..Len(lists[i]) -> T] BY <2>1, <2>2
  <2> QED BY <2>1, <2>3, IsASeq
<1> HIDE DEF T
<1>2. lists \in [1..n -> Seq(T)] BY <1>1
<1>3. lists \in Seq(Seq(T)) BY <1>2, IsASeq
<1>4. flat \in Seq(T) BY <1>3, Flattened
<1> HIDE DEF flat
<1>5. DOMAIN flat = 1..Len(flat) /\ Len(flat) \in Nat /\ flat = [i \in 1..Len(flat) |-> flat[i]]
      /\ \A i \in 1..Len(flat) : flat[i] \in T
      BY <1>4
<1>6. flat \in Seq(ToSet(flat)) /\ ToSet(flat) = {flat[i] : i \in 1..Len(flat)} BY <1>5, Listed
<1>7. \A b \in ToSet(flat) : b \in T BY <1>5, <1>6
<1> QED BY <1>6, <1>7 DEF T, flat

\* A universe of n markets becomes n assets, from the offset on.
LEMMA Appended ==
    ASSUME NEW universe, universe \in Seq(ToSet(universe)), NEW dex, NEW offset \in Int, NEW kind
    PROVE  /\ appendPerps(universe, dex, offset, kind) \in Seq(ToSet(appendPerps(universe, dex, offset, kind)))
           /\ \A b \in ToSet(appendPerps(universe, dex, offset, kind)) : b.id \in Int /\ b.id >= offset
<1> DEFINE n == Len(universe)
           s == appendPerps(universe, dex, offset, kind)
<1>1. n \in Nat /\ DOMAIN universe = 1..n OBVIOUS
<1>2. s = [i \in 1..n |-> Asset(offset + i - 1, universe[i], kind, dex)] BY <1>1 DEF appendPerps
<1>3. \A i \in 1..n : s[i].id = offset + i - 1 BY <1>2 DEF Asset
<1>4. DOMAIN s = 1..n /\ s = [i \in 1..n |-> s[i]] BY <1>2
<1> HIDE DEF s, n
<1>5. s \in Seq(ToSet(s)) /\ ToSet(s) = {s[i] : i \in 1..n} BY <1>1, <1>4, Listed
<1>6. \A b \in ToSet(s) : b.id \in Int /\ b.id >= offset BY <1>1, <1>3, <1>5
<1> QED BY <1>5, <1>6 DEF s

\* The metadata of a version is lists.
LEMMA Lists ==
    ASSUME NEW v \in DOMAIN Universe
    PROVE  /\ Universe[v].perps \in Seq(ToSet(Universe[v].perps))
           /\ Universe[v].pairs \in Seq(ToSet(Universe[v].pairs))
           /\ Universe[v].dexes \in Seq(ToSet(Universe[v].dexes))
           /\ \A i \in DOMAIN Universe[v].dexes :
                Universe[v].dexes[i].universe \in Seq(ToSet(Universe[v].dexes[i].universe))
           /\ Universe[v].outcomes \in Seq(ToSet(Universe[v].outcomes))
           /\ \A i \in DOMAIN Universe[v].outcomes : Universe[v].outcomes[i].outcome \in Int
BY UniverseAssumption

\* The HIP-3 assets: their IDs start where HIP3From says they do.
LEMMA HIP3Assets ==
    ASSUME NEW v \in DOMAIN Universe
    PROVE  fetchHIP3(v, v) \in Seq(ToSet(fetchHIP3(v, v))) /\ \A b \in ToSet(fetchHIP3(v, v)) : HIP3From(b.id)
<1> DEFINE dexes == Universe[v].dexes
           n == Len(dexes)
           Markets(i) == appendPerps(dexes[i].universe, dexes[i].name, 100000 + (i - 1) * 10000, "HIP3")
           lists == [i \in 1..n |-> IF dexes[i].name = "" THEN <<>> ELSE Markets(i)]
<1>1. dexes \in Seq(ToSet(dexes)) /\ \A i \in DOMAIN dexes : dexes[i].universe \in Seq(ToSet(dexes[i].universe))
      BY Lists
<1>2. n \in Nat /\ DOMAIN dexes = 1..n BY <1>1
<1>3. fetchHIP3(v, v) = FlattenSeq(lists) BY <1>2 DEF fetchHIP3
<1>4. ASSUME NEW i \in 1..n
      PROVE  Markets(i) \in Seq(ToSet(Markets(i))) /\ \A b \in ToSet(Markets(i)) : HIP3From(b.id)
  <2>1. 100000 + (i - 1) * 10000 \in Int /\ 100000 + (i - 1) * 10000 >= 100000 BY <1>2
  <2>2. /\ Markets(i) \in Seq(ToSet(Markets(i)))
        /\ \A b \in ToSet(Markets(i)) : b.id \in Int /\ b.id >= 100000 + (i - 1) * 10000
        BY <1>1, <1>2, <2>1, Appended
  <2> HIDE DEF Markets
  <2> QED BY <2>1, <2>2 DEF HIP3From
<1>5. <<>> \in Seq(ToSet(<<>>)) /\ ToSet(<<>>) = {} BY DEF ToSet
<1> HIDE DEF n, dexes, Markets
<1>6. \A i \in 1..n : lists[i] \in Seq(ToSet(lists[i])) /\ \A b \in ToSet(lists[i]) : HIP3From(b.id)
      BY <1>4, <1>5
<1>7. DOMAIN lists = 1..n /\ lists = [i \in 1..n |-> lists[i]] OBVIOUS
<1> HIDE DEF lists
<1>8. /\ FlattenSeq(lists) \in Seq(ToSet(FlattenSeq(lists)))
      /\ \A b \in ToSet(FlattenSeq(lists)) : \E i \in 1..n : b \in ToSet(lists[i])
      BY <1>2, <1>6, <1>7, FlattenedFrom
<1> QED BY <1>3, <1>6, <1>8

\* An outcome's side has an ID from where OutcomeFrom says.
LEMMA OutcomeID == \A e \in Nat : OutcomeFrom(OutcomeAsset(e).id)
BY SMT DEF OutcomeFrom, OutcomeAsset, Asset

\* The outcome assets, likewise.
LEMMA OutcomeAssets ==
    ASSUME NEW v \in DOMAIN Universe
    PROVE  appendOutcomes(v) \in Seq(ToSet(appendOutcomes(v))) /\ \A b \in ToSet(appendOutcomes(v)) : OutcomeFrom(b.id)
<1> DEFINE outcomes == Universe[v].outcomes
           n == Len(outcomes)
           Sides(i) == [s \in 1..2 |-> OutcomeAsset(outcomes[i].outcome * 10 + s - 1)]
           lists == [i \in 1..n |-> IF outcomes[i].outcome < 0 \/ outcomes[i].sides # 2 THEN <<>> ELSE Sides(i)]
<1>1. outcomes \in Seq(ToSet(outcomes)) /\ \A i \in DOMAIN outcomes : outcomes[i].outcome \in Int BY Lists
<1>2. n \in Nat /\ DOMAIN outcomes = 1..n BY <1>1
<1>3. appendOutcomes(v) = FlattenSeq(lists) BY <1>2 DEF appendOutcomes
<1>4. ASSUME NEW i \in 1..n, ~(outcomes[i].outcome < 0)
      PROVE  Sides(i) \in Seq(ToSet(Sides(i))) /\ \A b \in ToSet(Sides(i)) : OutcomeFrom(b.id)
  <2>1. outcomes[i].outcome \in Nat BY <1>1, <1>2, <1>4
  <2>2. \A s \in 1..2 : outcomes[i].outcome * 10 + s - 1 \in Nat BY <2>1
  <2>3. \A s \in 1..2 : OutcomeFrom(Sides(i)[s].id) BY <2>2, OutcomeID
  <2> DEFINE two == Sides(i)
  <2>4. 2 \in Nat /\ DOMAIN two = 1..2 /\ two = [s \in 1..2 |-> two[s]] OBVIOUS
  <2>5. \A s \in 1..2 : OutcomeFrom(two[s].id) BY <2>3
  <2> HIDE DEF two
  <2>6. two \in Seq(ToSet(two)) /\ ToSet(two) = {two[s] : s \in 1..2} BY <2>4, Listed
  <2>7. \A b \in ToSet(two) : OutcomeFrom(b.id) BY <2>5, <2>6
  <2> QED BY <2>6, <2>7 DEF two
<1>5. <<>> \in Seq(ToSet(<<>>)) /\ ToSet(<<>>) = {} BY DEF ToSet
<1> HIDE DEF n, outcomes, Sides
<1>6. \A i \in 1..n : lists[i] \in Seq(ToSet(lists[i])) /\ \A b \in ToSet(lists[i]) : OutcomeFrom(b.id)
      BY <1>4, <1>5
<1>7. DOMAIN lists = 1..n /\ lists = [i \in 1..n |-> lists[i]] OBVIOUS
<1> HIDE DEF lists
<1>8. /\ FlattenSeq(lists) \in Seq(ToSet(FlattenSeq(lists)))
      /\ \A b \in ToSet(FlattenSeq(lists)) : \E i \in 1..n : b \in ToSet(lists[i])
      BY <1>2, <1>6, <1>7, FlattenedFrom
<1> QED BY <1>3, <1>6, <1>8

\* An index: its assets in order, and aliases that name some of them.
Indexed(s) ==
    /\ s.assets \in Seq(ToSet(s.assets))
    /\ \A a \in s.aliases : a.at \in Nat /\ a.asset \in ToSet(s.assets)

\* The base snapshot indexes the perpetuals and, behind them, the pairs.
LEMMA BaseIndexed ==
    ASSUME NEW v \in DOMAIN Universe
    PROVE  Indexed(BaseSnapshot(v, v))
<1> DEFINE markets == Universe[v].perps
           pairs == Universe[v].pairs
           perps == appendPerps(markets, "", 0, "Perp")
           spot == SpotAssets(v)
           n == Len(pairs)
           all == perps \o spot
<1>1. markets \in Seq(ToSet(markets)) /\ pairs \in Seq(ToSet(pairs)) BY Lists
<1>2. n \in Nat /\ DOMAIN pairs = 1..n BY <1>1
<1>3. DOMAIN spot = 1..n BY <1>2 DEF SpotAssets
<1>4. spot = [i \in 1..n |-> spot[i]]
  <2> DEFINE Pair(i) == Asset(10000 + pairs[i].index, pairs[i].name, "Spot", "")
  <2>1. spot = [i \in 1..n |-> Pair(i)] BY <1>2 DEF SpotAssets
  <2> HIDE DEF Pair, n, spot
  <2> QED BY <2>1
<1>5. /\ BaseSnapshot(v, v).assets = all
      /\ \A a \in BaseSnapshot(v, v).aliases : \E i \in 1..n : a.at = i /\ a.asset = spot[i]
  <2>1. BaseSnapshot(v, v).aliases =
          {[at |-> i, alias |-> AliasOf(v, i), asset |-> spot[i]] : i \in {j \in DOMAIN pairs : AliasOf(v, j) # pairs[j].name}}
        BY DEF BaseSnapshot
  <2>2. BaseSnapshot(v, v).assets = all BY DEF BaseSnapshot
  <2>3. ASSUME NEW a \in BaseSnapshot(v, v).aliases PROVE \E i \in 1..n : a.at = i /\ a.asset = spot[i]
    <3> HIDE DEF spot, pairs, n
    <3>1. PICK i \in DOMAIN pairs : a = [at |-> i, alias |-> AliasOf(v, i), asset |-> spot[i]] BY <2>1
    <3>2. a.at = i /\ a.asset = spot[i] BY <3>1
    <3> QED BY <1>2, <3>2
  <2> QED BY <2>2, <2>3
<1> HIDE DEF markets
<1>6. perps \in Seq(ToSet(perps))
  <2>1. 0 \in Int OBVIOUS
  <2> QED BY <1>1, <2>1, Appended
<1> HIDE DEF perps, spot, n
<1>7. spot \in Seq(ToSet(spot)) /\ Len(spot) = n BY <1>2, <1>3, <1>4, Listed
<1> DEFINE T == ToSet(perps) \cup ToSet(spot)
           m == Len(perps)
<1>8. perps \in Seq(T) /\ spot \in Seq(T)
  <2>1. \A S, U : \A q \in Seq(S) : S \subseteq U => q \in Seq(U) OBVIOUS
  <2>2. ToSet(perps) \subseteq T /\ ToSet(spot) \subseteq T OBVIOUS
  <2> HIDE DEF T
  <2> QED BY <1>6, <1>7, <2>1, <2>2
<1> HIDE DEF T
<1>9. /\ all \in Seq(T) /\ Len(all) = m + n /\ m \in Nat
      /\ \A i \in 1..n : all[m + i] = spot[i]
      BY <1>2, <1>7, <1>8
<1> HIDE DEF all, m
<1>10. m + n \in Nat /\ DOMAIN all = 1..(m + n) /\ all = [i \in 1..(m + n) |-> all[i]] BY <1>2, <1>9
<1>11. all \in Seq(ToSet(all)) /\ ToSet(all) = {all[i] : i \in 1..(m + n)} BY <1>10, Listed
<1>12. \A i \in 1..n : i \in Nat /\ spot[i] \in ToSet(all)
  <2>1. \A i \in 1..n : m + i \in 1..(m + n) BY <1>2, <1>9
  <2> QED BY <1>2, <1>9, <1>11, <2>1
<1> QED BY <1>5, <1>11, <1>12 DEF Indexed

\* The other namespaces have no aliases.
LEMMA PlainIndexed ==
    ASSUME NEW assets, assets \in Seq(ToSet(assets))
    PROVE  Indexed(indexAssets(assets)) /\ indexAssets(assets).assets = assets
BY DEF Indexed, indexAssets

\* Whatever is found under a symbol or an ID is an asset of the index, at a place
\* of its own; what has the ID is found under it.
LEMMA Lookups ==
    ASSUME NEW s, Indexed(s)
    PROVE  /\ \A symbol : \A f \in bySymbol(s, symbol) : f.at \in Nat /\ f.asset \in ToSet(s.assets)
           /\ \A id : \A f \in byID(s, id) : f.asset \in ToSet(s.assets) /\ f.asset.id = id
           /\ \A b \in ToSet(s.assets) : \E f \in byID(s, b.id) : f.asset = b
<1>1. ToSet(s.assets) = {s.assets[i] : i \in DOMAIN s.assets} BY DEF ToSet
<1>2. DOMAIN s.assets \subseteq Nat /\ Len(s.assets) \in Nat BY DEF Indexed
<1>3. ASSUME NEW symbol, NEW f \in bySymbol(s, symbol) PROVE f.at \in Nat /\ f.asset \in ToSet(s.assets)
  <2>1. CASE \E i \in DOMAIN s.assets : f = [at |-> i, asset |-> s.assets[i]] BY <1>1, <1>2, <2>1
  <2>2. CASE \E a \in s.aliases : f = [at |-> Len(s.assets) + a.at, asset |-> a.asset]
        BY <1>2, <2>2 DEF Indexed
  <2> QED BY <2>1, <2>2 DEF bySymbol
<1>4. \A id : \A f \in byID(s, id) : f.asset \in ToSet(s.assets) /\ f.asset.id = id BY <1>1 DEF byID
<1>5. ASSUME NEW b \in ToSet(s.assets) PROVE \E f \in byID(s, b.id) : f.asset = b
  <2>1. PICK i \in DOMAIN s.assets : s.assets[i] = b BY <1>1
  <2>2. [at |-> i, asset |-> s.assets[i]] \in byID(s, b.id) BY <2>1 DEF byID
  <2> QED BY <2>1, <2>2
<1> QED BY <1>3, <1>4, <1>5

\* The answers of one snapshot are assets of it.
LEMMA Resolved ==
    ASSUME NEW s, Indexed(s)
    PROVE  /\ \A symbol : resolveSymbol(s, symbol) # NotFound => resolveSymbol(s, symbol) \in ToSet(s.assets)
           /\ \A ref : resolveMarket(s, ref) # NotFound => resolveMarket(s, ref) \in ToSet(s.assets)
<1>1. ASSUME NEW symbol, resolveSymbol(s, symbol) # NotFound PROVE resolveSymbol(s, symbol) \in ToSet(s.assets)
  <2>1. bySymbol(s, symbol) # {} /\ resolveSymbol(s, symbol) = (CHOOSE f \in bySymbol(s, symbol) : TRUE).asset
        BY <1>1 DEF resolveSymbol, OnlyOne
  <2>2. (CHOOSE f \in bySymbol(s, symbol) : TRUE) \in bySymbol(s, symbol) BY <2>1
  <2> QED BY <2>1, <2>2, Lookups
<1>2. ASSUME NEW ref, resolveMarket(s, ref) # NotFound PROVE resolveMarket(s, ref) \in ToSet(s.assets)
  <2> DEFINE found == {f \in bySymbol(s, ref.symbol) : f.asset.kind = ref.kind /\ f.asset.dex = ref.dex}
             places == {f.at : f \in found}
  <2>1. \A f \in found : f.at \in Nat /\ f.asset \in ToSet(s.assets) BY Lookups
  <2>2. found # {} /\ resolveMarket(s, ref) = (CHOOSE f \in found : \A g \in found : f.at <= g.at).asset
        BY <1>2 DEF resolveMarket, FirstOf
  <2> HIDE DEF found
  <2>3. places \in SUBSET Nat /\ places # {} BY <2>1, <2>2
  <2>4. \E x \in places : \A y \in places : x <= y BY <2>3, LeastOf
  <2>5. \E f \in found : \A g \in found : f.at <= g.at BY <2>4
  <2>6. (CHOOSE f \in found : \A g \in found : f.at <= g.at) \in found BY <2>5
  <2> QED BY <2>1, <2>2, <2>6
<1> QED BY <1>1, <1>2

----------------------------------------------------------------------------
(* Unambiguous answers. *)

\* A snapshot with all parts of its namespace, none of them of a later version.
Whole(ns, snap, v) ==
    /\ snap.parts \in Seq(Nat) /\ Len(snap.parts) = Parts(ns)
    /\ \A i \in DOMAIN snap.parts : snap.parts[i] <= v

\* The cached snapshots, those handed to joiners and those read are whole.
CacheWhole(ns) == cache[ns] # NoSnapshot => Whole(ns, cache[ns], version)
InboxWhole(c) == inbox[c].snap # NoSnapshot => Whole(Head(todo[c]).ns, inbox[c].snap, version)
ReadWhole(c) == \A s \in read[c] : s.ns \in Namespaces => Whole(s.ns, s.snap, version)
AllWhole == (\A ns \in Namespaces : CacheWhole(ns)) /\ \A c \in Callers : InboxWhole(c) /\ ReadWhole(c)

\* What is whole stays so while the server moves on.
LEMMA StaysWhole ==
    ASSUME NEW ns, NEW snap, NEW v \in Nat, NEW w \in Nat, v <= w, Whole(ns, snap, v)
    PROVE  Whole(ns, snap, w)
<1>1. \A i \in DOMAIN snap.parts : snap.parts[i] \in Nat BY DEF Whole
<1> QED BY <1>1 DEF Whole

\* A completed load is whole.
LEMMA LoadedWhole ==
    ASSUME Base, Advancing, NEW c \in Callers, NEW snap, Loaded(c, snap)
    PROVE  Whole(Head(todo[c]).ns, snap, version)
<1> DEFINE p == Append(parts[c], value[c])
<1>1. rpc[c] = "fetch" /\ ipc[c] = "ok" /\ snap.parts = p /\ Len(p) = Parts(Head(todo[c]).ns) BY DEF Loaded
<1>2. p \in Seq(Nat) BY Complete
<1>3. \A k \in DOMAIN p : p[k] <= version BY <1>1, CompleteNotOlder DEF NotOlder
<1> HIDE DEF p
<1> QED BY <1>1, <1>2, <1>3 DEF Whole

\* A joiner that holds a result has waited for it: it was handed it, or has it
\* still, and asks for the same namespace.
LEMMA JoinerStep ==
    ASSUME Base, [Next]_vars, NEW c \in Callers, inbox'[c].snap # NoSnapshot
    PROVE  /\ todo'[c] = todo[c] /\ rpc[c] = "join"
           /\ inbox'[c] = inbox[c] \/ \E d \in Callers : Fetch(d) /\ Head(todo[d]).ns = Head(todo[c]).ns
                                                        /\ Loaded(d, inbox'[c].snap)
<1>0. /\ rpc \in [Callers -> ResolverPlaces] /\ todo \in [Callers -> Seq(Plans)]
      /\ DOMAIN result = Callers /\ DOMAIN read = Callers /\ inbox \in [Callers -> Results] /\ PlacedAt(c)
      BY DEF Base, Typed, Placed
<1>1. rpc'[c] = "join"
  <2>1. PlacedAt(c)' BY BaseStep DEF Base, Placed
  <2> QED BY <2>1 DEF PlacedAt, NoResult
<1>2. CASE Outside BY <1>0, <1>1, <1>2 DEF Outside, resolverVars
<1>3. ASSUME NEW d \in Callers, Begin(d) PROVE UNCHANGED <<todo[c], rpc[c], inbox[c]>>
  <2>1. UNCHANGED inbox /\ rpc[d] = "idle" BY <1>3, BeginFacts
  <2>2. PICK r :
        \/ rpc' = [rpc EXCEPT ![d] = "path"] /\ UNCHANGED todo
        \/ rpc' = [rpc EXCEPT ![d] = "done"] /\ UNCHANGED todo
        \/ /\ rpc' = [rpc EXCEPT ![d] = IF r.op = "cached" THEN "lookup" ELSE "demand"]
           /\ todo' = [todo EXCEPT ![d] = PlanOf(r)]
        BY <1>3, BeginFacts
  <2>3. c # d BY <1>0, <1>1, <2>2
  <2> QED BY <1>0, <2>1, <2>2, <2>3
<1>4. ASSUME NEW d \in Callers, Demand(d)
      PROVE  todo'[c] = todo[c] /\ rpc[c] = "join" /\ inbox'[c] = inbox[c]
  <2>1. rpc[d] = "demand" /\ UNCHANGED inbox BY <1>4 DEF Demand
  <2>2. rpc[c] = "join" BY <1>0, <2>1 DEF PlacedAt, NoResult
  <2>3. todo[d] # <<>> /\ d # c BY <2>1, <2>2, Asking
  <2>4. todo'[c] = todo[c]
        BY <1>4, <2>1, <2>3, DemandCases, NextPlace
  <2> QED BY <2>1, <2>2, <2>4
<1>5. ASSUME NEW d \in Callers, Fetch(d)
      PROVE  /\ todo'[c] = todo[c] /\ rpc[c] = "join"
             /\ inbox'[c] = inbox[c] \/ (Head(todo[d]).ns = Head(todo[c]).ns /\ Loaded(d, inbox'[c].snap))
  <2>1. rpc[d] = "fetch" BY <1>5, FetchCases
  <2>2. inbox'[c] = inbox[c] \/ (rpc[c] = "join" /\ Head(todo[d]).ns = Head(todo[c]).ns /\ Loaded(d, inbox'[c].snap))
        BY <1>5, Handed
  <2>3. rpc[c] = "join" BY <1>0, <2>2 DEF PlacedAt, NoResult
  <2>4. todo[d] # <<>> /\ d # c BY <2>1, <2>3, Asking
  <2>5. todo'[c] = todo[c]
    <3>1. CASE (\E snap : Took(d, snap)) \/ Lacked(d) BY <2>1, <2>4, <3>1, NextPlace
    <3>2. CASE UNCHANGED todo BY <3>2
    <3> QED BY <1>5, <3>1, <3>2, FetchCases DEF FetchFailed, FetchSucceeded
  <2> QED BY <2>2, <2>3, <2>5
<1>6. ASSUME NEW d \in Callers, Join(d) PROVE UNCHANGED <<todo[c], rpc[c], inbox[c]>>
  <2>1. rpc[d] = "join" /\ inbox' = [inbox EXCEPT ![d] = NoResult] /\ ((\E snap : Took(d, snap)) \/ Lacked(d))
        BY <1>6, JoinCases
  <2>2. d # c BY <1>0, <2>1 DEF NoResult
  <2>3. todo[d] # <<>> BY <2>1, Asking
  <2>4. UNCHANGED <<rpc[c], todo[c]>> BY <2>1, <2>2, <2>3, NextPlace
  <2> QED BY <1>0, <2>1, <2>2, <2>4
<1>7. ASSUME NEW d \in Callers, RefreshOptional(d) \/ Lookup(d) \/ Fill(d) PROVE UNCHANGED <<todo[c], rpc[c], inbox[c]>>
  <2>1. UNCHANGED inbox /\ \E to \in {"done", "demand"} : rpc' = [rpc EXCEPT ![d] = to]
        BY <1>7 DEF RefreshOptional, Lookup, Fill, Finish, RPC
  <2>2. c # d /\ rpc'[c] = rpc[c] BY <1>0, <1>1, <2>1
  <2>3. todo' = todo \/ \E x : todo' = [todo EXCEPT ![d] = x] BY <1>7 DEF RefreshOptional, Lookup, Fill
  <2> QED BY <1>0, <2>1, <2>2, <2>3
<1> QED BY <1>0, <1>1, <1>2, <1>3, <1>4, <1>5, <1>6, <1>7, StepCases

\* Snapshots stay whole, wherever they go.
LEMMA WholeStep == Base /\ Advancing /\ AllWhole /\ [Next]_vars => AllWhole'
<1> SUFFICES ASSUME Base, Advancing, AllWhole, [Next]_vars PROVE AllWhole' OBVIOUS
<1>0. version \in Nat /\ version' \in Nat /\ version' >= version /\ cache \in [Namespaces -> Snapshots]
      BY VersionGrows DEF Base, Typed
<1>1. ASSUME NEW ns, NEW snap, Whole(ns, snap, version) PROVE Whole(ns, snap, version')
      BY <1>0, <1>1, StaysWhole
<1>2. ASSUME NEW ns \in Namespaces, cache'[ns] # NoSnapshot PROVE Whole(ns, cache'[ns], version')
  <2>1. CASE cache'[ns] = cache[ns] BY <1>1, <1>2, <2>1 DEF AllWhole, CacheWhole
  <2>2. CASE cache'[ns] # cache[ns]
    <3>1. PICK c \in Callers :
                /\ rpc[c] = "fetch" /\ ipc[c] = "ok"
                /\ Len(Append(parts[c], value[c])) = Parts(Head(todo[c]).ns)
                /\ cache' = [cache EXCEPT ![Head(todo[c]).ns] = [parts |-> Append(parts[c], value[c]), at |-> now]]
          BY <2>2, CacheStep
    <3>2. ns = Head(todo[c]).ns /\ Loaded(c, cache'[ns]) BY <1>0, <2>2, <3>1 DEF Loaded
    <3> QED BY <1>1, <3>2, LoadedWhole
  <2> QED BY <2>1, <2>2
<1>3. ASSUME NEW c \in Callers, inbox'[c].snap # NoSnapshot PROVE Whole(Head(todo'[c]).ns, inbox'[c].snap, version')
  <2>1. todo'[c] = todo[c] BY <1>3, JoinerStep
  <2>2. CASE inbox'[c] = inbox[c] BY <1>1, <1>3, <2>1, <2>2 DEF AllWhole, InboxWhole
  <2>3. CASE \E d \in Callers : Head(todo[d]).ns = Head(todo[c]).ns /\ Loaded(d, inbox'[c].snap)
        BY <1>1, <2>1, <2>3, LoadedWhole
  <2> QED BY <1>3, <2>2, <2>3, JoinerStep
<1>4. ASSUME NEW c \in Callers, NEW s \in read'[c], s.ns \in Namespaces PROVE Whole(s.ns, s.snap, version')
  <2>1. CASE s \in read[c] BY <1>1, <1>4, <2>1 DEF AllWhole, ReadWhole
  <2>2. CASE s \notin read[c]
    <3>1. s.ns # "entry" BY <1>4 DEF Namespaces
    <3>2. CASE s.snap = cache[s.ns] /\ Valid(s.ns)
      <4>1. cache[s.ns] # NoSnapshot BY <3>2 DEF Valid
      <4> QED BY <1>1, <1>4, <3>2, <4>1 DEF AllWhole, CacheWhole
    <3>3. CASE s.ns = Head(todo[c]).ns /\ Loaded(c, s.snap) BY <1>1, <3>3, LoadedWhole
    <3>4. CASE s.ns = Head(todo[c]).ns /\ inbox[c].snap # NoSnapshot /\ s.snap = inbox[c].snap
          BY <1>1, <3>4 DEF AllWhole, InboxWhole
    <3> QED BY <1>4, <2>2, <3>1, <3>2, <3>3, <3>4, NewlyRead
  <2> QED BY <2>1, <2>2
<1> QED BY <1>2, <1>3, <1>4 DEF AllWhole, CacheWhole, InboxWhole, ReadWhole

\* The lookups that answer with an asset. ResolveID looks into the namespaces where
\* its ID can be.
Named == {"id", "resolve", "market"}
Wanted(ns, id) ==
    ns = "base" \/ (ns = "hip3" /\ HIP3From(id)) \/ (ns = "outcome" /\ OutcomeFrom(id) /\ config.outcomes)
Given(c, ns) == \E s \in read[c] : s.ns = ns
Ahead(c, ns) == \E k \in DOMAIN todo[c] : todo[c][k].ns = ns

\* A lookup under way has read, or is still to ask for, every namespace it wants,
\* and outcomes only where the client knows them; one that has succeeded has read
\* them all and found an answer in them.
Pursuing(c) ==
    /\ rpc[c] \notin {"lookup", "fill", "optional"}
    /\ \A s \in read[c] : s.ns \in Namespaces /\ (s.ns = "outcome" => config.outcomes)
    /\ Ahead(c, "outcome") => config.outcomes
    /\ rpc[c] \in {"demand", "fetch", "join"} /\ req[c].op = "id" =>
         \A ns \in Namespaces : Wanted(ns, req[c].id) => Given(c, ns) \/ Ahead(c, ns)
    /\ result[c] = "ok" => /\ rpc[c] = "done" /\ read[c] # {} /\ AnswerOf(req[c], read[c]) # NotFound
                           /\ req[c].op = "id" => \A ns \in Namespaces : Wanted(ns, req[c].id) => Given(c, ns)
AllPursuing == \A c \in Callers : req[c].op \in Named => Pursuing(c)

\* Two sequences, one after the other, hold what both hold.
LEMMA Joined ==
    ASSUME NEW S, NEW s \in Seq(S), NEW t \in Seq(S)
    PROVE  s \o t \in Seq(S) /\ ToSet(s \o t) = ToSet(s) \cup ToSet(t)
<1> DEFINE st == s \o t
<1>1. /\ Len(s) \in Nat /\ Len(t) \in Nat /\ DOMAIN s = 1..Len(s) /\ DOMAIN t = 1..Len(t)
      /\ DOMAIN st = 1..(Len(s) + Len(t)) /\ st \in Seq(S)
      OBVIOUS
<1>2. \A i \in 1..Len(s) : st[i] = s[i] OBVIOUS
<1>3. \A i \in 1..Len(t) : st[Len(s) + i] = t[i] OBVIOUS
<1> HIDE DEF st
<1>4. \A i \in 1..Len(s) : i \in DOMAIN st BY <1>1
<1>5. \A i \in 1..Len(t) : Len(s) + i \in DOMAIN st BY <1>1
<1>6. \A k \in DOMAIN st : k \in 1..Len(s) \/ (k - Len(s) \in 1..Len(t) /\ Len(s) + (k - Len(s)) = k) BY <1>1
<1>7. ASSUME NEW x \in ToSet(st) PROVE x \in ToSet(s) \cup ToSet(t)
  <2>1. PICK k \in DOMAIN st : st[k] = x BY DEF ToSet
  <2>2. CASE k \in 1..Len(s)
    <3>1. x = s[k] BY <1>2, <2>1, <2>2
    <3> QED BY <1>1, <2>2, <3>1 DEF ToSet
  <2>3. CASE k - Len(s) \in 1..Len(t) /\ Len(s) + (k - Len(s)) = k
    <3>1. x = t[k - Len(s)] BY <1>3, <2>1, <2>3
    <3> QED BY <1>1, <2>3, <3>1 DEF ToSet
  <2> QED BY <1>6, <2>2, <2>3
<1>8. ASSUME NEW x \in ToSet(s) \cup ToSet(t) PROVE x \in ToSet(st)
      BY <1>1, <1>2, <1>3, <1>4, <1>5 DEF ToSet
<1> QED BY <1>1, <1>7, <1>8 DEF st

\* The plan of a lookup that is not refused.
LEMMA PlanNamespaces ==
    ASSUME NEW r, r.op \in Named, ~RefusedMarket(r)
    PROVE  /\ (\E k \in DOMAIN PlanOf(r) : PlanOf(r)[k].ns = "outcome") => config.outcomes
           /\ r.op = "id" => \A ns \in Namespaces : Wanted(ns, r.id) => \E k \in DOMAIN PlanOf(r) : PlanOf(r)[k].ns = ns
<1> DEFINE base == Plan("base", FALSE)
           hip3 == Plan("hip3", FALSE)
           outcome == Plan("outcome", FALSE)
<1>0. /\ base.ns = "base" /\ hip3.ns = "hip3" /\ outcome.ns = "outcome"
      /\ base \in Plans /\ hip3 \in Plans /\ outcome \in Plans
      BY DEF Plan, Plans, Namespaces
<1>1. \A x : ToSet(<<x>>) = {x}
  <2> TAKE x
  <2>1. DOMAIN <<x>> = 1..1 /\ <<x>>[1] = x OBVIOUS
  <2> QED BY <2>1 DEF ToSet
<1>2. ToSet(<<>>) = {} BY DEF ToSet
<1>3. \A ns : (\E k \in DOMAIN PlanOf(r) : PlanOf(r)[k].ns = ns) <=> \E q \in ToSet(PlanOf(r)) : q.ns = ns BY DEF ToSet
<1>4. CASE r.op = "resolve"
  <2>1. PlanOf(r) = <<base>> BY <1>4 DEF PlanOf
  <2> HIDE DEF base
  <2>2. ToSet(PlanOf(r)) = {base} BY <1>1, <2>1
  <2> QED BY <1>0, <1>3, <1>4, <2>2
<1>5. CASE r.op = "market"
  <2> DEFINE ns == IF r.ref.kind = "HIP3" THEN "hip3" ELSE IF r.ref.kind = "Outcome" THEN "outcome" ELSE "base"
             q == Plan(ns, FALSE)
  <2>1. PlanOf(r) = <<q>> BY <1>5 DEF PlanOf
  <2>2. q.ns = ns BY DEF Plan
  <2>3. ns = "outcome" => r.ref.kind = "Outcome" OBVIOUS
  <2>4. r.ref.kind = "Outcome" => config.outcomes BY <1>5 DEF RefusedMarket
  <2> HIDE DEF ns, q
  <2>5. ToSet(PlanOf(r)) = {q} BY <1>1, <2>1
  <2> QED BY <1>3, <1>5, <2>2, <2>3, <2>4, <2>5
<1>6. CASE r.op = "id"
  <2> DEFINE first == <<base>>
             second == IF HIP3From(r.id) THEN <<hip3>> ELSE <<>>
             third == IF OutcomeFrom(r.id) /\ config.outcomes THEN <<outcome>> ELSE <<>>
  <2>1. PlanOf(r) = (first \o second) \o third BY <1>6 DEF PlanOf
  <2> HIDE DEF base, hip3, outcome
  <2>2. <<base>> \in Seq(Plans) /\ <<hip3>> \in Seq(Plans) /\ <<outcome>> \in Seq(Plans) /\ <<>> \in Seq(Plans)
        BY <1>0, One
  <2>3. /\ first \in Seq(Plans) /\ ToSet(first) = {base}
        /\ second \in Seq(Plans) /\ ToSet(second) = IF HIP3From(r.id) THEN {hip3} ELSE {}
        /\ third \in Seq(Plans) /\ ToSet(third) = IF OutcomeFrom(r.id) /\ config.outcomes THEN {outcome} ELSE {}
        BY <1>1, <1>2, <2>2
  <2> HIDE DEF first, second, third
  <2>4. first \o second \in Seq(Plans) /\ ToSet(first \o second) = ToSet(first) \cup ToSet(second)
        BY <2>3, Joined
  <2>5. ToSet(PlanOf(r)) = (ToSet(first) \cup ToSet(second)) \cup ToSet(third)
    <3> DEFINE two == first \o second
    <3> HIDE DEF two
    <3>1. two \in Seq(Plans) /\ ToSet(two) = ToSet(first) \cup ToSet(second) BY <2>4 DEF two
    <3>2. ToSet(two \o third) = ToSet(two) \cup ToSet(third) BY <2>3, <3>1, Joined
    <3>3. PlanOf(r) = two \o third BY <2>1 DEF two
    <3> QED BY <3>1, <3>2, <3>3
  <2>6. \A q \in ToSet(PlanOf(r)) : q.ns = "outcome" => config.outcomes BY <1>0, <2>3, <2>5
  <2>7. \A ns \in Namespaces : Wanted(ns, r.id) => \E q \in ToSet(PlanOf(r)) : q.ns = ns
        BY <1>0, <2>3, <2>5 DEF Wanted
  <2> QED BY <1>3, <2>6, <2>7
<1> QED BY <1>4, <1>5, <1>6 DEF Named

\* A caller is where it was unless the step is its own.
LEMMA OwnStep ==
    ASSUME Base, [Next]_vars, NEW c \in Callers
    PROVE  /\ UNCHANGED config
           /\ \/ UNCHANGED <<rpc[c], todo[c], read[c], result[c], req[c]>>
              \/ Begin(c) \/ Demand(c) \/ Fetch(c) \/ Join(c) \/ RefreshOptional(c) \/ Lookup(c) \/ Fill(c)
<1>0. /\ rpc \in [Callers -> ResolverPlaces] /\ todo \in [Callers -> Seq(Plans)]
      /\ DOMAIN req = Callers /\ DOMAIN result = Callers /\ DOMAIN read = Callers
      BY DEF Base, Typed
<1>1. CASE Outside BY <1>1 DEF Outside, resolverVars
<1>2. ASSUME NEW d \in Callers, Begin(d) PROVE UNCHANGED config /\ (d # c => UNCHANGED <<rpc[c], todo[c], read[c], result[c], req[c]>>)
      BY <1>0, <1>2, BeginFacts
<1>3. ASSUME NEW d \in Callers, Demand(d) PROVE UNCHANGED config /\ (d # c => UNCHANGED <<rpc[c], todo[c], read[c], result[c], req[c]>>)
  <2>1. rpc[d] = "demand" /\ UNCHANGED <<config, req>> BY <1>3 DEF Demand
  <2>2. todo[d] # <<>> BY <2>1, Asking
  <2>3. d # c => UNCHANGED <<rpc[c], todo[c], read[c], result[c]>>
        BY <1>0, <1>3, <2>1, <2>2, DemandCases, NextPlace DEF RPC
  <2> QED BY <2>1, <2>3
<1>4. ASSUME NEW d \in Callers, Fetch(d) PROVE UNCHANGED config /\ (d # c => UNCHANGED <<rpc[c], todo[c], read[c], result[c], req[c]>>)
  <2>1. rpc[d] = "fetch" /\ UNCHANGED <<config, req>> BY <1>4, FetchCases
  <2>2. todo[d] # <<>> BY <2>1, Asking
  <2>3. CASE (\E snap : Took(d, snap)) \/ Lacked(d) BY <2>1, <2>2, <2>3, NextPlace
  <2>4. CASE UNCHANGED <<rpc, todo, read, result>> BY <2>1, <2>4
  <2> QED BY <1>4, <2>3, <2>4, FetchCases DEF FetchFailed, FetchSucceeded
<1>5. ASSUME NEW d \in Callers, Join(d) PROVE UNCHANGED config /\ (d # c => UNCHANGED <<rpc[c], todo[c], read[c], result[c], req[c]>>)
  <2>1. rpc[d] = "join" /\ UNCHANGED <<config, req>> /\ ((\E snap : Took(d, snap)) \/ Lacked(d)) BY <1>5, JoinCases
  <2>2. todo[d] # <<>> BY <2>1, Asking
  <2> QED BY <2>1, <2>2, NextPlace
<1>6. ASSUME NEW d \in Callers, RefreshOptional(d) \/ Lookup(d) \/ Fill(d)
      PROVE  UNCHANGED config /\ (d # c => UNCHANGED <<rpc[c], todo[c], read[c], result[c], req[c]>>)
      BY <1>0, <1>6 DEF RefreshOptional, Lookup, Fill, Finish, RPC, pathVars
<1> QED BY <1>1, <1>2, <1>3, <1>4, <1>5, <1>6, StepCases

\* A lookup that took a snapshot asks for the next one, or has its answer.
LEMMA LookupTook ==
    ASSUME Typed, NEW c \in Callers, NEW snap, todo[c] # <<>>, req[c].op \in Named, Took(c, snap)
    PROVE  \/ rpc'[c] = "demand" /\ UNCHANGED result
           \/ rpc'[c] = "done" /\ result'[c] = "error"
           \/ rpc'[c] = "done" /\ result'[c] = "ok" /\ ~(Len(todo[c]) > 1) /\ AnswerOf(req[c], read'[c]) # NotFound
<1> DEFINE snaps == read[c] \cup {[ns |-> Head(todo[c]).ns, snap |-> snap]}
<1>0. /\ rpc \in [Callers -> ResolverPlaces] /\ DOMAIN result = Callers /\ DOMAIN read = Callers
      /\ req[c].op # "refresh" /\ req[c].op \notin {"cached", "cachedRefresh"}
      BY DEF Typed, Named
<1>1. CASE Len(todo[c]) > 1 BY <1>0, <1>1 DEF Took, RPC
<1>2. CASE ~(Len(todo[c]) > 1)
  <2>1. read'[c] = snaps BY <1>0 DEF Took
  <2> HIDE DEF snaps
  <2>2. IF AnswerOf(req[c], snaps) = NotFound THEN Finish(c, "error") ELSE Finish(c, "ok")
        BY <1>0, <1>2 DEF Took, snaps
  <2> QED BY <1>0, <1>2, <2>1, <2>2 DEF Finish, RPC
<1> QED BY <1>1, <1>2

\* A lookup that took the snapshot it asked for, or lacks it, goes on.
LEMMA PursuitGoesOn ==
    ASSUME Base, UNCHANGED <<config, req>>, NEW c \in Callers, req[c].op \in Named, Pursuing(c),
           rpc[c] \in {"demand", "fetch", "join"}, (\E snap : Took(c, snap)) \/ Lacked(c)
    PROVE  Pursuing(c)'
<1> DEFINE ns0 == Head(todo[c]).ns
<1>0. /\ rpc \in [Callers -> ResolverPlaces] /\ todo \in [Callers -> Seq(Plans)]
      /\ DOMAIN read = Callers /\ DOMAIN result = Callers
      BY DEF Base, Typed
<1>1. todo[c] # <<>> /\ todo[c] \in Seq(Plans) /\ ns0 \in Namespaces BY Asking
<1>2. result[c] # "ok" BY DEF Pursuing
<1>3. Ahead(c, ns0) /\ \A ns : (\E k \in DOMAIN Tail(todo[c]) : Tail(todo[c])[k].ns = ns) => Ahead(c, ns)
      BY <1>1, TailFacts DEF Ahead
<1>4. \A ns : Ahead(c, ns) => ns = ns0 \/ \E k \in DOMAIN Tail(todo[c]) : Tail(todo[c])[k].ns = ns
  <2>0. ns0 = todo[c][1].ns BY <1>1, TailFacts
  <2> SUFFICES ASSUME NEW k \in DOMAIN todo[c], k # 1
               PROVE  k - 1 \in DOMAIN Tail(todo[c]) /\ Tail(todo[c])[k - 1] = todo[c][k]
    <3> HIDE DEF ns0
    <3> QED BY <2>0 DEF Ahead
  <2>1. Len(todo[c]) \in Nat /\ k \in 1..Len(todo[c]) /\ Len(Tail(todo[c])) = Len(todo[c]) - 1 /\ Tail(todo[c]) \in Seq(Plans)
        BY <1>1
  <2>2. k - 1 \in 1..Len(Tail(todo[c])) BY <2>1
  <2>3. k - 1 \in DOMAIN Tail(todo[c]) BY <2>1, <2>2
  <2>4. Tail(todo[c])[k - 1] = todo[c][(k - 1) + 1] BY <1>1, <2>3, TailFacts
  <2> QED BY <2>1, <2>3, <2>4
<1>5. ~(Len(todo[c]) > 1) => ~\E k \in DOMAIN Tail(todo[c]) : TRUE
  <2>1. Len(todo[c]) \in Nat /\ Len(Tail(todo[c])) = Len(todo[c]) - 1 /\ DOMAIN Tail(todo[c]) = 1..Len(Tail(todo[c])) BY <1>1
  <2> QED BY <2>1
<1>6. CASE Lacked(c)
  <2>1. UNCHANGED read /\ todo' = [todo EXCEPT ![c] = Tail(todo[c])] /\ rpc'[c] = "done" /\ result'[c] = "error"
        BY <1>0, <1>1, <1>6, LackedFacts DEF Named, Base
  <2>2. Ahead(c, "outcome")' => Ahead(c, "outcome") BY <1>0, <1>3, <2>1 DEF Ahead
  <2> QED BY <2>1, <2>2 DEF Pursuing
<1>7. ASSUME NEW snap, Took(c, snap) PROVE Pursuing(c)'
  <2>1. /\ read'[c] = read[c] \cup {[ns |-> ns0, snap |-> snap]} /\ todo'[c] = Tail(todo[c])
        BY <1>0, <1>1, <1>7, TookFacts DEF Base
  <2>2. Ahead(c, "outcome")' => Ahead(c, "outcome") BY <1>3, <2>1 DEF Ahead
  <2>3. \A s \in read'[c] : s.ns \in Namespaces /\ (s.ns = "outcome" => config.outcomes)
        BY <1>1, <1>3, <2>1 DEF Pursuing
  <2>4. \A ns : Given(c, ns) \/ Ahead(c, ns) => Given(c, ns)' \/ Ahead(c, ns)' BY <1>4, <2>1 DEF Given, Ahead
  <2>5. ~(Len(todo[c]) > 1) => \A ns : ~Ahead(c, ns)' BY <1>5, <2>1 DEF Ahead
  <2>6. \A ns : Wanted(ns, req[c].id)' <=> Wanted(ns, req[c].id) BY DEF Wanted
  <2>7. read'[c] # {} BY <2>1
  <2> QED BY <1>1, <1>2, <1>7, <2>2, <2>3, <2>4, <2>5, <2>6, <2>7, LookupTook DEF Pursuing, Base
<1> QED BY <1>6, <1>7

\* Begin: a lookup sets out with the whole of its plan, unless it is refused.
LEMMA PursuitBegins ==
    ASSUME Base, NEW c \in Callers, Begin(c), req'[c].op \in Named
    PROVE  Pursuing(c)'
<1>0. /\ rpc \in [Callers -> ResolverPlaces] /\ todo \in [Callers -> Seq(Plans)]
      /\ DOMAIN req = Callers /\ DOMAIN result = Callers
      BY DEF Base, Typed
<1>1. rpc[c] = "idle" /\ UNCHANGED <<read, config>> BY BeginFacts
<1>2. PlacedAt(c) BY DEF Base, Placed
<1>3. read'[c] = {} /\ todo[c] = <<>> /\ result[c] = "none" BY <1>1, <1>2 DEF PlacedAt
<1>4. PICK r \in Requests(config, c) :
        /\ req' = [req EXCEPT ![c] = r]
        /\ CASE r.op = "send" -> RPC(c, "path") /\ UNCHANGED <<todo, result>>
             [] r.op # "send" /\ RefusedMarket(r) -> Finish(c, "error") /\ UNCHANGED todo
             [] OTHER -> /\ RPC(c, IF r.op = "cached" THEN "lookup" ELSE "demand")
                         /\ todo' = [todo EXCEPT ![c] = PlanOf(r)] /\ UNCHANGED result
      BY DEF Begin
<1>5. req'[c] = r /\ r.op \in Named /\ r.op # "send" /\ r.op # "cached" BY <1>0, <1>4 DEF Named
<1>6. CASE RefusedMarket(r)
  <2>1. rpc'[c] = "done" /\ result'[c] = "error" /\ todo'[c] = <<>> BY <1>0, <1>3, <1>4, <1>5, <1>6 DEF Finish, RPC
  <2>2. ~Ahead(c, "outcome")' BY <2>1 DEF Ahead
  <2> QED BY <1>3, <2>1, <2>2 DEF Pursuing
<1>7. CASE ~RefusedMarket(r)
  <2>1. rpc'[c] = "demand" /\ result'[c] = "none" /\ todo'[c] = PlanOf(r)
        BY <1>0, <1>3, <1>4, <1>5, <1>7 DEF RPC
  <2>2. Ahead(c, "outcome")' => config'.outcomes BY <1>1, <1>5, <1>7, <2>1, PlanNamespaces DEF Ahead
  <2>3. r.op = "id" => \A ns \in Namespaces : Wanted(ns, r.id) => Ahead(c, ns)'
        BY <1>5, <1>7, <2>1, PlanNamespaces DEF Ahead
  <2>4. \A ns : Wanted(ns, r.id)' <=> Wanted(ns, r.id) BY <1>1 DEF Wanted
  <2> QED BY <1>3, <1>5, <2>1, <2>2, <2>3, <2>4 DEF Pursuing
<1> QED BY <1>6, <1>7

\* A lookup, step by step, of any caller.
LEMMA PursuingStep == Base /\ AllPursuing /\ [Next]_vars => AllPursuing'
<1> SUFFICES ASSUME Base, AllPursuing, [Next]_vars, NEW c \in Callers, req'[c].op \in Named
             PROVE  Pursuing(c)'
    BY DEF AllPursuing
<1>0. rpc \in [Callers -> ResolverPlaces] /\ UNCHANGED config BY OwnStep DEF Base, Typed
<1>1. CASE Begin(c) BY <1>1, PursuitBegins
<1>2. ASSUME req'[c] = req[c], UNCHANGED <<todo[c], read[c], result[c]>>,
             \/ rpc'[c] = rpc[c]
             \/ rpc[c] \in {"demand", "fetch", "join"} /\ rpc'[c] \in {"demand", "fetch", "join"}
      PROVE  Pursuing(c)'
  <2>1. Pursuing(c) BY <1>2 DEF AllPursuing
  <2>2. \A ns : /\ Given(c, ns)' <=> Given(c, ns)
                /\ Ahead(c, ns)' <=> Ahead(c, ns)
                /\ Wanted(ns, req[c].id)' <=> Wanted(ns, req[c].id)
        BY <1>0, <1>2 DEF Given, Ahead, Wanted
  <2> QED BY <1>0, <1>2, <2>1, <2>2 DEF Pursuing
<1>3. ASSUME UNCHANGED req, rpc[c] \in {"demand", "fetch", "join"}, (\E snap : Took(c, snap)) \/ Lacked(c)
      PROVE  Pursuing(c)'
      BY <1>0, <1>3, PursuitGoesOn DEF AllPursuing
<1>4. CASE Demand(c)
  <2>1. rpc[c] = "demand" /\ UNCHANGED req BY <1>4 DEF Demand
  <2>2. CASE \E to \in {"join", "fetch"} : RPC(c, to) /\ UNCHANGED <<todo, read, result>>
    <3>1. rpc'[c] \in {"join", "fetch"} BY <1>0, <2>2 DEF RPC
    <3> QED BY <1>2, <2>1, <2>2, <3>1
  <2> QED BY <1>3, <1>4, <2>1, <2>2, DemandCases
<1>5. CASE Fetch(c)
  <2>1. rpc[c] = "fetch" /\ UNCHANGED req BY <1>5, FetchCases
  <2>2. CASE UNCHANGED <<rpc, todo, read, result>> BY <1>2, <2>1, <2>2
  <2> QED BY <1>3, <1>5, <2>1, <2>2, FetchCases DEF FetchFailed, FetchSucceeded
<1>6. CASE Join(c)
  <2>1. rpc[c] = "join" /\ UNCHANGED req /\ ((\E snap : Took(c, snap)) \/ Lacked(c)) BY <1>6, JoinCases
  <2> QED BY <1>3, <2>1
<1>7. CASE RefreshOptional(c) \/ Lookup(c) \/ Fill(c)
  <2>1. rpc[c] \in {"optional", "lookup", "fill"} /\ UNCHANGED req
        BY <1>7 DEF RefreshOptional, Lookup, Fill, pathVars
  <2> QED BY <2>1 DEF AllPursuing, Pursuing
<1> QED BY <1>1, <1>2, <1>4, <1>5, <1>6, <1>7, OwnStep

\* The index of a whole snapshot, before the server's first update.
LEMMA FirstSnapshot ==
    ASSUME NEW ns \in Namespaces, NEW snap, Whole(ns, snap, 0)
    PROVE  /\ Indexed(SnapshotOf(ns, snap.parts))
           /\ ToSet(SnapshotOf(ns, snap.parts).assets) =
                IF ns = "base" THEN ToSet(BaseSnapshot(0, 0).assets)
                ELSE IF ns = "hip3" THEN ToSet(fetchHIP3(0, 0)) ELSE ToSet(appendOutcomes(0))
<1> DEFINE p == snap.parts
<1>0. 0 \in DOMAIN Universe BY ResolverAssumption, PathAssumption
<1>1. p \in Seq(Nat) /\ Len(p) = Parts(ns) /\ \A i \in DOMAIN p : p[i] <= 0 BY DEF Whole
<1> HIDE DEF p
<1>2. DOMAIN p = 1..Parts(ns) /\ \A i \in DOMAIN p : p[i] \in Nat BY <1>1
<1>3. \A i \in 1..Parts(ns) : p[i] = 0 BY <1>1, <1>2
<1>4. CASE ns = "base"
  <2>1. p[1] = 0 /\ p[2] = 0 BY <1>3, <1>4 DEF Parts
  <2>2. SnapshotOf(ns, p) = BaseSnapshot(0, 0) BY <1>4, <2>1 DEF SnapshotOf
  <2> QED BY <1>0, <1>4, <2>2, BaseIndexed DEF p
<1>5. CASE ns = "hip3"
  <2>1. p[1] = 0 /\ p[2] = 0 BY <1>3, <1>5 DEF Parts
  <2>2. SnapshotOf(ns, p) = indexAssets(fetchHIP3(0, 0)) BY <1>5, <2>1 DEF SnapshotOf
  <2>3. fetchHIP3(0, 0) \in Seq(ToSet(fetchHIP3(0, 0))) BY <1>0, HIP3Assets
  <2> QED BY <1>5, <2>2, <2>3, PlainIndexed DEF p
<1>6. CASE ns = "outcome"
  <2>1. p[1] = 0 BY <1>3, <1>6 DEF Parts
  <2>2. SnapshotOf(ns, p) = indexAssets(appendOutcomes(0)) BY <1>6, <2>1 DEF SnapshotOf
  <2>3. appendOutcomes(0) \in Seq(ToSet(appendOutcomes(0))) BY <1>0, OutcomeAssets
  <2> QED BY <1>6, <2>2, <2>3, PlainIndexed DEF p
<1> QED BY <1>4, <1>5, <1>6 DEF Namespaces

\* What a successful lookup answers, before the server's first update.
LEMMA AnswerKnown ==
    ASSUME Base, AllWhole, AllPursuing, version = 0, NEW c \in Callers, result[c] = "ok", req[c].op \in Named
    PROVE  /\ AnswerOf(req[c], read[c]) \in AllAssets(0)
           /\ req[c].op = "id" => \A b \in AllAssets(0) : b.id = AnswerOf(req[c], read[c]).id =>
                                                             b = AnswerOf(req[c], read[c])
<1> DEFINE r == req[c]
           snaps == read[c]
           Of(s) == SnapshotOf(s.ns, s.snap.parts)
           a == AnswerOf(r, snaps)
<1>1. /\ snaps # {} /\ a # NotFound
      /\ \A s \in snaps : s.ns \in Namespaces /\ (s.ns = "outcome" => config.outcomes)
      /\ r.op = "id" => \A ns \in Namespaces : Wanted(ns, r.id) => \E s \in snaps : s.ns = ns
      BY DEF AllPursuing, Pursuing, Given
<1>2. ASSUME NEW s \in snaps
      PROVE  /\ Indexed(Of(s)) /\ ToSet(Of(s).assets) \subseteq AllAssets(0)
             /\ s.ns = "base" => ToSet(Of(s).assets) = ToSet(BaseSnapshot(0, 0).assets)
             /\ s.ns = "hip3" => ToSet(Of(s).assets) = ToSet(fetchHIP3(0, 0))
             /\ s.ns = "outcome" => ToSet(Of(s).assets) = ToSet(appendOutcomes(0))
  <2>1. s.ns \in Namespaces /\ Whole(s.ns, s.snap, 0) BY <1>1 DEF AllWhole, ReadWhole
  <2>2. /\ Indexed(Of(s))
        /\ ToSet(Of(s).assets) = IF s.ns = "base" THEN ToSet(BaseSnapshot(0, 0).assets)
                                 ELSE IF s.ns = "hip3" THEN ToSet(fetchHIP3(0, 0)) ELSE ToSet(appendOutcomes(0))
        BY <2>1, FirstSnapshot
  <2> HIDE DEF Of
  <2> QED BY <1>1, <2>1, <2>2 DEF AllAssets, Namespaces
<1>3. (CHOOSE s \in snaps : TRUE) \in snaps BY <1>1
<1>4. CASE r.op = "resolve"
  <2>1. a = resolveSymbol(Of(CHOOSE s \in snaps : TRUE), r.symbol) BY <1>4 DEF AnswerOf
  <2> HIDE DEF a, Of, r, snaps
  <2> QED BY <1>1, <1>2, <1>3, <1>4, <2>1, Resolved DEF a, r, snaps
<1>5. CASE r.op = "market"
  <2>1. a = resolveMarket(Of(CHOOSE s \in snaps : TRUE), r.ref) BY <1>5 DEF AnswerOf
  <2> HIDE DEF a, Of, r, snaps
  <2> QED BY <1>1, <1>2, <1>3, <1>5, <2>1, Resolved DEF a, r, snaps
<1>6. CASE r.op = "id"
  <2> DEFINE found == UNION {{[ns |-> s.ns, at |-> f.at, asset |-> f.asset] : f \in byID(Of(s), r.id)} : s \in snaps}
  <2>1. a = OnlyOne(found) BY <1>6 DEF AnswerOf
  <2>2. \A g \in found : \E s \in snaps : \E f \in byID(Of(s), r.id) : g.asset = f.asset OBVIOUS
  <2>3. \A s \in snaps : \A f \in byID(Of(s), r.id) : \E g \in found : g.asset = f.asset
    <3> TAKE s \in snaps
    <3> TAKE f \in byID(Of(s), r.id)
    <3> DEFINE g == [ns |-> s.ns, at |-> f.at, asset |-> f.asset]
    <3>1. g \in found OBVIOUS
    <3>2. g.asset = f.asset OBVIOUS
    <3> QED BY <3>1, <3>2
  <2> HIDE DEF found
  <2>4. PICK g \in found : found = {g} /\ a = g.asset
    <3>1. \E g \in found : found = {g} BY <1>1, <2>1 DEF OnlyOne
    <3>2. PICK g \in found : found = {g} BY <3>1
    <3>3. (CHOOSE f \in found : TRUE) = g BY <3>2
    <3> QED BY <2>1, <3>1, <3>2, <3>3 DEF OnlyOne
  <2>5. a \in AllAssets(0) /\ a.id = r.id
    <3>0. PICK s \in snaps : \E f \in byID(Of(s), r.id) : g.asset = f.asset BY <2>2
    <3>1. PICK f \in byID(Of(s), r.id) : g.asset = f.asset BY <3>0
    <3>2. f.asset \in ToSet(Of(s).assets) /\ f.asset.id = r.id BY <1>2, Lookups
    <3> HIDE DEF a
    <3> QED BY <1>2, <2>4, <3>1, <3>2
  <2>6. ASSUME NEW b \in AllAssets(0), b.id = r.id PROVE b = a
    <3>1. \E s \in snaps : b \in ToSet(Of(s).assets)
      <4>0. 0 \in DOMAIN Universe BY ResolverAssumption, PathAssumption
      <4>1. CASE b \in ToSet(BaseSnapshot(0, 0).assets)
        <5>1. PICK s \in snaps : s.ns = "base" BY <1>1, <1>6 DEF Wanted, Namespaces
        <5> QED BY <1>2, <4>1, <5>1
      <4>2. CASE b \in ToSet(fetchHIP3(0, 0))
        <5>1. HIP3From(r.id) BY <2>6, <4>0, <4>2, HIP3Assets
        <5>2. PICK s \in snaps : s.ns = "hip3" BY <1>1, <1>6, <5>1 DEF Wanted, Namespaces
        <5> QED BY <1>2, <4>2, <5>2
      <4>3. CASE b \in ToSet(appendOutcomes(0)) /\ config.outcomes
        <5>1. OutcomeFrom(r.id) BY <2>6, <4>0, <4>3, OutcomeAssets
        <5>2. PICK s \in snaps : s.ns = "outcome" BY <1>1, <1>6, <4>3, <5>1 DEF Wanted, Namespaces
        <5> QED BY <1>2, <4>3, <5>2
      <4> QED BY <4>1, <4>2, <4>3 DEF AllAssets
    <3>2. PICK s \in snaps : b \in ToSet(Of(s).assets) BY <3>1
    <3>3. PICK f \in byID(Of(s), r.id) : f.asset = b BY <1>2, <2>6, <3>2, Lookups
    <3> HIDE DEF a
    <3> QED BY <2>3, <2>4, <3>3
  <2> QED BY <2>5, <2>6
<1> QED BY <1>4, <1>5, <1>6 DEF Named

\* ResolveID, Resolve and ResolveMarket: while the exchange's metadata does not
\* change, an answer is one of its assets, whoever loaded the snapshots it comes
\* from; and the asset an ID resolves to is the only one, of all namespaces,
\* that has this ID.
THEOREM AnswersUnambiguous == Spec => []IDsUnambiguous
<1>1. Init => Advancing /\ AllWhole /\ AllPursuing
  <2> SUFFICES ASSUME Init PROVE Advancing /\ AllWhole /\ AllPursuing OBVIOUS
  <2>1. Advancing BY AdvancingInit
  <2>2. AllWhole
    <3>1. \A ns \in Namespaces : cache[ns] = NoSnapshot BY DEF Init
    <3>2. \A c \in Callers : inbox[c] = NoResult /\ read[c] = {} BY DEF Init
    <3> QED BY <3>1, <3>2 DEF AllWhole, CacheWhole, InboxWhole, ReadWhole, NoResult
  <2>3. AllPursuing BY DEF Init, PathInit, NoRequest, AllPursuing, Named
  <2> QED BY <2>1, <2>2, <2>3
<1>2. Base /\ AllWhole /\ AllPursuing => IDsUnambiguous BY AnswerKnown DEF IDsUnambiguous, Named
<1> QED BY <1>1, <1>2, BaseInit, BaseStep, AdvancingStep, WholeStep, PursuingStep, PTL DEF Spec
=============================================================================
