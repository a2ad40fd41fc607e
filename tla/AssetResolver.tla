---------------------------- MODULE AssetResolver ----------------------------
(***************************************************************************)
(* asset/meta_resolver.go over the request path, and the CachedResolver of  *)
(* asset/resolver.go over it.  Each namespace has a snapshot and at most    *)
(* one load in flight: its leader fetches, the others join and share the    *)
(* result or the error.  Callers that do not resolve (Info, Exchange and    *)
(* Explorer requests, connection managers) share the limiter with them.     *)
(***************************************************************************)
EXTENDS RequestPath, AssetIndex

CONSTANTS Configs,       \* the settings: clients, callers' requests and bounds
          Menus,         \* the requests of each caller, by the name of the menu
          CacheTTL       \* CachedResolver's TTL; MetaResolver's is config.ttl

VARIABLES rpc,       \* per caller: where it is in the resolver
          todo,      \* per caller: the snapshots still to ask for: [ns, force]
          parts,     \* per leader: the versions its fetch has read
          inbox,     \* per joiner: the result of the load it waits for
          read,      \* per caller: the snapshots it was given
          failed,    \* the Refresh calls with a failed optional namespace
          cache,     \* per namespace: [parts, at], or NoSnapshot
          loading,   \* per namespace: the leader of the load in flight
          entry,     \* CachedResolver's entry: [snap, asset, expires]
          started,   \* per caller: history, when its call began
          renewed,   \* per caller: history, namespaces loaded since it began
          result     \* per caller: "none", "ok" or "error"

resolverVars == <<rpc, todo, parts, inbox, read, failed, cache, loading, entry, started, renewed, result>>
pathVars == <<config, req, ipc, attempt, pause, dials, version, value>>
vars == <<now, cancelled, limiterVars, pathVars, resolverVars>>

NoLoad == "nobody"

\* The requests of a caller; what resolves assets is an Info request, and an action
\* has a number of items.
Requests(s, c) == Menus[s.menu][c]
Resolving == {"resolve", "cached", "cachedRefresh", "refresh", "market", "id"}
ASSUME ResolverAssumption ==
    /\ NoLoad \notin Callers /\ DOMAIN Universe = 0..MaxVersion
    /\ \A s \in Configs : /\ s.policy.attempts \in Int /\ s.policy.base \in Durations /\ s.policy.max \in Durations
                         /\ s.jitters \subseteq Durations /\ (\A h \in s.headers : h.value \in Int)
                         /\ s.limiter \in {"window", "weighted", "interval", "none"}
    /\ \A s \in Configs, c \in Callers : \A r \in Requests(s, c) :
        /\ r.op \in Resolving \cup {"send"}
        /\ r.op # "send" => r.kind = "info"
        /\ r.kind = "action" => r.items \in Nat

Namespaces == {"base", "hip3", "outcome"}
NoSnapshot == [parts |-> <<>>, at |-> -1]
NoResult == [err |-> FALSE, snap |-> NoSnapshot]
NoEntry == [snap |-> NoSnapshot, asset |-> NotFound, expires |-> 0]

\* fetchBase reads meta and spotMeta, fetchHIP3 perpDexs and the meta of each
\* named DEX (one here), fetchOutcomes outcomeMeta.
Parts(ns) == IF ns = "outcome" THEN 1 ELSE 2
SnapshotOf(ns, p) ==
    CASE ns = "base" -> BaseSnapshot(p[1], p[2])
      [] ns = "hip3" -> indexAssets(fetchHIP3(p[1], p[2]))
      [] ns = "outcome" -> indexAssets(appendOutcomes(p[1]))

\* snapshotValidLocked and optionalSnapshotValidLocked: an empty base snapshot is
\* never valid, an empty optional one is.
ValidIgnoringTTL(ns) == cache[ns] # NoSnapshot
Valid(ns) ==
    /\ cache[ns] # NoSnapshot
    /\ ns = "base" => SnapshotOf("base", cache["base"].parts).assets # <<>>
    /\ config.ttl = 0 \/ now < cache[ns].at + config.ttl

----------------------------------------------------------------------------
Plan(ns, force) == [ns |-> ns, force |-> force]
HIP3FromAbove(id) == id > 110000
HIP3From(id) == id >= 100000
OutcomeFrom(id) == id >= 100000000
PlanOf(r) ==
    CASE r.op \in {"resolve", "cached", "cachedRefresh"} -> <<Plan("base", FALSE)>>
      [] r.op = "refresh" -> <<Plan("base", TRUE)>>
      [] r.op = "market" -> <<Plan(IF r.ref.kind = "HIP3" THEN "hip3"
                                   ELSE IF r.ref.kind = "Outcome" THEN "outcome" ELSE "base", FALSE)>>
      [] OTHER -> <<Plan("base", FALSE)>>     \* "id"
                           \o (IF HIP3From(r.id) THEN <<Plan("hip3", FALSE)>> ELSE <<>>)
                           \o (IF OutcomeFrom(r.id) /\ config.outcomes THEN <<Plan("outcome", FALSE)>> ELSE <<>>)
RefusedMarket(r) ==
    r.op = "market" /\ (~validateMarketRef(r.ref) \/ (r.ref.kind = "Outcome" /\ ~config.outcomes))

RPC(c, to) == rpc' = [rpc EXCEPT ![c] = to]
Finish(c, outcome) == RPC(c, "done") /\ result' = [result EXCEPT ![c] = outcome]

Begin(c) ==
    /\ rpc[c] = "idle" /\ now <= config.lastArrival
    /\ \E r \in Requests(config, c) :
        /\ req' = [req EXCEPT ![c] = r]
        /\ started' = [started EXCEPT ![c] = now]
        /\ renewed' = [renewed EXCEPT ![c] = {}]
        /\ CASE r.op = "send" ->
                  /\ RPC(c, "path")
                  /\ IF r.kind = "message" THEN IPC(c, "dial") /\ UNCHANGED limiterVars
                     ELSE IPC(c, "do") /\ TransportDo(c, r)
                  /\ UNCHANGED <<todo, result>>
             [] r.op # "send" /\ RefusedMarket(r) -> Finish(c, "error") /\ UNCHANGED <<ipc, todo, limiterVars>>
             [] OTHER -> /\ RPC(c, IF r.op = "cached" THEN "lookup" ELSE "demand")
                         /\ todo' = [todo EXCEPT ![c] = PlanOf(r)]
                         /\ UNCHANGED <<ipc, result, limiterVars>>
    /\ UNCHANGED <<now, cancelled, config, attempt, pause, dials, version, value,
                   parts, inbox, read, failed, cache, loading, entry>>

----------------------------------------------------------------------------
(* What a caller does with the outcome of the snapshot it asked for. *)

AnswerOf(r, snaps) ==
    LET Of(s) == SnapshotOf(s.ns, s.snap.parts)
        one == CHOOSE s \in snaps : TRUE
    IN CASE r.op \in {"resolve", "cached", "cachedRefresh"} -> resolveSymbol(Of(one), r.symbol)
         [] r.op = "market" -> resolveMarket(Of(one), r.ref)
         [] r.op = "id" -> OnlyOne(UNION {{[ns |-> s.ns, at |-> f.at, asset |-> f.asset] : f \in byID(Of(s), r.id)} :
                                             s \in snaps})
         [] OTHER -> NotFound

Took(c, snap) ==
    LET snaps == read[c] \cup {[ns |-> Head(todo[c]).ns, snap |-> snap]}
        r == req[c]
    IN /\ read' = [read EXCEPT ![c] = snaps]
       /\ todo' = [todo EXCEPT ![c] = Tail(todo[c])]
       /\ UNCHANGED failed
       /\ CASE r.op = "refresh" /\ Head(todo[c]).ns = "base" -> RPC(c, "optional") /\ UNCHANGED result
            [] ~(r.op = "refresh" /\ Head(todo[c]).ns = "base") /\ Len(todo[c]) > 1 ->
                 RPC(c, "demand") /\ UNCHANGED result
            [] OTHER ->
                 IF r.op = "refresh" THEN Finish(c, IF c \in failed THEN "error" ELSE "ok")
                 ELSE IF AnswerOf(r, snaps) = NotFound THEN Finish(c, "error")
                 ELSE IF r.op \in {"cached", "cachedRefresh"} THEN RPC(c, "fill") /\ UNCHANGED result
                 ELSE Finish(c, "ok")

\* A failed optional namespace does not keep Refresh from the next one.
Lacked(c) ==
    LET optional == req[c].op = "refresh" /\ Head(todo[c]).ns # "base"
    IN /\ todo' = [todo EXCEPT ![c] = Tail(todo[c])]
       /\ failed' = IF optional THEN failed \cup {c} ELSE failed
       /\ UNCHANGED read
       /\ IF optional /\ Len(todo[c]) > 1 THEN RPC(c, "demand") /\ UNCHANGED result
          ELSE Finish(c, "error")

----------------------------------------------------------------------------
(* snapshot and optionalSnapshot. *)

InFlightUnseen(ns) == FALSE
LoadInFlight(ns) == loading[ns] # NoLoad
Demand(c) ==
    LET ns == Head(todo[c]).ns
    IN /\ rpc[c] = "demand"
       /\ UNCHANGED <<now, cancelled, limiterVars, config, req, attempt, pause, dials, version, value,
                      inbox, cache, entry, started, renewed>>
       /\ CASE c \in cancelled -> Lacked(c) /\ UNCHANGED <<ipc, parts, loading>>
            [] c \notin cancelled /\ ~Head(todo[c]).force /\ Valid(ns) ->
                 Took(c, cache[ns]) /\ UNCHANGED <<ipc, parts, loading>>
            [] c \notin cancelled /\ (Head(todo[c]).force \/ ~Valid(ns)) /\ LoadInFlight(ns) ->
                 RPC(c, "join") /\ UNCHANGED <<ipc, parts, loading, todo, read, failed, result>>
            [] OTHER ->
                 /\ loading' = [loading EXCEPT ![ns] = c]
                 /\ parts' = [parts EXCEPT ![c] = <<>>]
                 /\ IPC(c, "call") /\ RPC(c, "fetch")
                 /\ UNCHANGED <<todo, read, failed, result>>

\* The leader's critical section after its fetch.
Waiting(c) == {j \in Callers : rpc[j] = "join" /\ Head(todo[j]).ns = Head(todo[c]).ns /\ inbox[j] = NoResult}
Deliver(c, load) == inbox' = [j \in Callers |-> IF j \in Waiting(c) THEN load ELSE inbox[j]]
FetchSucceeded(c, p) ==
    LET ns == Head(todo[c]).ns
        snap == [parts |-> p, at |-> now]
    IN /\ cache' = [cache EXCEPT ![ns] = snap]
       /\ loading' = [loading EXCEPT ![ns] = NoLoad]
       /\ renewed' = [d \in Callers |-> IF rpc[d] \in {"idle", "done"} THEN renewed[d] ELSE renewed[d] \cup {ns}]
       /\ Deliver(c, [err |-> FALSE, snap |-> snap])
       /\ Took(c, snap)
FetchFailed(c) ==
    /\ loading' = [loading EXCEPT ![Head(todo[c]).ns] = NoLoad]
    /\ Deliver(c, [err |-> TRUE, snap |-> NoSnapshot])
    /\ Lacked(c)
    /\ UNCHANGED <<cache, renewed>>
Fetch(c) ==
    LET ns == Head(todo[c]).ns
        p == Append(parts[c], value[c])
        complete == Len(p) = Parts(ns)
    IN /\ rpc[c] = "fetch"
       /\ value' = [value EXCEPT ![c] = 0]
       /\ UNCHANGED <<now, cancelled, limiterVars, config, req, attempt, pause, dials, version, entry, started>>
       /\ \/ ipc[c] = "error" /\ FetchFailed(c) /\ IPC(c, "idle") /\ UNCHANGED parts
          \/ /\ ipc[c] = "ok" /\ ~complete
             /\ parts' = [parts EXCEPT ![c] = p] /\ IPC(c, "call")
             /\ UNCHANGED <<rpc, todo, inbox, read, failed, cache, loading, renewed, result>>
          \/ /\ ipc[c] = "ok" /\ complete
             /\ IPC(c, "idle") /\ UNCHANGED parts
             /\ IF ns = "base" /\ ~KnownTokens(value[c]) THEN FetchFailed(c) ELSE FetchSucceeded(c, p)

\* A joiner shares a success as it was loaded; after a failure only an ordinary
\* read may fall back on a snapshot that is still valid.
JoinFallsBack(c) == Valid(Head(todo[c]).ns)
JoinMayFallBack(c) == ~Head(todo[c]).force /\ Valid(Head(todo[c]).ns)
Join(c) ==
    LET ns == Head(todo[c]).ns
    IN /\ rpc[c] = "join"
       /\ inbox' = [inbox EXCEPT ![c] = NoResult]
       /\ UNCHANGED <<now, cancelled, limiterVars, pathVars, parts, cache, loading, entry, started, renewed>>
       /\ \/ c \in cancelled /\ Lacked(c)
          \/ inbox[c].snap # NoSnapshot /\ Took(c, inbox[c].snap)
          \/ inbox[c].err /\ (IF JoinMayFallBack(c) THEN Took(c, cache[ns]) ELSE Lacked(c))

\* Refresh then forces every optional namespace that was ever loaded.
RefreshOptional(c) ==
    LET more == (IF cache["hip3"] # NoSnapshot THEN <<Plan("hip3", TRUE)>> ELSE <<>>)
                    \o (IF config.outcomes /\ cache["outcome"] # NoSnapshot THEN <<Plan("outcome", TRUE)>> ELSE <<>>)
    IN /\ rpc[c] = "optional"
       /\ IF more = <<>> THEN Finish(c, "ok") /\ UNCHANGED todo
          ELSE RPC(c, "demand") /\ todo' = [todo EXCEPT ![c] = more] /\ UNCHANGED result
       /\ UNCHANGED <<now, cancelled, limiterVars, pathVars, parts, inbox, read, failed, cache, loading, entry,
                      started, renewed>>

----------------------------------------------------------------------------
(* CachedResolver: look, release the lock, ask the source, fill. *)

Lookup(c) ==
    /\ rpc[c] = "lookup"
    /\ CASE c \in cancelled -> Finish(c, "error") /\ UNCHANGED read
         [] c \notin cancelled /\ now < entry.expires ->
              /\ read' = [read EXCEPT ![c] = {[ns |-> "entry", snap |-> entry.snap]}]
              /\ Finish(c, "ok")
         [] OTHER -> RPC(c, "demand") /\ UNCHANGED <<read, result>>
    /\ UNCHANGED <<now, cancelled, limiterVars, pathVars, todo, parts, inbox, failed, cache, loading, entry,
                   started, renewed>>
Fill(c) ==
    /\ rpc[c] = "fill"
    /\ entry' = [snap |-> (CHOOSE s \in read[c] : TRUE).snap, asset |-> AnswerOf(req[c], read[c]),
                 expires |-> now + CacheTTL]
    /\ Finish(c, "ok")
    /\ UNCHANGED <<now, cancelled, limiterVars, pathVars, todo, parts, inbox, read, failed, cache, loading,
                   started, renewed>>

----------------------------------------------------------------------------
Returned(c) == rpc[c] = "done" \/ (rpc[c] = "path" /\ ipc[c] \in {"ok", "error"})
Cancel(c) ==
    /\ c \in config.cancel \ cancelled /\ rpc[c] # "idle" /\ ~Returned(c)
    /\ cancelled' = cancelled \cup {c}
    /\ UNCHANGED <<now, limiterVars, pathVars, resolverVars>>
ServerUpdates ==
    /\ config.updates /\ version < MaxVersion
    /\ version' = version + 1
    /\ UNCHANGED <<now, cancelled, limiterVars, config, req, ipc, attempt, pause, dials, value, resolverVars>>
\* The clock runs up to config.horizon, and beyond it as long as a timer is set.
TimerSet == \E c \in Callers : (lpc[c] = "select" /\ timer[c] > now)
                               \/ (ipc[c] = "pause" /\ pause[c].at + pause[c].delay > now)
ClockTick == (now < config.horizon \/ TimerSet) /\ Tick /\ UNCHANGED <<cancelled, limiterVars, pathVars, resolverVars>>

Init ==
    /\ PathInit
    /\ config \in Configs
    /\ limiter = config.limiter
    /\ rpc = [c \in Callers |-> "idle"]
    /\ todo = [c \in Callers |-> <<>>]
    /\ parts = [c \in Callers |-> <<>>]
    /\ inbox = [c \in Callers |-> NoResult]
    /\ read = [c \in Callers |-> {}]
    /\ failed = {}
    /\ cache = [ns \in Namespaces |-> NoSnapshot]
    /\ loading = [ns \in Namespaces |-> NoLoad]
    /\ entry = NoEntry
    /\ started = [c \in Callers |-> 0]
    /\ renewed = [c \in Callers |-> {}]
    /\ result = [c \in Callers |-> "none"]

CallerStep(c) ==
    \/ Begin(c) \/ Demand(c) \/ Fetch(c) \/ Join(c) \/ RefreshOptional(c) \/ Lookup(c) \/ Fill(c)
    \/ RequestStep(c) /\ UNCHANGED resolverVars
    \/ WaitStep(c) /\ UNCHANGED <<now, cancelled, pathVars, resolverVars>>
Next == (\E c \in Callers : CallerStep(c) \/ Cancel(c)) \/ ServerUpdates \/ ClockTick

\* Time passes, and a goroutine inside a call keeps running: every attempt ends,
\* by an answer or by the timeout of the call's context.
Fairness == WF_vars(ClockTick) /\ \A c \in Callers : WF_vars(rpc[c] # "idle" /\ CallerStep(c))
Spec == Init /\ [][Next]_vars /\ Fairness

----------------------------------------------------------------------------
TypeOK ==
    /\ now \in Nat /\ config \in Configs /\ version \in 0..MaxVersion
    /\ \A c \in Callers :
        /\ rpc[c] \in {"idle", "path", "lookup", "demand", "fetch", "join", "optional", "fill", "done"}
        /\ ipc[c] \in {"idle", "call", "do", "pause", "dial", "ok", "error"}
        /\ lpc[c] \in {"idle", "top", "select", "granted", "failed"}
        /\ (rpc[c] = "done") = (result[c] # "none")
        /\ rpc[c] \in {"demand", "fetch", "join"} => todo[c] # <<>>
    /\ tokens <= Capacity /\ IsInjective(queue)

\* One load at a time: a snapshot is never replaced by one whose parts the server
\* had already superseded when the replaced one was read.
SnapshotsAdvance ==
    [][\A ns \in Namespaces : \A i \in DOMAIN cache[ns].parts : cache'[ns].parts[i] >= cache[ns].parts[i]]_vars

\* Refresh reports success only when a load that ended after it began replaced the
\* base snapshot, and every optional one it was to refresh: another caller's
\* failure is never turned into a silent success.
RefreshIsReal ==
    \A c \in Callers : req[c].op = "refresh" /\ result[c] = "ok" =>
        {"base"} \cup {s.ns : s \in read[c]} \subseteq renewed[c]

\* A snapshot a read is given is within its TTL, or was loaded during the call,
\* whether the caller led the load, joined it or fell back after its failure.
FreshAnswers ==
    [][\A c \in Callers : \A s \in read'[c] \ read[c] : s.ns # "entry" =>
            config.ttl = 0 \/ s.snap.at >= started[c] \/ now < s.snap.at + config.ttl]_vars

\* While the exchange's metadata does not change, an asset ID that ResolveID
\* answers belongs to that market alone, among all namespaces, and is the ID the
\* symbol and market lookups give to it: an order cannot reach another market.
AllAssets(v) ==
    ToSet(BaseSnapshot(v, v).assets) \cup ToSet(fetchHIP3(v, v))
        \cup (IF config.outcomes THEN ToSet(appendOutcomes(v)) ELSE {})
IDsUnambiguous ==
    \A c \in Callers : version = 0 /\ result[c] = "ok" /\ req[c].op \in {"id", "resolve", "market"} =>
        LET a == AnswerOf(req[c], read[c])
        IN /\ a \in AllAssets(0)
           /\ req[c].op = "id" => \A b \in AllAssets(0) : b.id = a.id => b = a

\* Every call returns: nobody waits for a slot, a channel or a load for ever.
CallersReturn == \A c \in Callers : (rpc[c] # "idle") ~> Returned(c)
=============================================================================
