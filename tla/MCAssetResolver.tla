-------------------------- MODULE MCAssetResolver --------------------------
(* Instances of AssetResolver for TLC: each setting lets some of the callers *)
(* make one call each, so that their state spaces add and do not multiply.   *)
EXTENDS AssetResolver

Metadata(perps, pairs) ==
    [perps |-> perps, tokens |-> [i \in 0..1 |-> <<"USDC", "HYPE">>[i + 1]], pairs |-> pairs,
     dexes |-> <<[name |-> "", universe |-> <<>>], [name |-> "dx", universe |-> <<<<"dx", "GOLD">>>>]>>,
     outcomes |-> <<[outcome |-> -1, sides |-> 2], [outcome |-> 5, sides |-> 2], [outcome |-> 6, sides |-> 3]>>]
Pair(index, name, sides) == [index |-> index, name |-> name, tokens |-> sides]
\* Version 1 is empty, version 2 lists a pair whose token is unknown.
MCUniverse == [v \in 0..2 |->
    CASE v = 0 -> Metadata(<<<<"BTC">>, <<"PURR">>>>,
                           <<Pair(0, <<"PURR">>, <<1, 0>>), Pair(7, <<"@7">>, <<1, 0>>), Pair(100000, <<"@9">>, <<0, 1>>)>>)
      [] v = 1 -> Metadata(<<>>, <<>>)
      [] OTHER -> Metadata(<<<<"BTC">>>>, <<Pair(0, <<"@7">>, <<4, 0>>)>>)]

Sending(kind, type, items, depth) == [op |-> "send", kind |-> kind, type |-> type, items |-> items, depth |-> depth]
Info(type) == Sending("info", type, 0, 0)
Meta(op) == [op |-> op, kind |-> "info", type |-> "meta"]
Symbol(op, symbol) == [op |-> op, kind |-> "info", type |-> "meta", symbol |-> symbol]
Market(kind, dex, symbol) ==
    [op |-> "market", kind |-> "info", type |-> "meta", ref |-> [kind |-> kind, dex |-> dex, symbol |-> symbol]]
ByID(id) == [op |-> "id", kind |-> "info", type |-> "meta", id |-> id]
Menu(one, two, three) == [c1 |-> one, c2 |-> two, c3 |-> three]
Writer == Sending("message", "subscribe", 0, 0)
Block == Sending("explorer", "blockList", 0, 0)
Batch == Sending("action", "order", 80, 0)
BTC(op) == Symbol(op, <<"BTC">>)
Lookups == {BTC("resolve"), Symbol("resolve", <<"PURR">>), Symbol("resolve", <<"HYPE", "USDC">>),
            Symbol("cached", <<"@7">>), Market("Perp", "", <<"PURR">>), Market("Spot", "", <<"PURR">>),
            Market("Spot", "dx", <<"PURR">>), Market("HIP3", "", <<"dx", "GOLD">>), Market("HIP3", "dx", <<"dx", "GOLD">>),
            Market("Outcome", "", <<"#", 51>>), Market("Outcome", "", <<"#", 55>>), Meta("refresh")}
               \cup {ByID(id) : id \in {0, 10007, 110000, 100000051, 5}}
MCMenus ==
    [writers |-> Menu({Writer}, {Writer}, {Writer}),
     one_writer |-> Menu({Writer}, {}, {}),
     queue |-> Menu({Block, Info("userFills"), Info("userRole")}, {Info("userFills")}, {Batch, Info("l2Book")}),
     retry |-> Menu({Info("userFills"), Info("userRole")}, {Info("l2Book")}, {}),
     one_call |-> Menu({Info("meta")}, {}, {}),
     loads |-> Menu({Meta("refresh"), BTC("resolve")}, {Meta("refresh"), BTC("resolve")}, {}),
     joins |-> Menu({Meta("refresh")}, {Meta("refresh"), BTC("resolve")}, {BTC("resolve")}),
     cached |-> Menu({BTC("cached")}, {BTC("cached"), BTC("cachedRefresh")}, {}),
     optional |-> Menu({Meta("refresh")}, {Market("HIP3", "dx", <<"dx", "GOLD">>), ByID(100000051)}, {}),
     lookups |-> Menu(Lookups, {}, {Meta("refresh")}),
     shared |-> Menu({BTC("resolve")}, {Meta("refresh")}, {})]

Setting(menu, l) ==
    [limiter |-> l, ws |-> FALSE, policy |-> [attempts |-> 1, base |-> 1, max |-> 1], jitters |-> {0},
     headers |-> {NoHeader}, ttl |-> 1, outcomes |-> TRUE, updates |-> FALSE, cancel |-> {"c1"},
     horizon |-> 0, lastArrival |-> 0, dials |-> 0, menu |-> menu]
WindowSetting == [Setting("writers", "window") EXCEPT !.horizon = 2, !.lastArrival = 2]
QueueSetting(l) == [Setting("queue", l) EXCEPT !.horizon = 1]
RetrySetting(l) == [Setting("retry", l) EXCEPT !.policy.attempts = 2, !.horizon = 1]
LoadSetting == [Setting("loads", "none") EXCEPT !.updates = TRUE, !.horizon = 1, !.lastArrival = 1]
JoinSetting == Setting("joins", "none")
CachedSetting == [Setting("cached", "none") EXCEPT !.cancel = {}, !.horizon = 1, !.lastArrival = 1]
OptionalSetting == [Setting("optional", "none") EXCEPT !.cancel = {}]
LookupSetting(outcomes) ==
    [Setting("lookups", "none") EXCEPT !.outcomes = outcomes, !.ttl = IF outcomes THEN 2 ELSE 0, !.cancel = {}]
SharedSetting == [Setting("shared", "weighted") EXCEPT !.horizon = 1]

Policy3(base, max) == [attempts |-> 3, base |-> base, max |-> max]
Policies == {Policy3(-1, 0), Policy3(4, 7), Policy3(1, 3), Policy3(4, 3)}
Headers == {NoHeader} \cup [form : {"seconds"}, value : {-1, 0, 3, 4}] \cup [form : {"date"}, value : {-1, 2, 7}]
PolicySettings ==
    {[Setting("one_call", "none") EXCEPT !.policy = p, !.ws = w, !.headers = h, !.jitters = j] :
        p \in Policies \cup {[attempts |-> 0, base |-> 4, max |-> 7]}, w \in BOOLEAN,
        h \in {{NoHeader}, Headers}, j \in {{0}, {-2, 5}}}
ReconnectSettings ==
    {[Setting("one_writer", "window") EXCEPT !.policy = p, !.jitters = j, !.dials = 3] :
        p \in Policies, j \in {{}, {-2, 5}}}

MCConfigs == {WindowSetting, QueueSetting("weighted"), QueueSetting("interval"), RetrySetting("weighted"),
              RetrySetting("interval"), LoadSetting, JoinSetting, CachedSetting, OptionalSetting, LookupSetting(TRUE),
              LookupSetting(FALSE), SharedSetting} \cup PolicySettings \cup ReconnectSettings
=============================================================================
