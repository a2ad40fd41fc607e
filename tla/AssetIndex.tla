----------------------------- MODULE AssetIndex -----------------------------
(***************************************************************************)
(* asset/: how metadata becomes assets, and how a symbol, an explicit       *)
(* market or a protocol ID picks one.  Metadata of one server version is    *)
(* Universe[v]: [perps, tokens, pairs, dexes, outcomes].  A symbol is the   *)
(* sequence of its parts: <<"BTC">>, the alias <<"HYPE", "USDC">>, the      *)
(* HIP-3 name <<dex, coin>>, the outcome <<"#", encoding>>.                 *)
(***************************************************************************)
EXTENDS Integers, Sequences, SequencesExt, FiniteSetsExt

CONSTANT Universe
ASSUME UniverseAssumption ==
    \A v \in DOMAIN Universe : LET u == Universe[v] IN
        /\ u.perps \in Seq(ToSet(u.perps)) /\ u.pairs \in Seq(ToSet(u.pairs)) /\ u.dexes \in Seq(ToSet(u.dexes))
        /\ \A i \in DOMAIN u.dexes : u.dexes[i].universe \in Seq(ToSet(u.dexes[i].universe))
        /\ u.outcomes \in Seq(ToSet(u.outcomes)) /\ \A i \in DOMAIN u.outcomes : u.outcomes[i].outcome \in Int

Asset(id, symbol, kind, dex) == [id |-> id, symbol |-> symbol, kind |-> kind, dex |-> dex]

appendPerps(universe, dex, offset, kind) ==
    [i \in DOMAIN universe |-> Asset(offset + i - 1, universe[i], kind, dex)]

\* A pair names two token indexes; an unknown one fails the whole load.
KnownTokens(v) == \A i \in DOMAIN Universe[v].pairs :
    ToSet(Universe[v].pairs[i].tokens) \subseteq DOMAIN Universe[v].tokens
SpotAssets(v) ==
    [i \in DOMAIN Universe[v].pairs |->
        Asset(10000 + Universe[v].pairs[i].index, Universe[v].pairs[i].name, "Spot", "")]

\* The BASE/QUOTE alias of a pair, when it is not its name.
AliasOf(v, i) == LET t == Universe[v].pairs[i].tokens
                 IN <<Universe[v].tokens[t[1]], Universe[v].tokens[t[2]]>>

\* A nil or nameless DEX keeps its index but has no markets.
fetchHIP3(list, v) ==
    FlattenSeq([i \in DOMAIN Universe[list].dexes |->
        IF Universe[list].dexes[i].name = "" THEN <<>>
        ELSE appendPerps(Universe[v].dexes[i].universe, Universe[list].dexes[i].name,
                         100000 + (i - 1) * 10000, "HIP3")])

\* A side of an outcome is encoded in its symbol and its ID.
OutcomeAsset(encoding) == Asset(100000000 + encoding, <<"#", encoding>>, "Outcome", "")
appendOutcomes(v) ==
    FlattenSeq([i \in DOMAIN Universe[v].outcomes |->
        LET o == Universe[v].outcomes[i]
        IN IF o.outcome < 0 \/ o.sides # 2 THEN <<>> ELSE [s \in 1..2 |-> OutcomeAsset(o.outcome * 10 + s - 1)]])

\* A snapshot is [assets, aliases]: the assets in order, and the aliased ones with
\* their place among the pairs.
indexAssets(assets) == [assets |-> assets, aliases |-> {}]
BaseSnapshot(perps, spot) ==
    [assets |-> appendPerps(Universe[perps].perps, "", 0, "Perp") \o SpotAssets(spot),
     aliases |-> {[at |-> i, alias |-> AliasOf(spot, i), asset |-> SpotAssets(spot)[i]] :
                     i \in {j \in DOMAIN Universe[spot].pairs : AliasOf(spot, j) # Universe[spot].pairs[j].name}}]

\* What an index holds under a key, each asset at its place: aliases come last.
bySymbol(s, symbol) ==
    {[at |-> i, asset |-> s.assets[i]] : i \in {j \in DOMAIN s.assets : s.assets[j].symbol = symbol}}
        \cup {[at |-> Len(s.assets) + a.at, asset |-> a.asset] : a \in {b \in s.aliases : b.alias = symbol}}
byID(s, id) == {[at |-> i, asset |-> s.assets[i]] : i \in {j \in DOMAIN s.assets : s.assets[j].id = id}}

\* resolveSymbol and resolveID refuse an ambiguous answer; ResolveMarket takes
\* the first asset of the market's kind and DEX.
NotFound == [id |-> -1]
FirstOf(found) == IF found = {} THEN NotFound ELSE (CHOOSE f \in found : \A g \in found : f.at <= g.at).asset
OnlyOne(found) == IF \E f \in found : found = {f} THEN (CHOOSE f \in found : TRUE).asset ELSE NotFound
resolveSymbol(s, symbol) == OnlyOne(bySymbol(s, symbol))
resolveMarket(s, ref) ==
    FirstOf({f \in bySymbol(s, ref.symbol) : f.asset.kind = ref.kind /\ f.asset.dex = ref.dex})

\* validateMarketRef: a HIP-3 market names its DEX and carries it in its symbol,
\* the others must not; an outcome's encoding ends in its binary side.
validateMarketRef(ref) ==
    /\ ref.symbol # <<>>
    /\ ref.kind \in {"Perp", "Spot", "HIP3", "Outcome"}
    /\ (ref.kind = "HIP3") = (ref.dex # "")
    /\ ref.kind = "HIP3" => Len(ref.symbol) = 2 /\ ref.symbol[1] = ref.dex
    /\ ref.kind = "Outcome" => Len(ref.symbol) = 2 /\ ref.symbol[1] = "#" /\ ref.symbol[2] % 10 <= 1
=============================================================================
