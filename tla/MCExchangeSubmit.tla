-------------------------- MODULE MCExchangeSubmit --------------------------
(* Instances of ExchangeSubmit for TLC.  One caller goes through every       *)
(* method, shape and refused argument; two callers race in the last setting. *)
EXTENDS ExchangeSubmit

Client(vault, expires, signer, pair) ==
    [vault |-> vault, expires |-> expires, signer |-> signer, pair |-> pair]
MCConfigs == {Client("vault", "expires", TRUE, FALSE), Client("nil", "nil", TRUE, FALSE),
              Client("vault", "nil", FALSE, FALSE), Client("nil", "nil", TRUE, TRUE)}

NoMulti == [leader |-> 0, owner |-> -1, authorized |-> <<>>, signers |-> <<>>, threshold |-> 0]
Plain(method) == [method |-> method, action |-> "none", o |-> {}, bad |-> FALSE, list |-> <<>>,
                  orders |-> <<[builder |-> "nil", fee |-> 0, kind |-> "Perp"]>>, from |-> "nil",
                  nonce |-> 0, multi |-> NoMulti]

\* Every method with every shape of its action, with and without a refused
\* argument where it has one to refuse.
NoChecks == {"ScheduleCancel", "AgentEnableDexAbstraction", "ClaimRewards", "EVMUserModify"}
Shaped == {[Plain(m) EXCEPT !.o = o, !.bad = b, !.nonce = 1] :
               <<m, o, b>> \in UNION {{m} \X Shapes(Methods[m].action) \X (IF m \in NoChecks THEN {FALSE} ELSE BOOLEAN)
                                        : m \in DOMAIN Methods}}
Orders == [builder : {"nil", "zero", "b1", "b2"}, fee : {0, 100, 101}, kind : {"Perp", "Spot"}]
Batches == {[Plain("PlaceOrders") EXCEPT !.orders = <<x, y>>] : x, y \in Orders}
Pairs == [key : 0..2, num : {-2, 0, 1, BadDecimal}]
Lists == {<<>>} \cup {<<x>> : x \in Pairs} \cup {<<x, y>> : x, y \in Pairs}
            \cup {<<[key |-> i, num |-> 1], [key |-> j, num |-> 1], [key |-> k, num |-> 1]>> : i, j, k \in 0..2}
Deploys == {[Plain("SubmitPerpDeploy") EXCEPT !.o = {v}, !.list = l] : v \in ListVariants, l \in Lists}
Sources == {[Plain("SendAsset") EXCEPT !.from = f] : f \in {"vault", "other", "zero"}}
    \cup {[Plain("Noop") EXCEPT !.nonce = 0]}
Multis == {[leader |-> l, owner |-> w, authorized |-> a, signers |-> s, threshold |-> t] :
               l \in {1, 3}, w \in {-1, 0, 2}, a \in {<<>>, <<1>>, <<2, 1>>, <<1, 1>>, <<0, 1>>},
               s \in {<<>>, <<1>>, <<2, 1>>, <<1, 1>>, <<3>>}, t \in 0..2}
MultiRequests ==
    {[Plain(m) EXCEPT !.multi = u, !.nonce = 1,
                      !.action = IF m = "SubmitMultiSigL1" THEN "ClaimRewardsAction" ELSE "USDSendAction"] :
         m \in {"SubmitMultiSigL1", "SubmitMultiSigUserAction"}, u \in Multis}
    \cup {[Plain("SubmitMultiSigL1") EXCEPT !.multi = [NoMulti EXCEPT !.leader = 1, !.authorized = <<1>>,
                                                                      !.signers = <<1>>, !.threshold = 1],
                                            !.action = a, !.o = o] :
            <<a, o>> \in UNION {{a} \X Shapes(a) : a \in L1ActionTypes}}
    \cup {[Plain("SubmitMultiSigUserAction") EXCEPT
              !.multi = [NoMulti EXCEPT !.leader = 1, !.authorized = <<1>>, !.signers = <<1>>, !.threshold = 1],
              !.action = a, !.nonce = n, !.bad = b] :
            a \in {"USDSendAction", "SendAssetAction", "UserSetAbstractionAction"}, n \in 0..1, b \in BOOLEAN}

Racing == {Plain("ClaimRewards"), Plain("AgentSendAsset"), Plain("CreateVault"), Plain("SendUSD"),
           [Plain("Noop") EXCEPT !.nonce = 1],
           [Plain("SubmitMultiSigL1") EXCEPT !.action = "ClaimRewardsAction",
                !.multi = [NoMulti EXCEPT !.leader = 1, !.authorized = <<1, 2>>, !.signers = <<2, 1>>,
                                          !.threshold = 2]]}
Wide == Shaped \cup Batches \cup Deploys \cup Sources \cup MultiRequests
MCMenu == [g \in MCConfigs |->
              [c \in Calls |-> CASE g.pair -> Racing [] ~g.pair /\ c = "c1" -> Wide [] OTHER -> {}]]
=============================================================================
