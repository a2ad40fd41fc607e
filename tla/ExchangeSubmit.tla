--------------------------- MODULE ExchangeSubmit ---------------------------
(***************************************************************************)
(* exchange/: the life of a signed action, from the client method to the    *)
(* decoded reply.  Each call checks its arguments, resolves its assets,     *)
(* draws a nonce, collects the contributions of a multi-sig account, signs  *)
(* what signing/ encodes, verifies the signature and posts it exactly once; *)
(* the server (external) executes what it can verify, and its reply may be  *)
(* lost, late or spoiled.                                                   *)
(***************************************************************************)
EXTENDS ActionEncoding, NonceManager

CONSTANTS Calls,     \* concurrent callers of one Client
          Configs,   \* construction-time settings: [vault, expires, signer]
          Menu,      \* Menu[config][c]: the requests caller c may make
          Wallet     \* the address of the client's configured signer

VARIABLES config,    \* the chosen settings of the client
          pc, req,   \* per call: where it is, and its request
          nonce,     \* per call: the nonce of the envelope, 0 before
          inner,     \* per call: the nonce written inside the action
          sigs,      \* per call: the addresses whose contribution was verified
          wire,      \* the posted requests the server has not handled: [call, nonce]
          executed,  \* the requests the server executed, in order
          reply,     \* per call: the reply on its way, "none" before
          result     \* per call: what the method returned

callVars == <<pc, req, nonce, inner, sigs, result>>
serverVars == <<wire, executed, reply>>
vars == <<config, pc, req, nonce, inner, sigs, result, wire, executed, reply, clock, last, issued>>

----------------------------------------------------------------------------
(* The client's methods: the action each one builds, the submit path it      *)
(* takes, and whether it resolves assets first.                              *)

M(action, path, resolves) == [action |-> action, path |-> path, resolves |-> resolves]

OrderMethods == [PlaceOrders |-> M("OrderAction", "l1", TRUE)]
CancelMethods == [CancelOrders |-> M("CancelAction", "l1", TRUE),
                  CancelByCloids |-> M("CancelByCloidAction", "l1", TRUE),
                  ScheduleCancel |-> M("ScheduleCancelAction", "l1", FALSE)]
ModifyMethods == [BatchModify |-> M("BatchModifyAction", "l1", TRUE)]
TWAPMethods == [PlaceTWAP |-> M("TWAPOrderAction", "l1", TRUE),
                CancelTWAP |-> M("TWAPCancelAction", "l1", TRUE)]
CoreMethods ==
    [UpdateLeverage |-> M("UpdateLeverageAction", "l1", TRUE),
     UpdateIsolatedMargin |-> M("UpdateIsolatedMarginAction", "l1", TRUE),
     TopUpIsolatedOnlyMargin |-> M("TopUpIsolatedOnlyMarginAction", "l1", TRUE),
     ReserveRequestWeight |-> M("ReserveRequestWeightAction", "withoutVault", FALSE),
     Noop |-> M("NoopAction", "noop", FALSE)]
StakingMethods ==
    [SendToEVMWithData |-> M("SendToEVMWithDataAction", "user", FALSE),
     CDeposit |-> M("CDepositAction", "user", FALSE),
     CWithdraw |-> M("CWithdrawAction", "user", FALSE),
     TokenDelegate |-> M("TokenDelegateAction", "user", FALSE)]
TransferMethods ==
    [TransferSubaccountUSD |-> M("SubaccountTransferAction", "nilVault", FALSE),
     TransferSubaccountSpot |-> M("SubaccountSpotTransferAction", "nilVault", FALSE),
     TransferVaultUSD |-> M("VaultTransferAction", "nilVault", FALSE)]
DeployMethods == [SubmitPerpDeploy |-> M("PerpDeployAction", "nilVault", FALSE),
                  SubmitSpotDeploy |-> M("SpotDeployAction", "nilVault", FALSE)]
CompatMethods ==
    [EVMUserModify |-> M("EVMUserModifyAction", "nilVault", FALSE),
     GossipPriorityBid |-> M("GossipPriorityBidAction", "l1", FALSE),
     CValidatorAction |-> M("CValidatorAction", "nilVault", FALSE),
     CSignerAction |-> M("CSignerAction", "nilVault", FALSE),
     FinalizeEVMContract |-> M("FinalizeEVMContractAction", "withoutVault", FALSE)]
AgentMethods ==
    [AgentSendAsset |-> M("AgentSendAssetAction", "ownNonceNoVault", FALSE),
     AuthorizeAQAV2Role |-> M("AuthorizeAQAV2RoleAction", "withoutVault", FALSE),
     HIP3LiquidatorTransfer |-> M("HIP3LiquidatorTransferAction", "withoutVault", FALSE),
     UserOutcome |-> M("UserOutcomeAction", "l1", FALSE)]
AbstractionMethods ==
    [UserDexAbstraction |-> M("UserDexAbstractionAction", "user", FALSE),
     UserSetAbstraction |-> M("UserSetAbstractionAction", "user", FALSE),
     AgentEnableDexAbstraction |-> M("AgentEnableDexAbstractionAction", "l1", FALSE),
     AgentSetAbstraction |-> M("AgentSetAbstractionAction", "l1", FALSE),
     ValidatorL1Stream |-> M("ValidatorL1StreamAction", "l1", FALSE),
     ClaimRewards |-> M("ClaimRewardsAction", "l1", FALSE),
     SetReferrer |-> M("SetReferrerAction", "nilVault", FALSE),
     CreateSubAccount |-> M("CreateSubAccountAction", "nilVault", FALSE)]
UserMethods ==
    [SendUSD |-> M("USDSendAction", "user", FALSE), SendSpot |-> M("SpotSendAction", "user", FALSE),
     WithdrawFromBridge |-> M("WithdrawFromBridgeAction", "user", FALSE),
     TransferUSDClass |-> M("USDClassTransferAction", "user", FALSE),
     SendAsset |-> M("SendAssetAction", "user", FALSE),
     ApproveAgent |-> M("ApproveAgentAction", "user", FALSE),
     ApproveBuilderFee |-> M("ApproveBuilderFeeAction", "user", FALSE)]
AccountMethods ==
    [ConvertToMultiSigUser |-> M("ConvertToMultiSigUserAction", "user", FALSE),
     CreateVault |-> M("CreateVaultAction", "ownNonce", FALSE),
     ModifyVault |-> M("VaultModifyAction", "nilVault", FALSE),
     DistributeVault |-> M("VaultDistributeAction", "nilVault", FALSE),
     ModifySubAccount |-> M("SubAccountModifyAction", "nilVault", FALSE),
     SetDisplayName |-> M("SetDisplayNameAction", "l1", FALSE)]

MethodTables == {OrderMethods, CancelMethods, ModifyMethods, TWAPMethods, CoreMethods, StakingMethods,
                 TransferMethods, DeployMethods, CompatMethods, AgentMethods, AbstractionMethods,
                 UserMethods, AccountMethods}
Methods == [m \in UNION {DOMAIN t : t \in MethodTables} |-> (CHOOSE t \in MethodTables : m \in DOMAIN t)[m]]

\* SubmitMultiSigL1 and SubmitMultiSigUserAction take any action value.
IsMulti(r) == r.method \in {"SubmitMultiSigL1", "SubmitMultiSigUserAction"}
ActionOf(r) == IF IsMulti(r) THEN r.action ELSE Methods[r.method].action
PathOf(r) == CASE r.method = "SubmitMultiSigL1" -> "multiL1"
               [] r.method = "SubmitMultiSigUserAction" -> "multiUser"
               [] OTHER -> Methods[r.method].path
Resolves(r) == ~IsMulti(r) /\ Methods[r.method].resolves

\* Methods that encode the action before they draw a nonce, and methods whose
\* arguments only the encoder checks.
EarlyEncoded == {"UserOutcome", "GossipPriorityBid", "CValidatorAction", "CSignerAction", "FinalizeEVMContract"}
LateChecked == {"AuthorizeAQAV2Role", "HIP3LiquidatorTransfer", "ConvertToMultiSigUser", "SubmitPerpDeploy",
                "SubmitSpotDeploy", "SubmitMultiSigL1", "SubmitMultiSigUserAction"}

----------------------------------------------------------------------------
(* Argument checks. *)

\* builderForOrders over the resolved orders: [builder, fee, kind]; builder "nil"
\* or "zero", fee in tenths of a basis point.
MaxBuilderFee(kind) == IF kind \in {"Spot", "Outcome"} THEN 1000 ELSE 100
SameBuilder(output, candidate) == output \in {<<>>, candidate}
BuilderStep(firstHasBuilder, acc, r) ==
    IF ~acc.ok \/ (r.builder = "nil" /\ ~firstHasBuilder) THEN acc
    ELSE LET candidate == <<r.builder, r.fee>>
         IN [ok |-> /\ (r.builder # "nil") = firstHasBuilder
                    /\ r.builder # "zero" /\ r.fee # 0
                    /\ r.fee <= MaxBuilderFee(r.kind)
                    /\ SameBuilder(acc.output, candidate),
             output |-> candidate]
builderForOrders(orders) ==
    LET loop[i \in 0..Len(orders)] ==
            IF i = 0 THEN [ok |-> TRUE, output |-> <<>>]
            ELSE BuilderStep(orders[1].builder # "nil", loop[i - 1], orders[i])
    IN loop[Len(orders)]

\* MultiSigConfig.validate: address 0 is the zero address, owner -1 is nil.
UniqueSignersIgnored(m) == TRUE
UniqueSigners(m) == IsInjective(m.signers)
MultiSigValid(m) ==
    /\ m.leader # 0 /\ Len(m.authorized) \in 1..10
    /\ m.threshold \in 1..Len(m.authorized)
    /\ Len(m.signers) \in m.threshold..Len(m.authorized)
    /\ 0 \notin ToSet(m.authorized) /\ IsInjective(m.authorized)
    /\ (IF m.owner = -1 THEN m.leader ELSE m.owner) \in ToSet(m.authorized)
    /\ ToSet(m.signers) \subseteq ToSet(m.authorized) /\ UniqueSigners(m)

\* SendAsset takes its source from the configured vault, and refuses another.
SourceConflict(r) ==
    /\ r.method = "SendAsset"
    /\ r.from = "zero" \/ (config.vault # "nil" /\ r.from \notin {"nil", config.vault})
SourceOf(r) == IF config.vault # "nil" THEN config.vault ELSE r.from

\* The encoders and the typed data refuse a bad value, a union without exactly
\* one variant, and a deploy list their validator refuses.
Encodes(r) ==
    /\ ~r.bad
    /\ Encodable(ActionOf(r), r.o)
    /\ ActionOf(r) = "PerpDeployAction" => \A v \in r.o : validatePerpDeploy(v, r.list)

\* Every early return of a method before it resolves or draws a nonce.
Refused(r) ==
    \/ r.bad /\ r.method \notin LateChecked
    \/ r.method \in EarlyEncoded /\ ~Encodes(r)
    \/ r.method = "Noop" /\ r.nonce = 0
    \/ r.method \in {"SubmitPerpDeploy", "SubmitSpotDeploy"} /\ r.o = {}
    \/ SourceConflict(r)
    \/ IsMulti(r) /\ ~MultiSigValid(r.multi)

----------------------------------------------------------------------------
(* The submit paths of exchange/submit.go and exchange/multisig.go. *)

OmitOuterVault == {"USDClassTransferAction", "SendAssetAction", "SendToEVMWithDataAction",
                   "CDepositAction", "CWithdrawAction", "TokenDelegateAction"}
\* Actions with an L1SigningVault method, and the one with an L1OuterVault.
NilSigningVault == {"EVMUserModifyAction", "CValidatorAction", "CSignerAction", "FinalizeEVMContractAction"}

\* The vault the digest covers; user-signed typed data covers none.
multiSigL1SigningVault(r) == IF ActionOf(r) \in NilSigningVault THEN "nil" ELSE config.vault
UserVault(r) == IF ActionOf(r) \in OmitOuterVault THEN "nil" ELSE config.vault
SigningVault(r) ==
    CASE PathOf(r) = "l1" -> config.vault
      [] PathOf(r) = "multiL1" -> multiSigL1SigningVault(r)
      [] PathOf(r) = "multiUser" -> UserVault(r)
      [] OTHER -> "nil"

outerVaultAddress(signingVault) == IF signingVault # "nil" THEN signingVault ELSE config.vault
OuterVault(r) ==
    CASE PathOf(r) \in {"withoutVault", "noop", "ownNonceNoVault"} -> "nil"
      [] PathOf(r) \in {"user", "multiUser"} -> UserVault(r)
      [] PathOf(r) = "multiL1" /\ ActionOf(r) = "FinalizeEVMContractAction" -> "nil"
      [] OTHER -> outerVaultAddress(SigningVault(r))

\* User-signed requests carry no expiry at all.
SigningExpiry(r) == IF PathOf(r) = "user" THEN "nil" ELSE config.expires
PostedExpiry(r) == IF PathOf(r) = "user" THEN "nil" ELSE config.expires

SignerOf(r) == IF IsMulti(r) THEN r.multi.leader ELSE Wallet

\* A request is of one of the client's methods; any address may lead or sign (as
\* numbers, in the order of their text), a caller's own nonce and a builder fee are
\* unsigned, TransferUSDClass takes no source, the actions a multi-sig account
\* submits are of the two sealed sets, and a value has a shape of its type.
ASSUME MenuAssumption ==
    \A g \in Configs : \A c \in Calls : \A r \in Menu[g][c] :
        /\ SignerOf(r) \in Addresses /\ r.nonce \in Nat
        /\ IsMulti(r) \/ r.method \in DOMAIN Methods
        /\ IsMulti(r) => /\ r.multi.signers \in Seq(Nat) /\ r.multi.authorized \in Seq(Nat)
                         /\ r.multi.threshold \in Nat
        /\ r.list \in Seq([key : Nat, num : Int])
        /\ r.orders \in Seq([builder : STRING, fee : Nat, kind : STRING])
        /\ r.method = "TransferUSDClass" => r.from = "nil"
        /\ r.method = "SubmitMultiSigL1" => r.action \in L1ActionTypes
        /\ r.method = "SubmitMultiSigUserAction" => r.action \in UserActionTypes
        /\ r.o \in Shapes(ActionOf(r))

\* sortMultiSigSignatures: a permutation that orders the addresses.
Sorted(addresses) ==
    LET D == DOMAIN addresses
        order == CHOOSE p \in Bijection(D, D) : \A i, j \in D : i < j => addresses[p[i]] <= addresses[p[j]]
    IN [i \in D |-> addresses[order[i]]]

----------------------------------------------------------------------------
(* Steps of a call. *)

Fail(c) ==
    /\ pc' = [pc EXCEPT ![c] = "done"]
    /\ result' = [result EXCEPT ![c] = "error"]
    /\ UNCHANGED <<config, req, nonce, inner, sigs, serverVars>>
Advance(c, to) ==
    /\ pc' = [pc EXCEPT ![c] = to]
    /\ UNCHANGED <<config, req, result, serverVars>>

Begin(c) ==
    /\ pc[c] = "idle"
    /\ UNCHANGED nonceVars
    /\ \E r \in Menu[config][c] :
        /\ req' = [req EXCEPT ![c] = r]
        /\ IF Refused(r)
           THEN /\ pc' = [pc EXCEPT ![c] = "done"]
                /\ result' = [result EXCEPT ![c] = "error"]
           ELSE /\ pc' = [pc EXCEPT ![c] = IF Resolves(r) THEN "resolve" ELSE "nonce"]
                /\ UNCHANGED result
        /\ UNCHANGED <<config, nonce, inner, sigs, serverVars>>

\* resolveAsset and its siblings, then the checks that need the resolved assets.
Resolve(c) ==
    /\ pc[c] = "resolve"
    /\ UNCHANGED nonceVars
    /\ \/ Fail(c)
       \/ /\ req[c].method = "PlaceOrders" => builderForOrders(req[c].orders).ok
          /\ Advance(c, "nonce")
          /\ UNCHANGED <<nonce, inner, sigs>>

\* Noop and a multi-sig user action bring their own nonce; every other path asks
\* the manager, for the leader of a multi-sig submission or the client's signer,
\* and only the paths that own the action's nonce write it into the action.
OwnsNonceUserOnly(r) == PathOf(r) = "user"
OwnsNonce(r) == PathOf(r) \in {"ownNonce", "ownNonceNoVault", "user"}
AllocateNonce(c) ==
    LET r == req[c]
        a == SignerOf(r)
        to == IF IsMulti(r) THEN "collect" ELSE "sign"
    IN /\ pc[c] = "nonce"
       /\ IF PathOf(r) \in {"noop", "multiUser"}
          THEN /\ UNCHANGED nonceVars
               /\ \/ (r.nonce = 0 \/ (PathOf(r) = "noop" /\ ~config.signer)) /\ Fail(c)
                  \/ /\ r.nonce # 0 /\ (PathOf(r) = "noop" => config.signer)
                     /\ nonce' = [nonce EXCEPT ![c] = r.nonce]
                     /\ inner' = [inner EXCEPT ![c] = r.nonce]
                     /\ Advance(c, to) /\ UNCHANGED sigs
          ELSE \/ Fail(c) /\ UNCHANGED nonceVars
               \/ /\ IsMulti(r) \/ config.signer
                  /\ NextNonce(a)
                  /\ nonce' = [nonce EXCEPT ![c] = NextValue(a)]
                  /\ inner' = [inner EXCEPT ![c] = IF OwnsNonce(r) THEN NextValue(a) ELSE r.nonce]
                  /\ Advance(c, to) /\ UNCHANGED sigs

\* signAndVerify: the signer (external) refuses, signs with its own key, or
\* returns the signature of another key, which Verify turns into an error.
Verify(signedBy, expected) == signedBy = expected
SignAndVerify(c, expected, success) ==
    \/ Fail(c)
    \/ \E signedBy \in Addresses :
          IF Verify(signedBy, expected) THEN success ELSE Fail(c)

\* One contribution per configured signer, in the order of the configuration.
Collect(c) ==
    LET m == req[c].multi
        k == Len(sigs[c]) + 1
        collected == Append(sigs[c], m.signers[k])
    IN /\ pc[c] = "collect"
       /\ UNCHANGED nonceVars
       /\ IF ~Encodes(req[c]) THEN Fail(c)
          ELSE SignAndVerify(c, m.signers[k],
                   /\ UNCHANGED <<nonce, inner>>
                   /\ IF k = Len(m.signers)
                      THEN sigs' = [sigs EXCEPT ![c] = Sorted(collected)] /\ Advance(c, "sign")
                      ELSE sigs' = [sigs EXCEPT ![c] = collected] /\ Advance(c, "collect"))

Sign(c) ==
    /\ pc[c] = "sign"
    /\ UNCHANGED nonceVars
    /\ IF ~Encodes(req[c]) THEN Fail(c)
       ELSE SignAndVerify(c, SignerOf(req[c]), Advance(c, "post") /\ UNCHANGED <<nonce, inner, sigs>>)

\* post sends once; a request that cannot be built or sent is an error, whether
\* or not it reached the server.
Post(c) ==
    /\ pc[c] = "post"
    /\ UNCHANGED nonceVars
    /\ \/ Fail(c)
       \/ /\ pc' = [pc EXCEPT ![c] = "wait"]
          /\ wire' = wire \cup {[call |-> c, nonce |-> nonce[c]]}
          /\ UNCHANGED <<config, req, nonce, inner, sigs, result, executed, reply>>

\* The reply decides, and the request's deadline ends the wait without retry.
DecodeReply(kind) ==
    CASE kind = "ok" -> "ok"
      [] kind = "notOkNull" -> "notOk"   \* status is not ok, response is null: nil error
      [] OTHER -> "error"
Receive(c) ==
    /\ pc[c] = "wait" /\ reply[c] # "none"
    /\ pc' = [pc EXCEPT ![c] = "done"]
    /\ result' = [result EXCEPT ![c] = DecodeReply(reply[c])]
    /\ UNCHANGED <<config, req, nonce, inner, sigs, serverVars, nonceVars>>
TimeoutRetries(c) ==
    /\ pc[c] = "wait"
    /\ pc' = [pc EXCEPT ![c] = "nonce"]
    /\ sigs' = [sigs EXCEPT ![c] = <<>>]
    /\ UNCHANGED <<config, req, nonce, inner, result, serverVars, nonceVars>>
Timeout(c) == pc[c] = "wait" /\ Fail(c) /\ UNCHANGED nonceVars

\* External: the server executes a request once per signer and nonce, or rejects
\* it; a proxy may spoil the reply to either.
SeenNonce(m) == \E i \in DOMAIN executed :
    /\ executed[i].nonce = m.nonce
    /\ SignerOf(req[executed[i].call]) = SignerOf(req[m.call])
ServerHandle(m) ==
    /\ wire' = wire \ {m}
    /\ \/ /\ ~SeenNonce(m)
          /\ executed' = Append(executed, m)
          /\ \E k \in {"ok", "malformedData", "gateway"} : reply' = [reply EXCEPT ![m.call] = k]
       \/ /\ UNCHANGED executed
          /\ \E k \in {"notOk", "notOkNull", "gateway"} : reply' = [reply EXCEPT ![m.call] = k]
    /\ UNCHANGED <<config, callVars, nonceVars>>

\* External: the request is lost, or the answer is.
Lose(m) ==
    /\ wire' = wire \ {m}
    /\ executed' \in {executed} \cup (IF SeenNonce(m) THEN {} ELSE {Append(executed, m)})
    /\ UNCHANGED <<config, callVars, nonceVars, reply>>

ClockTick == Tick /\ UNCHANGED <<config, callVars, serverVars>>

NoRequest == [method |-> "none"]
Init ==
    /\ NonceInit
    /\ config \in Configs
    /\ pc = [c \in Calls |-> "idle"]
    /\ req = [c \in Calls |-> NoRequest]
    /\ nonce = [c \in Calls |-> 0]
    /\ inner = [c \in Calls |-> 0]
    /\ sigs = [c \in Calls |-> <<>>]
    /\ result = [c \in Calls |-> "none"]
    /\ wire = {} /\ executed = <<>>
    /\ reply = [c \in Calls |-> "none"]

CallStep(c) ==
    \/ Begin(c) \/ Resolve(c) \/ AllocateNonce(c) \/ Collect(c) \/ Sign(c) \/ Post(c)
    \/ Receive(c) \/ Timeout(c)
Next ==
    \/ \E c \in Calls : CallStep(c)
    \/ \E m \in wire : ServerHandle(m) \/ Lose(m)
    \/ ClockTick

Spec == Init /\ [][Next]_vars

----------------------------------------------------------------------------
TypeOK ==
    /\ NonceTypeOK
    /\ config \in Configs
    /\ \A c \in Calls :
        /\ pc[c] \in {"idle", "resolve", "nonce", "collect", "sign", "post", "wait", "done"}
        /\ result[c] \in {"none", "ok", "notOk", "error"}
        /\ (pc[c] = "done") = (result[c] # "none")
    /\ wire \cup ToSet(executed) \subseteq [call : Calls, nonce : Nat]

\* What submitL1AtNonceWithOuter, submitUserSigned and SubmitMultiSigL1 post is
\* what they signed: the MessagePack bytes, or the typed data, decode to exactly
\* the fields of the posted JSON, the digest covers the posted expiry, and a
\* vault in the digest is the posted vault.
SignedIsPosted ==
    \A c \in Calls : pc[c] = "post" =>
        LET r == req[c]
            t == ActionOf(r)
        IN /\ IF PathOf(r) \in {"user", "multiUser"} THEN UserAgrees(UserCodecOf(t, r.o))
              ELSE Agrees(CodecOf(t, r.o)) /\ NestedIn(t) \cap Disagreeing = {}
           /\ SigningExpiry(r) = PostedExpiry(r)
           /\ SigningVault(r) \in {"nil", OuterVault(r)}
           /\ IsMulti(r) =>
                 /\ Agrees(CompactSignatureCodec) /\ Agrees(MultiSigPayloadCodec)
                 /\ ToSet(MultiSigEnvelopeCodec.bytes.entries) =
                        MultiSigEnvelopeCodec.json \ {<<"type", "multiSig">>}

\* A configured vault is never dropped by a fund transfer: SendAsset and
\* TransferUSDClass, which post no outer vault, name it inside what they sign.
VaultNotDropped ==
    \A c \in Calls :
        pc[c] = "post" /\ req[c].method \in {"SendAsset", "TransferUSDClass"} /\ config.vault # "nil" =>
            /\ OuterVault(req[c]) = "nil"
            /\ SourceOf(req[c]) = config.vault
            /\ req[c].from \in {"nil", config.vault}

\* Two calls never post the same nonce for one signer, unless a caller chose it
\* (Noop, SubmitMultiSigUserAction); and an action that carries its own nonce
\* carries the envelope's (AgentSendAsset, CreateVault, user actions).
Posted(c) == pc[c] \in {"post", "wait"} \/ result[c] \in {"ok", "notOk"} \/ \E m \in wire : m.call = c
ChoosesNonce(r) == PathOf(r) \in {"noop", "multiUser"}
PostedNoncesDiffer ==
    \A c, d \in Calls :
        c # d /\ Posted(c) /\ Posted(d) /\ SignerOf(req[c]) = SignerOf(req[d])
          /\ ~ChoosesNonce(req[c]) /\ ~ChoosesNonce(req[d]) => nonce[c] # nonce[d]
NoNonceReuse ==
    /\ PostedNoncesDiffer
    /\ \A c \in Calls :
        Posted(c) /\ ActionOf(req[c]) \in {"AgentSendAssetAction", "CreateVaultAction"}
          /\ ~IsMulti(req[c]) => inner[c] = nonce[c]

\* A network failure never makes an action run twice, a call that returned before
\* it posted never ran, and a method that reports an ok status did run.
ExecutedOnce ==
    /\ \A i, j \in DOMAIN executed : executed[i].call = executed[j].call => i = j
    /\ \A c \in Calls :
        /\ result[c] = "ok" => \E i \in DOMAIN executed : executed[i] = [call |-> c, nonce |-> nonce[c]]
        /\ (\E i \in DOMAIN executed : executed[i].call = c) => ~Refused(req[c]) /\ Encodes(req[c])

\* The envelope SubmitMultiSigL1 and SubmitMultiSigUserAction post carries at
\* least Threshold verified contributions, of distinct authorized users, in
\* ascending order of address, under a leader that is or belongs to one of them.
QuorumVerified ==
    \A c \in Calls : pc[c] \in {"post", "wait"} /\ IsMulti(req[c]) =>
        LET m == req[c].multi
        IN /\ ToSet(sigs[c]) \subseteq ToSet(m.authorized) \ {0}
           /\ \A i, j \in DOMAIN sigs[c] : i < j => sigs[c][i] < sigs[c][j]
           /\ Cardinality(ToSet(sigs[c])) >= m.threshold /\ m.threshold > 0
           /\ {m.leader, m.owner} \cap ToSet(m.authorized) # {}

\* The lists a deployer posts are strictly sorted by key without a blank one, so
\* that no key is set twice; margin tiers never raise the leverage.
Before(variant, x, y) ==
    CASE variant = "SetSubDeployers" -> x.key < y.key \/ (x.key = y.key /\ x.num < y.num)
      [] variant = "InsertMarginTable" -> x.key < y.key /\ y.num <= x.num
      [] OTHER -> x.key < y.key
DeployListsSorted ==
    \A c \in Calls : pc[c] = "post" /\ req[c].method = "SubmitPerpDeploy" =>
        \A v \in req[c].o \cap ListVariants : \A i, j \in DOMAIN req[c].list :
            /\ i < j => Before(v, req[c].list[i], req[c].list[j])
            /\ v # "InsertMarginTable" => req[c].list[i].key # 0

\* The builder PlaceOrders posts is the builder of every order of the batch, with
\* a fee that no order's asset kind forbids; without one, no order named one.
BuilderAgreed ==
    \A c \in Calls : pc[c] = "post" /\ req[c].method = "PlaceOrders" =>
        LET orders == req[c].orders
            builder == builderForOrders(orders).output
        IN \A i \in DOMAIN orders :
            IF builder = <<>> THEN orders[i].builder = "nil"
            ELSE /\ <<orders[i].builder, orders[i].fee>> = builder
                 /\ orders[i].fee \in 1..MaxBuilderFee(orders[i].kind)

\* What the argument checks of the methods let through respects the rules that
\* concern several arguments at once, or the client's settings.
PostedAsAsked == VaultNotDropped /\ DeployListsSorted /\ BuilderAgreed

\* signing/multisig.go: "MessagePack does not use JSON tags, so leaving this to
\* reflection would produce R/S/V and change the enclosing multiSig action hash":
\* the action bytes under a leader's signature name the fields of the posted JSON.
UserPayloadHashed ==
    \A c \in Calls : pc[c] = "post" /\ PathOf(req[c]) = "multiUser" =>
        LET payload == MultiSigUserPayloadWire(ActionOf(req[c]), req[c].o)
        IN Reflected(payload) = payload
=============================================================================
