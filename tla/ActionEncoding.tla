--------------------------- MODULE ActionEncoding ---------------------------
(***************************************************************************)
(* The two encodings of every Exchange action in signing/.  An L1 action   *)
(* is signed over its MarshalMsgpack bytes and posted as its MarshalJSON    *)
(* text, two hand-written lists of fields that must agree; a user action is *)
(* signed over EIP-712 typed data and posted as a separate wire struct.     *)
(*                                                                         *)
(* A field value is the name of the Go field it is read from (nested wire   *)
(* types have entries of their own), a literal, "null", or lower(field).    *)
(* The parameter o is the shape of the value: the optional fields that are  *)
(* set and, for a union, the variant that is chosen.                        *)
(***************************************************************************)
EXTENDS Integers, Sequences, FiniteSets, SequencesExt, TLC

----------------------------------------------------------------------------
(* The vocabulary of the tables. *)

\* A MessagePack map: the length written first, then the entries in order.
Map(n, entries) == [len |-> n, entries |-> entries]

\* A MessagePack array or a lone value, keyed by position.
Position == <<"0", "1">>
Array(n, values) == Map(n, [i \in DOMAIN values |-> <<Position[i], values[i]>>])
ArrayJSON(values) == {<<Position[i], values[i]>> : i \in DOMAIN values}
Lone(value) == Array(1, <<value>>)

\* The entry of an optional field, written only when the field is set.
IfSet(o, field, key) == IF field \in o THEN <<<<key, field>>>> ELSE <<>>
IfSetJSON(o, field, key) == IF field \in o THEN {<<key, field>>} ELSE {}
\* The value of a nullable field, written as null when it is not set.
OrNull(o, field) == IF field \in o THEN field ELSE "null"
Count(o, field) == IF field \in o THEN 1 ELSE 0

Codec(bytes, json) == [bytes |-> bytes, json |-> json]
\* A struct whose msgpack and json tags name the same key for every field.
Tagged(entries) == Codec(Map(Len(entries), entries), ToSet(entries))
Paired(bytes, json) == [t \in DOMAIN bytes |-> Codec(bytes[t], json[t])]

----------------------------------------------------------------------------
(* signing/l1_action.go *)

CancelOrderMsgpack(o) ==
    [CancelAction |-> Map(2, <<<<"type", "cancel">>, <<"cancels", "Cancels">>>>),
     CancelWire |-> Map(2, <<<<"a", "Asset">>, <<"o", "OID">>>>),
     OrderAction |-> Map(3 + Count(o, "Builder"),
         <<<<"type", "order">>, <<"orders", "Orders">>, <<"grouping", "Grouping">>>>
            \o IfSet(o, "Builder", "builder")),
     BuilderWire |-> Map(2, <<<<"b", "Address">>, <<"f", "Fee">>>>)]

\* The map length counts the optional client order ID.
OrderWireLenFixed(o) == 6
OrderWireLen(o) == 6 + Count(o, "Cloid")
OrderWireMsgpack(o) ==
    [OrderWire |-> Map(OrderWireLen(o),
         <<<<"a", "Asset">>, <<"b", "IsBuy">>, <<"p", "Price">>, <<"s", "Size">>,
           <<"r", "ReduceOnly">>, <<"t", "Type">>>> \o IfSet(o, "Cloid", "c")),
     LimitOrderType |-> Map(1, <<<<"limit", "LimitBody">>>>),
     LimitBody |-> Map(1, <<<<"tif", "TIF">>>>),
     TriggerOrderType |-> Map(1, <<<<"trigger", "TriggerBody">>>>),
     TriggerBody |-> Map(3, <<<<"isMarket", "IsMarket">>, <<"triggerPx", "TriggerPx">>,
                              <<"tpsl", "TPSL">>>>)]

OrderJSON(o) ==
    [CancelAction |-> {<<"type", "cancel">>, <<"cancels", "Cancels">>},
     CancelWire |-> {<<"a", "Asset">>, <<"o", "OID">>},
     OrderAction |-> {<<"type", "order">>, <<"orders", "Orders">>, <<"grouping", "Grouping">>}
                        \cup IfSetJSON(o, "Builder", "builder"),
     BuilderWire |-> {<<"b", "Address">>, <<"f", "Fee">>},
     OrderWire |-> {<<"a", "Asset">>, <<"b", "IsBuy">>, <<"p", "Price">>, <<"s", "Size">>,
                    <<"r", "ReduceOnly">>, <<"t", "Type">>} \cup IfSetJSON(o, "Cloid", "c"),
     LimitOrderType |-> {<<"limit", "LimitBody">>},
     LimitBody |-> {<<"tif", "TIF">>},
     TriggerOrderType |-> {<<"trigger", "TriggerBody">>},
     TriggerBody |-> {<<"isMarket", "IsMarket">>, <<"triggerPx", "TriggerPx">>,
                      <<"tpsl", "TPSL">>}]

CancelCodecs(o) ==
    [CancelByCloidAction |-> Codec(
         Map(2, <<<<"type", "cancelByCloid">>, <<"cancels", "Cancels">>>>),
         {<<"type", "cancelByCloid">>, <<"cancels", "Cancels">>}),
     CancelByCloidWire |-> Codec(Map(2, <<<<"asset", "Asset">>, <<"cloid", "Cloid">>>>),
                                 {<<"asset", "Asset">>, <<"cloid", "Cloid">>}),
     ScheduleCancelAction |-> Codec(
         Map(1 + Count(o, "Time"), <<<<"type", "scheduleCancel">>>> \o IfSet(o, "Time", "time")),
         {<<"type", "scheduleCancel">>} \cup IfSetJSON(o, "Time", "time"))]

TWAPCodecs ==
    [TWAPOrderAction |-> Codec(Map(2, <<<<"type", "twapOrder">>, <<"twap", "TWAP">>>>),
                               {<<"type", "twapOrder">>, <<"twap", "TWAP">>}),
     TWAPWire |-> Codec(
         Map(6, <<<<"a", "Asset">>, <<"b", "IsBuy">>, <<"s", "Size">>, <<"r", "ReduceOnly">>,
                  <<"m", "Minutes">>, <<"t", "Randomize">>>>),
         {<<"a", "Asset">>, <<"b", "IsBuy">>, <<"s", "Size">>, <<"r", "ReduceOnly">>,
          <<"m", "Minutes">>, <<"t", "Randomize">>}),
     TWAPCancelAction |-> Codec(Map(3, <<<<"type", "twapCancel">>, <<"a", "Asset">>, <<"t", "TWAPID">>>>),
                                {<<"type", "twapCancel">>, <<"a", "Asset">>, <<"t", "TWAPID">>})]

TransferCodecs ==
    [SubaccountTransferAction |-> Codec(
         Map(4, <<<<"type", "subAccountTransfer">>, <<"subAccountUser", "SubaccountUser">>,
                  <<"isDeposit", "IsDeposit">>, <<"usd", "USD">>>>),
         {<<"type", "subAccountTransfer">>, <<"subAccountUser", "SubaccountUser">>,
          <<"isDeposit", "IsDeposit">>, <<"usd", "USD">>}),
     SubaccountSpotTransferAction |-> Codec(
         Map(5, <<<<"type", "subAccountSpotTransfer">>, <<"subAccountUser", "SubaccountUser">>,
                  <<"isDeposit", "IsDeposit">>, <<"token", "Token">>, <<"amount", "Amount">>>>),
         {<<"type", "subAccountSpotTransfer">>, <<"subAccountUser", "SubaccountUser">>,
          <<"isDeposit", "IsDeposit">>, <<"token", "Token">>, <<"amount", "Amount">>}),
     VaultTransferAction |-> Codec(
         Map(4, <<<<"type", "vaultTransfer">>, <<"vaultAddress", "VaultAddress">>,
                  <<"isDeposit", "IsDeposit">>, <<"usd", "USD">>>>),
         {<<"type", "vaultTransfer">>, <<"vaultAddress", "VaultAddress">>,
          <<"isDeposit", "IsDeposit">>, <<"usd", "USD">>})]

\* The oid of a modification is the client order ID when there is one.
ModifyWireJSON(o) == {<<"oid", IF "Cloid" \in o THEN "Cloid" ELSE "OID">>, <<"order", "Order">>}

ModifyCodecs(o) ==
    [BatchModifyAction |-> Codec(Map(2, <<<<"type", "batchModify">>, <<"modifies", "Modifies">>>>),
                                 {<<"type", "batchModify">>, <<"modifies", "Modifies">>}),
     ModifyWire |-> Codec(Map(2, <<<<"oid", IF "Cloid" \in o THEN "Cloid" ELSE "OID">>,
                                   <<"order", "Order">>>>), ModifyWireJSON(o))]

MarginCodecs ==
    [UpdateLeverageAction |-> Codec(
         Map(4, <<<<"type", "updateLeverage">>, <<"asset", "Asset">>, <<"isCross", "IsCross">>,
                  <<"leverage", "Leverage">>>>),
         {<<"type", "updateLeverage">>, <<"asset", "Asset">>, <<"isCross", "IsCross">>,
          <<"leverage", "Leverage">>}),
     UpdateIsolatedMarginAction |-> Codec(
         Map(4, <<<<"type", "updateIsolatedMargin">>, <<"asset", "Asset">>, <<"isBuy", "IsBuy">>,
                  <<"ntli", "NTLI">>>>),
         {<<"type", "updateIsolatedMargin">>, <<"asset", "Asset">>, <<"isBuy", "IsBuy">>,
          <<"ntli", "NTLI">>}),
     TopUpIsolatedOnlyMarginAction |-> Codec(
         Map(3, <<<<"type", "topUpIsolatedOnlyMargin">>, <<"asset", "Asset">>, <<"leverage", "Leverage">>>>),
         {<<"type", "topUpIsolatedOnlyMargin">>, <<"asset", "Asset">>, <<"leverage", "Leverage">>})]

WeightCodecs ==
    [ReserveRequestWeightAction |-> Codec(
         Map(2, <<<<"type", "reserveRequestWeight">>, <<"weight", "Weight">>>>),
         {<<"type", "reserveRequestWeight">>, <<"weight", "Weight">>}),
     NoopAction |-> Codec(Map(1, <<<<"type", "noop">>>>), {<<"type", "noop">>})]

----------------------------------------------------------------------------
(* signing/advanced_actions.go *)

AgentCodecs ==
    [AgentEnableDexAbstractionAction |-> Codec(Map(1, <<<<"type", "agentEnableDexAbstraction">>>>),
                                               {<<"type", "agentEnableDexAbstraction">>}),
     AgentSetAbstractionAction |-> Codec(
         Map(2, <<<<"type", "agentSetAbstraction">>, <<"abstraction", "Abstraction">>>>),
         {<<"type", "agentSetAbstraction">>, <<"abstraction", "Abstraction">>}),
     AgentSendAssetAction |-> Codec(
         Map(8, <<<<"type", "agentSendAsset">>, <<"destination", "lower(Destination)">>,
                  <<"sourceDex", "SourceDEX">>, <<"destinationDex", "DestinationDEX">>,
                  <<"token", "Token">>, <<"amount", "Amount">>,
                  <<"fromSubAccount", "lower(FromSubAccount)">>, <<"nonce", "Nonce">>>>),
         {<<"type", "agentSendAsset">>, <<"destination", "lower(Destination)">>,
          <<"sourceDex", "SourceDEX">>, <<"destinationDex", "DestinationDEX">>,
          <<"token", "Token">>, <<"amount", "Amount">>,
          <<"fromSubAccount", "lower(FromSubAccount)">>, <<"nonce", "Nonce">>})]

AQACodecs ==
    [AuthorizeAQAV2RoleAction |-> Codec(
         Map(3, <<<<"type", "authorizeAqav2Role">>, <<"token", "Token">>, <<"role", "Role">>>>),
         {<<"type", "authorizeAqav2Role">>, <<"token", "Token">>, <<"role", "Role">>})]

OutcomeVariants == {"SplitOutcome", "MergeOutcome", "MergeQuestion", "NegateOutcome"}

\* The four variants of a user outcome, named by their JSON struct tags.
OutcomeVariantJSON(o) ==
    [SplitOutcome |-> {<<"outcome", "Outcome">>, <<"amount", "Amount">>},
     MergeOutcome |-> {<<"outcome", "Outcome">>, <<"amount", OrNull(o, "Amount")>>},
     MergeQuestion |-> {<<"question", "Question">>, <<"amount", OrNull(o, "Amount")>>},
     NegateOutcome |-> {<<"question", "Question">>, <<"outcome", "Outcome">>, <<"amount", "Amount">>}]

\* encodeOutcomeFields writes a nil amount as null.
OutcomeMsgpack(o) ==
    LET key == CASE "SplitOutcome" \in o -> <<"splitOutcome", "SplitOutcome">>
                 [] "SplitOutcome" \notin o /\ "MergeOutcome" \in o -> <<"mergeOutcome", "MergeOutcome">>
                 [] o \cap {"SplitOutcome", "MergeOutcome"} = {} /\ "MergeQuestion" \in o ->
                        <<"mergeQuestion", "MergeQuestion">>
                 [] OTHER -> <<"negateOutcome", "NegateOutcome">>
    IN [UserOutcomeAction |-> Map(2, <<<<"type", "userOutcome">>, key>>),
        SplitOutcome |-> Map(2, <<<<"outcome", "Outcome">>, <<"amount", "Amount">>>>),
        MergeOutcome |-> Map(2, <<<<"outcome", "Outcome">>, <<"amount", OrNull(o, "Amount")>>>>),
        MergeQuestion |-> Map(2, <<<<"question", "Question">>, <<"amount", OrNull(o, "Amount")>>>>),
        NegateOutcome |-> Map(3, <<<<"question", "Question">>, <<"outcome", "Outcome">>,
                                   <<"amount", "Amount">>>>)]

OutcomeActionJSON(o) ==
    {<<"type", "userOutcome">>} \cup
        (IF "SplitOutcome" \in o THEN {<<"splitOutcome", "SplitOutcome">>}
         ELSE IF "MergeOutcome" \in o THEN {<<"mergeOutcome", "MergeOutcome">>}
         ELSE IF "MergeQuestion" \in o THEN {<<"mergeQuestion", "MergeQuestion">>}
         ELSE {<<"negateOutcome", "NegateOutcome">>})

LiquidatorCodecs ==
    [HIP3LiquidatorTransferAction |-> Codec(
         Map(4, <<<<"type", "hip3LiquidatorTransfer">>, <<"dex", "DEX">>, <<"ntl", "NTL">>,
                  <<"isDeposit", "IsDeposit">>>>),
         {<<"type", "hip3LiquidatorTransfer">>, <<"dex", "DEX">>, <<"ntl", "NTL">>,
          <<"isDeposit", "IsDeposit">>})]

ValidatorCodecs ==
    [ValidatorL1StreamAction |-> Codec(
         Map(2, <<<<"type", "validatorL1Stream">>, <<"riskFreeRate", "RiskFreeRate">>>>),
         {<<"type", "validatorL1Stream">>, <<"riskFreeRate", "RiskFreeRate">>}),
     ClaimRewardsAction |-> Codec(Map(1, <<<<"type", "claimRewards">>>>), {<<"type", "claimRewards">>})]

----------------------------------------------------------------------------
(* signing/compat_actions.go *)

EVMGossipCodecs ==
    [EVMUserModifyAction |-> Codec(
         Map(2, <<<<"type", "evmUserModify">>, <<"usingBigBlocks", "UsingBigBlocks">>>>),
         {<<"type", "evmUserModify">>, <<"usingBigBlocks", "UsingBigBlocks">>}),
     GossipPriorityBidAction |-> Codec(
         Map(4, <<<<"type", "gossipPriorityBid">>, <<"slotId", "SlotID">>, <<"ip", "IP">>,
                  <<"maxGas", "MaxGas">>>>),
         {<<"type", "gossipPriorityBid">>, <<"slotId", "SlotID">>, <<"ip", "IP">>,
          <<"maxGas", "MaxGas">>})]

\* The variant writes its own key: a nil payload for the two self-jailing
\* actions and unregister, a nested wire type for the others.
CSignerEntry == [CSignerJailSelf |-> <<"jailSelf", "null">>,
                 CSignerUnjailSelf |-> <<"unjailSelf", "null">>]
CValidatorEntry == [CValidatorUnregister |-> <<"unregister", "null">>,
                    CValidatorRegister |-> <<"register", "CValidatorRegister">>,
                    CValidatorChangeProfile |-> <<"changeProfile", "CValidatorChangeProfile">>]

\* The one variant a union value holds (its shape is a singleton).
Variant(o) == CHOOSE v \in o : TRUE

CSignerCodec(o) ==
    LET entry == CSignerEntry[Variant(o)]
    IN Codec(Map(2, <<<<"type", "CSignerAction">>, entry>>), {<<"type", "CSignerAction">>, entry})

CValidatorCodec(o) ==
    LET entry == CValidatorEntry[Variant(o)]
    IN Codec(Map(2, <<<<"type", "CValidatorAction">>, entry>>), {<<"type", "CValidatorAction">>, entry})

CValidatorVariantCodecs(o) ==
    [CValidatorRegister |-> Tagged(<<<<"profile", "Profile">>, <<"unjailed", "Unjailed">>,
                                     <<"initial_wei", "InitialWei">>>>),
     CValidatorChangeProfile |-> Tagged(
         <<<<"node_ip", OrNull(o, "NodeIP")>>, <<"name", OrNull(o, "Name")>>,
           <<"description", OrNull(o, "Description")>>, <<"unjailed", "Unjailed">>,
           <<"disable_delegations", OrNull(o, "DisableDelegations")>>,
           <<"commission_bps", OrNull(o, "CommissionBPS")>>,
           <<"signer", IF "Signer" \in o THEN "lower(Signer)" ELSE "null">>>>)]

CValidatorProfileCodecs ==
    [CValidatorProfile |-> Codec(
         Map(6, <<<<"node_ip", "NodeIP">>, <<"name", "Name">>, <<"description", "Description">>,
                  <<"delegations_disabled", "DelegationsDisabled">>,
                  <<"commission_bps", "CommissionBPS">>, <<"signer", "lower(Signer)">>>>),
         {<<"node_ip", "NodeIP">>, <<"name", "Name">>, <<"description", "Description">>,
          <<"delegations_disabled", "DelegationsDisabled">>,
          <<"commission_bps", "CommissionBPS">>, <<"signer", "lower(Signer)">>})]

FinalizeEVMInput == [FinalizeEVMCreate |-> "FinalizeEVMCreate", FinalizeEVMFirstStorageSlot |-> "firstStorageSlot",
                     FinalizeEVMCustomStorageSlot |-> "customStorageSlot"]
FinalizeEVMCodec(o) ==
    LET input == FinalizeEVMInput[Variant(o)]
    IN Codec(Map(3, <<<<"type", "finalizeEvmContract">>, <<"token", "Token">>, <<"input", input>>>>),
             {<<"type", "finalizeEvmContract">>, <<"token", "Token">>, <<"input", input>>})

FinalizeEVMInputCodecs ==
    [FinalizeEVMCreate |-> Codec(Map(1, <<<<"create", "CreateBody">>>>), {<<"create", "CreateBody">>}),
     CreateBody |-> Codec(Map(1, <<<<"nonce", "Nonce">>>>), {<<"nonce", "Nonce">>})]

----------------------------------------------------------------------------
(* signing/account_management_actions.go, legacy_management_actions.go *)

VaultCodecs(o) ==
    [CreateVaultAction |-> Codec(
         Map(5, <<<<"type", "createVault">>, <<"name", "Name">>, <<"description", "Description">>,
                  <<"initialUsd", "InitialUSD">>, <<"nonce", "Nonce">>>>),
         {<<"type", "createVault">>, <<"name", "Name">>, <<"description", "Description">>,
          <<"initialUsd", "InitialUSD">>, <<"nonce", "Nonce">>}),
     VaultModifyAction |-> Codec(
         Map(4, <<<<"type", "vaultModify">>, <<"vaultAddress", "VaultAddress">>,
                  <<"allowDeposits", OrNull(o, "AllowDeposits")>>,
                  <<"alwaysCloseOnWithdraw", OrNull(o, "AlwaysCloseOnWithdraw")>>>>),
         {<<"type", "vaultModify">>, <<"vaultAddress", "VaultAddress">>,
          <<"allowDeposits", OrNull(o, "AllowDeposits")>>,
          <<"alwaysCloseOnWithdraw", OrNull(o, "AlwaysCloseOnWithdraw")>>}),
     VaultDistributeAction |-> Codec(
         Map(3, <<<<"type", "vaultDistribute">>, <<"vaultAddress", "VaultAddress">>, <<"usd", "USD">>>>),
         {<<"type", "vaultDistribute">>, <<"vaultAddress", "VaultAddress">>, <<"usd", "USD">>})]

NameCodecs ==
    [SubAccountModifyAction |-> Codec(
         Map(3, <<<<"type", "subAccountModify">>, <<"subAccountUser", "SubAccountUser">>, <<"name", "Name">>>>),
         {<<"type", "subAccountModify">>, <<"subAccountUser", "SubAccountUser">>, <<"name", "Name">>}),
     SetDisplayNameAction |-> Codec(
         Map(2, <<<<"type", "setDisplayName">>, <<"displayName", "DisplayName">>>>),
         {<<"type", "setDisplayName">>, <<"displayName", "DisplayName">>})]

LegacyCodecs ==
    [SetReferrerAction |-> Codec(Map(2, <<<<"type", "setReferrer">>, <<"code", "Code">>>>),
                                 {<<"type", "setReferrer">>, <<"code", "Code">>}),
     CreateSubAccountAction |-> Codec(Map(2, <<<<"type", "createSubAccount">>, <<"name", "Name">>>>),
                                      {<<"type", "createSubAccount">>, <<"name", "Name">>})]

----------------------------------------------------------------------------
(* signing/deploy_actions.go *)

PerpDeployKey ==
    [RegisterAsset |-> "registerAsset", RegisterAsset2 |-> "registerAsset2", SetOracle |-> "setOracle",
     SetFundingMultipliers |-> "setFundingMultipliers",
     SetFundingInterestRates |-> "setFundingInterestRates", HaltTrading |-> "haltTrading",
     SetMarginTableIDs |-> "setMarginTableIds", InsertMarginTable |-> "insertMarginTable",
     SetFeeRecipient |-> "setFeeRecipient", SetOpenInterestCaps |-> "setOpenInterestCaps",
     SetSubDeployers |-> "setSubDeployers", SetMarginModes |-> "setMarginModes",
     SetFeeScale |-> "setFeeScale", SetGrowthModes |-> "setGrowthModes",
     SetPerpAnnotation |-> "setPerpAnnotation", DisableDEX |-> "disableDex"]
SpotDeployKey ==
    [RegisterToken2 |-> "registerToken2", UserGenesis |-> "userGenesis", Genesis |-> "genesis",
     RegisterSpot |-> "registerSpot", RegisterHyperliquidity |-> "registerHyperliquidity",
     SetDeployerTradingFeeShare |-> "setDeployerTradingFeeShare", EnableQuoteToken |-> "enableQuoteToken",
     DisableQuoteToken |-> "disableQuoteToken", RequestEVMContract |-> "requestEvmContract",
     EnableAlignedQuoteToken |-> "enableAlignedQuoteToken", EnableFreezePrivilege |-> "enableFreezePrivilege",
     FreezeUser |-> "freezeUser", RevokeFreezePrivilege |-> "revokeFreezePrivilege"]

DeployCodecs(o) ==
    LET perp == <<PerpDeployKey[Variant(o)], Variant(o)>>
        spot == <<SpotDeployKey[Variant(o)], Variant(o)>>
    IN IF Variant(o) \in DOMAIN PerpDeployKey
       THEN Codec(Map(2, <<<<"type", "perpDeploy">>, perp>>), {<<"type", "perpDeploy">>, perp})
       ELSE Codec(Map(2, <<<<"type", "spotDeploy">>, spot>>), {<<"type", "spotDeploy">>, spot})

PairCodecs ==
    [StringPair |-> Codec(Array(2, <<"Key", "Value">>), ArrayJSON(<<"Key", "Value">>)),
     StringUintPair |-> Codec(Array(2, <<"Key", "Value">>), ArrayJSON(<<"Key", "Value">>)),
     StringBoolPair |-> Codec(Array(2, <<"Key", "Value">>), ArrayJSON(<<"Key", "Value">>))]

SchemaCodecs(o) ==
    LET updater == <<"oracleUpdater", IF "OracleUpdater" \in o THEN "lower(OracleUpdater)" ELSE "null">>
    IN [PerpDexSchemaInput |-> Codec(
            Map(3, <<<<"fullName", "FullName">>, <<"collateralToken", "CollateralToken">>, updater>>),
            {<<"fullName", "FullName">>, <<"collateralToken", "CollateralToken">>, updater})]

\* Nil maxGas and schema stay present as nulls in both encodings, although the
\* struct tags say omitempty.
RegisterAssetCodecs(o) ==
    LET request(last) == Tagged(<<<<"coin", "Coin">>, <<"szDecimals", "SzDecimals">>, <<"oraclePx", "OraclePx">>,
                                  <<"marginTableId", "MarginTableID">>, last>>)
        register == Codec(
            Map(4, <<<<"maxGas", OrNull(o, "MaxGas")>>, <<"assetRequest", "AssetRequest">>, <<"dex", "DEX">>,
                     <<"schema", OrNull(o, "Schema")>>>>),
            {<<"maxGas", OrNull(o, "MaxGas")>>, <<"assetRequest", "AssetRequest">>, <<"dex", "DEX">>,
             <<"schema", OrNull(o, "Schema")>>})
    IN [RegisterAssetRequest |-> request(<<"onlyIsolated", "OnlyIsolated">>),
        RegisterAssetRequest2 |-> request(<<"marginMode", "MarginMode">>),
        RegisterAsset |-> register, RegisterAsset2 |-> register]

OracleCodecs ==
    [SetOracle |-> Tagged(<<<<"dex", "DEX">>, <<"oraclePxs", "OraclePxs">>, <<"markPxs", "MarkPxs">>,
                            <<"externalPerpPxs", "ExternalPerpPxs">>>>),
     SetFundingMultipliers |-> Codec(Lone("Values"), ArrayJSON(<<"Values">>)),
     SetFundingInterestRates |-> Codec(Lone("Values"), ArrayJSON(<<"Values">>)),
     HaltTrading |-> Tagged(<<<<"coin", "Coin">>, <<"isHalted", "IsHalted">>>>),
     SetMarginTableIDs |-> Codec(Lone("Values"), ArrayJSON(<<"Values">>)),
     RawMarginTier |-> Tagged(<<<<"lowerBound", "LowerBound">>, <<"maxLeverage", "MaxLeverage">>>>),
     RawMarginTable |-> Tagged(<<<<"description", "Description">>, <<"marginTiers", "MarginTiers">>>>),
     InsertMarginTable |-> Tagged(<<<<"dex", "DEX">>, <<"marginTable", "MarginTable">>>>)]

DeployerCodecs ==
    [SetFeeRecipient |-> Codec(
         Map(2, <<<<"dex", "DEX">>, <<"feeRecipient", "lower(FeeRecipient)">>>>),
         {<<"dex", "DEX">>, <<"feeRecipient", "lower(FeeRecipient)">>}),
     SetOpenInterestCaps |-> Codec(Lone("Values"), ArrayJSON(<<"Values">>)),
     SubDeployerInput |-> Codec(
         Map(3, <<<<"variant", "Variant">>, <<"user", "lower(User)">>, <<"allowed", "Allowed">>>>),
         {<<"variant", "Variant">>, <<"user", "lower(User)">>, <<"allowed", "Allowed">>}),
     SetSubDeployers |-> Tagged(<<<<"dex", "DEX">>, <<"subDeployers", "SubDeployers">>>>)]

ModeCodecs(o) ==
    [CoinMarginMode |-> Codec(Array(2, <<"Coin", "Mode">>), ArrayJSON(<<"Coin", "Mode">>)),
     SetMarginModes |-> Codec(Lone("Values"), ArrayJSON(<<"Values">>)),
     SetFeeScale |-> Tagged(<<<<"dex", "DEX">>, <<"scale", "Scale">>>>),
     SetGrowthModes |-> Codec(Lone("Values"), ArrayJSON(<<"Values">>)),
     SetPerpAnnotation |-> Tagged(
         <<<<"coin", "Coin">>, <<"category", "Category">>, <<"description", "Description">>,
           <<"displayName", OrNull(o, "DisplayName")>>, <<"keywords", OrNull(o, "Keywords")>>>>),
     DisableDEX |-> Codec(Lone("DEX"), ArrayJSON(<<"DEX">>))]

\* omitempty in both tags: an unset field is absent from both encodings.
GenesisCodecs(o) ==
    [RegisterToken2 |-> Tagged(<<<<"spec", "Spec">>, <<"maxGas", "MaxGas">>>> \o IfSet(o, "FullName", "fullName")),
     TokenSpec |-> Tagged(<<<<"name", "Name">>, <<"szDecimals", "SzDecimals">>, <<"weiDecimals", "WeiDecimals">>>>),
     AddressWei |-> Codec(Array(2, <<"lower(User)", "Wei">>), ArrayJSON(<<"lower(User)", "Wei">>)),
     TokenWei |-> Codec(Array(2, <<"Token", "Wei">>), ArrayJSON(<<"Token", "Wei">>)),
     AddressBlacklist |-> Codec(Array(2, <<"lower(User)", "Blacklisted">>),
                                ArrayJSON(<<"lower(User)", "Blacklisted">>)),
     UserGenesis |-> Tagged(
         <<<<"token", "Token">>, <<"userAndWei", "UserAndWei">>,
           <<"existingTokenAndWei", "ExistingTokenAndWei">>>> \o IfSet(o, "BlacklistUsers", "blacklistUsers")),
     Genesis |-> Tagged(<<<<"token", "Token">>, <<"maxSupply", "MaxSupply">>>>
                           \o IfSet(o, "NoHyperliquidity", "noHyperliquidity"))]

SpotCodecs(o) ==
    LET token == Tagged(<<<<"token", "Token">>>>)
    IN [RegisterSpot |-> Tagged(<<<<"tokens", "Tokens">>>>),
        RegisterHyperliquidity |-> Tagged(
            <<<<"spot", "Spot">>, <<"startPx", "StartPx">>, <<"orderSz", "OrderSz">>, <<"nOrders", "NOrders">>>>
               \o IfSet(o, "NSeededLevels", "nSeededLevels")),
        SetDeployerTradingFeeShare |-> Tagged(<<<<"token", "Token">>, <<"share", "Share">>>>),
        EnableQuoteToken |-> token, DisableQuoteToken |-> token,
        RequestEVMContract |-> Codec(
            Map(3, <<<<"token", "Token">>, <<"address", "lower(Address)">>,
                     <<"evmExtraWeiDecimals", "EVMExtraWeiDecimals">>>>),
            {<<"token", "Token">>, <<"address", "lower(Address)">>,
             <<"evmExtraWeiDecimals", "EVMExtraWeiDecimals">>})]

FreezeCodecs ==
    LET token == Tagged(<<<<"token", "Token">>>>)
    IN [EnableAlignedQuoteToken |-> token, EnableFreezePrivilege |-> token, RevokeFreezePrivilege |-> token,
        FreezeUser |-> Codec(
            Map(3, <<<<"token", "Token">>, <<"user", "lower(User)">>, <<"freeze", "Freeze">>>>),
            {<<"token", "Token">>, <<"user", "lower(User)">>, <<"freeze", "Freeze">>})]

----------------------------------------------------------------------------
(* The L1 actions: signing/l1_contract.go seals the set. *)

L1ActionTypes ==
    {"CancelAction", "OrderAction", "CancelByCloidAction", "ScheduleCancelAction", "TWAPOrderAction",
     "TWAPCancelAction", "SubaccountTransferAction", "SubaccountSpotTransferAction", "VaultTransferAction",
     "BatchModifyAction", "UpdateLeverageAction", "UpdateIsolatedMarginAction",
     "TopUpIsolatedOnlyMarginAction", "ReserveRequestWeightAction", "NoopAction",
     "AgentEnableDexAbstractionAction", "AgentSetAbstractionAction", "AgentSendAssetAction",
     "AuthorizeAQAV2RoleAction", "HIP3LiquidatorTransferAction", "UserOutcomeAction",
     "ValidatorL1StreamAction", "ClaimRewardsAction", "SetReferrerAction", "CreateSubAccountAction",
     "CreateVaultAction", "VaultModifyAction", "VaultDistributeAction", "SubAccountModifyAction",
     "SetDisplayNameAction", "PerpDeployAction", "SpotDeployAction", "EVMUserModifyAction",
     "GossipPriorityBidAction", "CValidatorAction", "CSignerAction", "FinalizeEVMContractAction"}

\* Union actions: their shape is the variant, and the empty shape is the nil
\* variant that both encoders refuse.
VariantsOf ==
    [CSignerAction |-> DOMAIN CSignerEntry, CValidatorAction |-> DOMAIN CValidatorEntry,
     FinalizeEVMContractAction |-> DOMAIN FinalizeEVMInput,
     PerpDeployAction |-> DOMAIN PerpDeployKey, SpotDeployAction |-> DOMAIN SpotDeployKey]

\* The pointer, slice and omitempty fields of the other types.
OptionalFields ==
    [OrderAction |-> {"Builder"}, OrderWire |-> {"Cloid"}, ModifyWire |-> {"Cloid"},
     ScheduleCancelAction |-> {"Time"}, MergeOutcome |-> {"Amount"}, MergeQuestion |-> {"Amount"},
     UserOutcomeAction |-> OutcomeVariants,
     CValidatorChangeProfile |-> {"NodeIP", "Name", "Description", "DisableDelegations", "CommissionBPS", "Signer"},
     VaultModifyAction |-> {"AllowDeposits", "AlwaysCloseOnWithdraw"},
     PerpDexSchemaInput |-> {"OracleUpdater"}, RegisterAsset |-> {"MaxGas", "Schema"},
     RegisterAsset2 |-> {"MaxGas", "Schema"}, SetPerpAnnotation |-> {"DisplayName", "Keywords"},
     RegisterToken2 |-> {"FullName"}, UserGenesis |-> {"BlacklistUsers"}, Genesis |-> {"NoHyperliquidity"},
     RegisterHyperliquidity |-> {"NSeededLevels"}, ApproveAgentAction |-> {"AgentName"},
     SendAssetAction |-> {"FromSubAccount"}, ConvertToMultiSigUserAction |-> {"Signers"}]

Shapes(t) ==
    CASE t \in DOMAIN VariantsOf -> {{v} : v \in VariantsOf[t]} \cup {{}}
      [] t \in DOMAIN OptionalFields -> SUBSET OptionalFields[t]
      [] OTHER -> {{}}

\* validate in both encoders: a union value holds exactly one variant.
Encodable(t, o) ==
    t \in DOMAIN VariantsOf \cup {"UserOutcomeAction"} => Cardinality(o) = 1

\* The codecs of the other types, a table for each group of them.
CodecTables(o) ==
    {Paired(CancelOrderMsgpack(o), OrderJSON(o)), Paired(OrderWireMsgpack(o), OrderJSON(o)),
     CancelCodecs(o), TWAPCodecs, TransferCodecs, ModifyCodecs(o), MarginCodecs, WeightCodecs,
     AgentCodecs, AQACodecs, LiquidatorCodecs, ValidatorCodecs, EVMGossipCodecs,
     CValidatorVariantCodecs(o), CValidatorProfileCodecs, FinalizeEVMInputCodecs, VaultCodecs(o),
     NameCodecs, LegacyCodecs, PairCodecs, SchemaCodecs(o), RegisterAssetCodecs(o), OracleCodecs,
     DeployerCodecs, ModeCodecs(o), GenesisCodecs(o), SpotCodecs(o), FreezeCodecs}
Lookup(tables, t) == (CHOOSE table \in tables : t \in DOMAIN table)[t]

CodecOf(t, o) ==
    CASE t = "CSignerAction" -> CSignerCodec(o)
      [] t = "CValidatorAction" -> CValidatorCodec(o)
      [] t = "FinalizeEVMContractAction" -> FinalizeEVMCodec(o)
      [] t \in {"PerpDeployAction", "SpotDeployAction"} -> DeployCodecs(o)
      [] t = "UserOutcomeAction" -> Codec(OutcomeMsgpack(o)[t], OutcomeActionJSON(o))
      [] t \in OutcomeVariants -> Codec(OutcomeMsgpack(o)[t], OutcomeVariantJSON(o)[t])
      [] OTHER -> Lookup(CodecTables(o), t)

\* The wire types an action or a variant of it can contain.
Nested ==
    [OrderAction |-> {"OrderWire", "BuilderWire", "LimitOrderType", "LimitBody", "TriggerOrderType", "TriggerBody"},
     BatchModifyAction |-> {"ModifyWire", "OrderWire"}, CancelAction |-> {"CancelWire"},
     CancelByCloidAction |-> {"CancelByCloidWire"}, TWAPOrderAction |-> {"TWAPWire"},
     UserOutcomeAction |-> OutcomeVariants,
     CValidatorAction |-> {"CValidatorRegister", "CValidatorChangeProfile", "CValidatorProfile"},
     FinalizeEVMContractAction |-> {"FinalizeEVMCreate", "CreateBody"},
     PerpDeployAction |-> DOMAIN PerpDeployKey \cup {"PerpDexSchemaInput", "RegisterAssetRequest",
         "RegisterAssetRequest2", "StringPair", "StringUintPair", "StringBoolPair", "CoinMarginMode",
         "RawMarginTier", "RawMarginTable", "SubDeployerInput"},
     SpotDeployAction |-> DOMAIN SpotDeployKey \cup {"TokenSpec", "AddressWei", "TokenWei", "AddressBlacklist"}]
NestedIn(t) == IF t \in DOMAIN Nested THEN Nested[t] ELSE {}

----------------------------------------------------------------------------
(* User actions: signing/user_action.go and the user-signed actions of the  *)
(* other files.  typed is the EIP-712 message, wire the posted JSON.        *)

UserCodec(typed, wire) == [typed |-> typed, wire |-> wire]
Chain == <<"hyperliquidChain", "Network">>
WireHead(type) == {<<"type", type>>, Chain, <<"signatureChainId", "0x66eee">>}

USDSendCodec ==
    [USDSendAction |-> UserCodec(
         {Chain, <<"destination", "Destination">>, <<"amount", "Amount">>, <<"time", "Time">>},
         WireHead("usdSend") \cup
             {<<"destination", "Destination">>, <<"amount", "Amount">>, <<"time", "Time">>})]

SpotUserCodecs ==
    [SpotSendAction |-> UserCodec(
         {Chain, <<"destination", "Destination">>, <<"token", "Token">>, <<"amount", "Amount">>,
          <<"time", "Time">>},
         WireHead("spotSend") \cup
             {<<"destination", "Destination">>, <<"token", "Token">>, <<"amount", "Amount">>,
              <<"time", "Time">>}),
     WithdrawFromBridgeAction |-> UserCodec(
         {Chain, <<"destination", "Destination">>, <<"amount", "Amount">>, <<"time", "Time">>},
         WireHead("withdraw3") \cup
             {<<"destination", "Destination">>, <<"amount", "Amount">>, <<"time", "Time">>}),
     USDClassTransferAction |-> UserCodec(
         {Chain, <<"amount", "Amount">>, <<"toPerp", "ToPerp">>, <<"nonce", "Nonce">>},
         WireHead("usdClassTransfer") \cup
             {<<"amount", "Amount">>, <<"toPerp", "ToPerp">>, <<"nonce", "Nonce">>})]

SendAssetCodec(o) ==
    LET from == <<"fromSubAccount", IF "FromSubAccount" \in o THEN "FromSubAccount" ELSE "">>
    IN [SendAssetAction |-> UserCodec(
            {Chain, <<"destination", "Destination">>, <<"sourceDex", "SourceDEX">>,
             <<"destinationDex", "DestinationDEX">>, <<"token", "Token">>, <<"amount", "Amount">>,
             from, <<"nonce", "Nonce">>},
            WireHead("sendAsset") \cup
                {<<"destination", "Destination">>, <<"sourceDex", "SourceDEX">>,
                 <<"destinationDex", "DestinationDEX">>, <<"token", "Token">>, <<"amount", "Amount">>,
                 from, <<"nonce", "Nonce">>})]

\* A nil agent name is signed as "" and left out of the wire.
ApprovalCodecs(o) ==
    [ApproveAgentAction |-> UserCodec(
         {Chain, <<"agentAddress", "AgentAddress">>, <<"nonce", "Nonce">>,
          <<"agentName", IF "AgentName" \in o THEN "AgentName" ELSE "">>},
         WireHead("approveAgent") \cup {<<"agentAddress", "AgentAddress">>, <<"nonce", "Nonce">>}
             \cup IfSetJSON(o, "AgentName", "agentName")),
     ApproveBuilderFeeAction |-> UserCodec(
         {Chain, <<"maxFeeRate", "MaxFeeRate">>, <<"builder", "Builder">>, <<"nonce", "Nonce">>},
         WireHead("approveBuilderFee") \cup
             {<<"maxFeeRate", "MaxFeeRate">>, <<"builder", "Builder">>, <<"nonce", "Nonce">>})]

SendToEVMCodec ==
    [SendToEVMWithDataAction |-> UserCodec(
         {Chain, <<"token", "Token">>, <<"amount", "Amount">>, <<"sourceDex", "SourceDEX">>,
          <<"destinationRecipient", "DestinationRecipient">>, <<"addressEncoding", "AddressEncoding">>,
          <<"destinationChainId", "DestinationChainID">>, <<"gasLimit", "GasLimit">>,
          <<"data", "hex(Data)">>, <<"nonce", "Nonce">>},
         WireHead("sendToEvmWithData") \cup
             {<<"token", "Token">>, <<"amount", "Amount">>, <<"sourceDex", "SourceDEX">>,
              <<"destinationRecipient", "DestinationRecipient">>, <<"addressEncoding", "AddressEncoding">>,
              <<"destinationChainId", "DestinationChainID">>, <<"gasLimit", "GasLimit">>,
              <<"data", "hex(Data)">>, <<"nonce", "Nonce">>})]

StakingCodecs ==
    [CDepositAction |-> UserCodec({Chain, <<"wei", "Wei">>, <<"nonce", "Nonce">>},
                                  WireHead("cDeposit") \cup {<<"wei", "Wei">>, <<"nonce", "Nonce">>}),
     CWithdrawAction |-> UserCodec({Chain, <<"wei", "Wei">>, <<"nonce", "Nonce">>},
                                   WireHead("cWithdraw") \cup {<<"wei", "Wei">>, <<"nonce", "Nonce">>}),
     TokenDelegateAction |-> UserCodec(
         {Chain, <<"validator", "Validator">>, <<"wei", "Wei">>, <<"isUndelegate", "IsUndelegate">>,
          <<"nonce", "Nonce">>},
         WireHead("tokenDelegate") \cup
             {<<"validator", "Validator">>, <<"wei", "Wei">>, <<"isUndelegate", "IsUndelegate">>,
              <<"nonce", "Nonce">>})]

AbstractionCodecs ==
    [UserDexAbstractionAction |-> UserCodec(
         {Chain, <<"user", "User">>, <<"enabled", "Enabled">>, <<"nonce", "Nonce">>},
         WireHead("userDexAbstraction") \cup
             {<<"user", "User">>, <<"enabled", "Enabled">>, <<"nonce", "Nonce">>}),
     UserSetAbstractionAction |-> UserCodec(
         {Chain, <<"user", "User">>, <<"abstraction", "Abstraction">>, <<"nonce", "Nonce">>},
         WireHead("userSetAbstraction") \cup
             {<<"user", "User">>, <<"abstraction", "Abstraction">>, <<"nonce", "Nonce">>})]

\* signersJSON: the sorted signer set as one JSON string, or the string "null".
ConvertCodec(o) ==
    LET signers == <<"signers", IF "Signers" \in o THEN "json(sorted(Signers))" ELSE "null">>
    IN [ConvertToMultiSigUserAction |-> UserCodec(
            {Chain, signers, <<"nonce", "Nonce">>},
            WireHead("convertToMultiSigUser") \cup {signers, <<"nonce", "Nonce">>})]

UserTables(o) ==
    {USDSendCodec, SpotUserCodecs, SendAssetCodec(o), ApprovalCodecs(o), SendToEVMCodec,
     StakingCodecs, AbstractionCodecs, ConvertCodec(o)}
UserCodecOf(t, o) == Lookup(UserTables(o), t)
\* The set signing/user_action.go seals.
UserActionTypes == UNION {DOMAIN table : table \in UserTables({})}

\* The action embedded in a multi-sig payload: two abstraction actions are
\* rewritten, every other one is its ordinary wire struct.
MultiSigUserPayloadWire(t, o) ==
    CASE t = "UserSetAbstractionAction" ->
             WireHead("userSetAbstraction") \cup
                 {<<"user", "lower(User)">>, <<"abstraction", "compact(Abstraction)">>, <<"nonce", "Nonce">>}
      [] t = "UserDexAbstractionAction" ->
             WireHead("userDexAbstraction") \cup
                 {<<"user", "lower(User)">>, <<"enabled", "Enabled">>, <<"nonce", "Nonce">>}
      [] OTHER -> UserCodecOf(t, o).wire

----------------------------------------------------------------------------
(* Multi-sig: signing/multisig.go. *)

\* A struct without a MarshalMsgpack method or msgpack tags is encoded under its
\* Go field names: the payload's user-action structs only have json tags.
Reflected(wire) == {<<"Go " \o e[1], e[2]>> : e \in wire}

CompactSignatureCodec == Codec(Map(3, <<<<"r", "R">>, <<"s", "S">>, <<"v", "V">>>>),
                               {<<"r", "R">>, <<"s", "S">>, <<"v", "V">>})
MultiSigPayloadCodec == Codec(
    Map(3, <<<<"multiSigUser", "MultiSigUser">>, <<"outerSigner", "OuterSigner">>, <<"action", "Action">>>>),
    {<<"multiSigUser", "MultiSigUser">>, <<"outerSigner", "OuterSigner">>, <<"action", "Action">>})
\* The envelope is hashed without its wire-only type.
MultiSigEnvelopeCodec == Codec(
    Map(3, <<<<"signatureChainId", "SignatureChainID">>, <<"signatures", "Signatures">>,
             <<"payload", "Payload">>>>),
    {<<"type", "multiSig">>, <<"signatureChainId", "SignatureChainID">>,
     <<"signatures", "Signatures">>, <<"payload", "Payload">>})

----------------------------------------------------------------------------
(* List validators: a value is [key, num]; key 0 is a blank string, num is    *)
(* BadDecimal for a string that is not a decimal.                            *)

BadDecimal == 99
KeyFollowsOrRepeats(last, key) == last = 0 \/ key >= last
KeyFollows(last, key) == last = 0 \/ key > last
\* The loop of validSortedDecimalPairs and its siblings: last = 0 is "".
SortedKeys(values) ==
    \A i \in DOMAIN values :
        LET last == IF i = 1 THEN 0 ELSE values[i - 1].key
        IN values[i].key # 0 /\ KeyFollows(last, values[i].key)
validSortedDecimalPairs(values) ==
    SortedKeys(values) /\ \A i \in DOMAIN values : values[i].num # BadDecimal
validSortedUnsignedDecimalPairs(values) ==
    SortedKeys(values) /\ \A i \in DOMAIN values : values[i].num # BadDecimal /\ values[i].num >= 0
validSortedUintPairs(values) == SortedKeys(values)

\* Tiers and sub-deployers compare two fields with the entry before: bounds
\* increase and leverage never does; variant then user strictly increases.
validMarginTiers(tiers) ==
    /\ Len(tiers) \in 1..3
    /\ \A i \in DOMAIN tiers :
        /\ tiers[i].num \in 1..50
        /\ i > 1 => tiers[i].key > tiers[i - 1].key /\ tiers[i].num <= tiers[i - 1].num
validSubDeployers(subs) ==
    /\ subs # <<>>
    /\ \A i \in DOMAIN subs :
        /\ subs[i].key # 0 /\ subs[i].num # BadDecimal
        /\ i > 1 => ~(subs[i].key < subs[i - 1].key
                        \/ (subs[i].key = subs[i - 1].key /\ subs[i].num <= subs[i - 1].num))

ListVariants == {"SetFundingMultipliers", "SetFundingInterestRates", "SetMarginTableIDs",
                 "SetOpenInterestCaps", "SetMarginModes", "SetGrowthModes", "InsertMarginTable",
                 "SetSubDeployers"}
validatePerpDeploy(variant, list) ==
    CASE variant = "SetFundingMultipliers" -> validSortedUnsignedDecimalPairs(list)
      [] variant = "SetFundingInterestRates" ->
             validSortedDecimalPairs(list) /\ \A i \in DOMAIN list : list[i].num \in -1..1
      [] variant \in {"SetMarginTableIDs", "SetOpenInterestCaps"} ->
             validSortedUintPairs(list) /\ \A i \in DOMAIN list : list[i].num # 0
      [] variant = "SetMarginModes" ->
             SortedKeys(list) /\ \A i \in DOMAIN list : list[i].num # BadDecimal
      [] variant = "SetGrowthModes" -> SortedKeys(list)
      [] variant = "InsertMarginTable" -> validMarginTiers(list)
      [] variant = "SetSubDeployers" -> validSubDeployers(list)
      [] OTHER -> TRUE

----------------------------------------------------------------------------
(* Agreement: what the signer hashed is what the server reads. *)

\* A decoder reads exactly len entries and sees each key once.
Agrees(codec) ==
    /\ codec.bytes.len = Len(codec.bytes.entries)
    /\ \A i, j \in DOMAIN codec.bytes.entries :
           codec.bytes.entries[i][1] = codec.bytes.entries[j][1] => i = j
    /\ ToSet(codec.bytes.entries) = codec.json

\* Every signed field is posted with the same value (an empty string may be
\* left out), and nothing but the type and the signature chain is posted unsigned.
UserAgrees(codec) ==
    /\ \A e \in codec.typed : e \in codec.wire \/ (e[2] = "" /\ \A w \in codec.wire : w[1] # e[1])
    /\ \A w \in codec.wire : w \in codec.typed \/ w[1] \in {"type", "signatureChainId"}

NestedTypes == UNION {Nested[t] : t \in DOMAIN Nested}
\* The nested wire types whose encodings differ for some shape.
Disagreeing == {t \in NestedTypes : \E o \in Shapes(t) : Encodable(t, o) /\ ~Agrees(CodecOf(t, o))}
=============================================================================
