---------------------------- MODULE MainnetPools -----------------------------
(***************************************************************************)
(* deploy/mainnet/200 to 270 and 460 to 482: the meta pools in three       *)
(* versions, the bridge of the virtual swaps, the migrator and the pools   *)
(* with FRAX.                                                              *)
(***************************************************************************)
EXTENDS DeploySteps

TBTCMetaPoolTokens_200 == Script("200_check_TBTCMetaPoolTokens", {"TBTCMetaPoolTokens"}, <<"BTCPoolV2">>,
  Tokens(<<"TBTCv2">>))

\* A meta pool cloned from one that a script deployed itself.
ClonedMetaPool(pool, target, token, base) ==
  FactoryPool(pool, "SwapDeployer", {token, LP(base), target, "LPToken", base}, {"LPToken"})

TBTCMetaPool_201 == Script("201_deploy_TBTCMetaPool", {"TBTCMetaPool"},
  <<"LPToken", "USDMetaPool", "TBTCMetaPoolTokens", "BTCPoolV2">>,
  ClonedMetaPool("SaddleTBTCMetaPool", "SaddleSUSDMetaPool", "TBTCv2", "SaddleBTCPoolV2"))

TBTCMetaPoolDeposit_202 == Script("202_deploy_TBTCMetaPoolDeposit", {"TBTCMetaPoolDeposit"},
  <<"TBTCMetaPoolTokens", "TBTCMetaPool">>,
  ClonedDeposit("SaddleTBTCMetaPoolDeposit", "SaddleSUSDMetaPoolDeposit",
    "SaddleBTCPoolV2", "SaddleTBTCMetaPool"))

WCUSDMetaPoolTokens_210 == Script("210_check_CUSDMetaPoolTokens", {"WCUSDMetaPoolTokens"}, <<"USDPoolV2">>,
  Tokens(<<"WCUSD">>))

WCUSDMetaPool_211 == Script("211_deploy_CUSDMetaPool", {"WCUSDMetaPool"},
  <<"WCUSDMetaPoolTokens", "USDPoolV2", "MetaSwapUtils", "AmplificationUtils">>,
  OwnMetaPool("SaddleWCUSDMetaPool", {"WCUSD", LP("SaddleUSDPoolV2"), "SaddleUSDPoolV2"}, << >>))

WCUSDMetaPoolDeposit_212 == Script("212_deploy_CUSDMetaPoolDeposit", {"WCUSDMetaPoolDeposit"},
  <<"WCUSDMetaPoolTokens", "WCUSDMetaPool">>,
  UnlessSaved("SaddleWCUSDMetaPoolDeposit",
    Deploy("SaddleWCUSDMetaPoolDeposit")
      \o Get({"SaddleUSDPoolV2", "SaddleWCUSDMetaPool", LP("SaddleWCUSDMetaPool")})
      \o Initialize("SaddleWCUSDMetaPoolDeposit")))

SynthSwapper_220 == Script("220_deploy_SynthSwapper", {"SynthSwapper"}, << >>, Deploy("SynthSwapper"))

Bridge_230 == Script("230_deploy_Bridge", {"Bridge"}, <<"SynthSwapper">>,
  OnMainnet(Get({"SynthSwapper"}) \o Deploy("Bridge")))

\* read(getSynthIndex) in a try: it reverts for a pool whose index is not set.
InitializeBridge_231 ==
  LET synthPools == <<"SaddleBTCPool", "SaddleALETHPool", "SaddleSUSDMetaPoolDeposit">>
      SetSynthIndex(pool) == Try("Bridge", pool)
  IN Script("231_initialize_Bridge", {"Bridge"}, <<"SynthSwapper">>,
       Get(ToSet(synthPools)) \o OnMainnet(ForEach(synthPools, SetSynthIndex)))

SUSDMetaPoolUpdated_240 == Script("240_deploy_SUSDMetaPoolUpdated", {"SaddleSUSDMetaPoolUpdated"},
  <<"SUSDMetaPoolTokens", "USDPoolV2", "MetaSwapUtils", "AmplificationUtils">>,
  OwnMetaPool("SaddleSUSDMetaPoolUpdated", {"SUSD", LP("SaddleUSDPoolV2"), "SaddleUSDPoolV2"},
    <<"MetaSwapUpdated">>))

SUSDMetaPoolUpdatedDeposit_241 == Script("241_deploy_SUSDMetaPoolUpdatedDeposit",
  {"SUSDMetaPoolUpdatedDeposit"}, <<"SUSDMetaPoolTokens", "SUSDMetaPoolUpdated">>,
  ClonedDeposit("SaddleSUSDMetaPoolUpdatedDeposit", "SaddleSUSDMetaPoolDeposit",
    "SaddleUSDPoolV2", "SaddleSUSDMetaPoolUpdated"))

TBTCMetaPoolUpdated_250 == Script("250_deploy_TBTCMetaPoolUpdated", {"TBTCMetaPoolUpdated"},
  <<"LPToken", "USDMetaPool", "TBTCMetaPoolTokens", "BTCPoolV2">>,
  ClonedMetaPool("SaddleTBTCMetaPoolUpdated", "SaddleSUSDMetaPoolUpdated", "TBTCv2", "SaddleBTCPoolV2"))

TBTCMetaPoolUpdatedDeposit_251 == Script("251_deploy_TBTCMetaPoolUpdatedDeposit",
  {"TBTCMetaPoolUpdatedDeposit"}, <<"TBTCMetaPoolTokens", "TBTCMetaPoolUpdated">>,
  ClonedDeposit("SaddleTBTCMetaPoolUpdatedDeposit", "SaddleSUSDMetaPoolDeposit",
    "SaddleBTCPoolV2", "SaddleTBTCMetaPoolUpdated"))

WCUSDMetaPoolUpdated_260 == Script("260_deploy_CUSDMetaPoolUpdated", {"WCUSDMetaPoolUpdated"},
  <<"WCUSDMetaPoolTokens", "USDPoolV2", "MetaSwapUtils", "AmplificationUtils">>,
  ClonedMetaPool("SaddleWCUSDMetaPoolUpdated", "SaddleSUSDMetaPoolUpdated", "WCUSD", "SaddleUSDPoolV2"))

WCUSDMetaPoolUpdatedDeposit_261 == Script("261_deploy_CUSDMetaPoolUpdatedDeposit",
  {"WCUSDMetaPoolUpdatedDeposit"}, <<"WCUSDMetaPoolTokens", "WCUSDMetaPoolUpdated">>,
  ClonedDeposit("SaddleWCUSDMetaPoolUpdatedDeposit", "SaddleSUSDMetaPoolDeposit",
    "SaddleUSDPoolV2", "SaddleWCUSDMetaPoolUpdated"))

\* What addMigrationData reads of an old pool, the new one and their tokens.
Migrated(old, new, tokens) == {old, new, LP(old), LP(new)} \union tokens

\* The batch adds the data and, on mainnet, gives the migrator away.
GeneralizedSwapMigrator_270 == Script("270_deploy_GeneralizedSwapMigrator", {"GeneralizedSwapMigrator"},
  <<"WCUSDMetaPoolTokens", "WCUSDMetaPoolUpdated">>,
  UnlessSaved("GeneralizedSwapMigrator",
    Deploy("GeneralizedSwapMigrator")
      \o Get(Migrated("SaddleUSDPool", "SaddleUSDPoolV2", {"DAI", "USDC", "USDT"})
             \union Migrated("SaddleSUSDMetaPool", "SaddleSUSDMetaPoolUpdated", {"SUSD"})
             \union Migrated("SaddleTBTCMetaPool", "SaddleTBTCMetaPoolUpdated",
                      {"TBTCv2", LP("SaddleBTCPoolV2")})
             \union Migrated("SaddleWCUSDMetaPool", "SaddleWCUSDMetaPoolUpdated", {"WCUSD"}))
      \o (IF TestNetwork THEN OwnerCall("GeneralizedSwapMigrator", "migration data")
                         ELSE HandOver("GeneralizedSwapMigrator"))))

SUSDMetaPoolV3_460 == Script("460_deploy_SUSDMetaPoolV3", {"SaddleSUSDMetaPoolV3"},
  <<"SUSDMetaPoolTokens", "USDPoolV2", "MetaSwapUtils", "AmplificationUtils">>,
  OwnMetaPool("SaddleSUSDMetaPoolV3", {"SUSD", LP("SaddleUSDPoolV2"), "SaddleUSDPoolV2"}, <<"MetaSwapV3">>))

SUSDMetaPoolV3Deposit_461 == Script("461_deploy_SUSDMetaPoolV3Deposit", {"SaddleSUSDMetaPoolV3Deposit"},
  <<"SUSDMetaPoolTokens", "SaddleSUSDMetaPoolV3">>,
  ClonedDeposit("SaddleSUSDMetaPoolV3Deposit", "MetaSwapDeposit", "SaddleUSDPoolV2", "SaddleSUSDMetaPoolV3"))

TBTCMetaPoolV3_462 == Script("462_deploy_TBTCMetaPoolV3", {"SaddleTBTCMetaPoolV3"},
  <<"LPToken", "TBTCMetaPoolTokens", "BTCPoolV2">>,
  ClonedMetaPool("SaddleTBTCMetaPoolV3", "MetaSwapV3", "TBTCv2", "SaddleBTCPoolV2"))

TBTCMetaPoolV3Deposit_463 == Script("463_deploy_TBTCMetaPoolV3Deposit", {"SaddleTBTCMetaPoolV3Deposit"},
  <<"TBTCMetaPoolTokens", "SaddleTBTCMetaPoolV3">>,
  ClonedDeposit("SaddleTBTCMetaPoolV3Deposit", "MetaSwapDeposit", "SaddleBTCPoolV2", "SaddleTBTCMetaPoolV3"))

WCUSDMetaPoolV3_464 == Script("464_deploy_CUSDMetaPoolV3", {"SaddleWCUSDMetaPoolV3"},
  <<"LPToken", "WCUSDMetaPoolTokens", "USDPoolV2">>,
  ClonedMetaPool("SaddleWCUSDMetaPoolV3", "MetaSwapV3", "WCUSD", "SaddleUSDPoolV2"))

WCUSDMetaPoolV3Deposit_465 == Script("465_deploy_CUSDMetaPoolV3Deposit", {"SaddleWCUSDMetaPoolV3Deposit"},
  <<"WCUSDMetaPoolTokens", "SaddleWCUSDMetaPoolV3">>,
  ClonedDeposit("SaddleWCUSDMetaPoolV3Deposit", "MetaSwapDeposit", "SaddleUSDPoolV2", "SaddleWCUSDMetaPoolV3"))

V3Pools == {"SaddleSUSDMetaPoolV3", "SaddleTBTCMetaPoolV3", "SaddleWCUSDMetaPoolV3"}

RegisterV3Pools_466 == Script("466_register_new_pools", {}, << >>,
  RegisterPools("V3 pools", {"MetaSwapV3"} \union V3Pools \union {p \o "Deposit" : p \in V3Pools}))

\* Returns at once on mainnet, where the multisig owns the migrator.
AddToMigrator_467 == Script("467_add_to_GeneralizedSwapMigrator", {"GeneralizedSwapMigrator"}, << >>,
  OnTestNetwork(
    Get({"GeneralizedSwapMigrator"}
        \union Migrated("SaddleSUSDMetaPoolUpdated", "SaddleSUSDMetaPoolV3", {"SUSD", LP("SaddleUSDPoolV2")})
        \union Migrated("SaddleTBTCMetaPoolUpdated", "SaddleTBTCMetaPoolV3", {"TBTCv2", LP("SaddleBTCPoolV2")})
        \union Migrated("SaddleWCUSDMetaPoolUpdated", "SaddleWCUSDMetaPoolV3", {"WCUSD"}))
      \o OwnerCall("GeneralizedSwapMigrator", "V3 migration data")))

FourPoolTokens_470 == Script("470_check_4poolTokens", {"4poolTokens"}, << >>,
  MissingTokens(<<"DAI", "USDC", "USDT", "FRAX">>))

FourPool_471 == Script("471_deploy_4pool", {"Saddle4Pool"},
  <<"SwapUtils", "SwapFlashLoan", "SwapDeployer", "4poolTokens">>,
  FactoryPool("Saddle4Pool", "SwapDeployer", {"DAI", "USDC", "USDT", "FRAX", "SwapFlashLoan", "LPToken"},
    {"LPToken"}))

Frax3PoolTokens_480 == Script("480_check_frax3poolTokens", {"frax3poolTokens"}, << >>,
  MissingTokens(<<"USDC", "USDT", "FRAX">>))

Frax3Pool_481 == Script("481_deploy_frax3pool", {"SaddleFrax3Pool"},
  <<"SwapUtils", "SwapFlashLoan", "SwapDeployer", "frax3poolTokens">>,
  FactoryPool("SaddleFrax3Pool", "SwapDeployer", {"USDC", "USDT", "FRAX", "SwapFlashLoan", "LPToken"},
    {"LPToken"}))

RegisterFraxPools_482 == Script("482_register_new_pools", {}, << >>,
  RegisterPools("FRAX pools", {"Saddle4Pool", "SaddleFrax3Pool", "SwapFlashLoan"}))

MetaPoolScripts ==
  << TBTCMetaPoolTokens_200, TBTCMetaPool_201, TBTCMetaPoolDeposit_202, WCUSDMetaPoolTokens_210,
     WCUSDMetaPool_211, WCUSDMetaPoolDeposit_212, SynthSwapper_220, Bridge_230, InitializeBridge_231,
     SUSDMetaPoolUpdated_240, SUSDMetaPoolUpdatedDeposit_241, TBTCMetaPoolUpdated_250,
     TBTCMetaPoolUpdatedDeposit_251, WCUSDMetaPoolUpdated_260, WCUSDMetaPoolUpdatedDeposit_261,
     GeneralizedSwapMigrator_270 >>

V3PoolScripts ==
  << SUSDMetaPoolV3_460, SUSDMetaPoolV3Deposit_461, TBTCMetaPoolV3_462, TBTCMetaPoolV3Deposit_463,
     WCUSDMetaPoolV3_464, WCUSDMetaPoolV3Deposit_465, RegisterV3Pools_466, AddToMigrator_467,
     FourPoolTokens_470, FourPool_471, Frax3PoolTokens_480, Frax3Pool_481, RegisterFraxPools_482 >>
==============================================================================
