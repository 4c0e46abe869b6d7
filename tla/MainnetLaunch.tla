---------------------------- MODULE MainnetLaunch ----------------------------
(***************************************************************************)
(* deploy/mainnet/000 to 191: the libraries, the first pools, their second *)
(* versions and the migrator between them.                                 *)
(***************************************************************************)
EXTENDS DeploySteps

\* 000: only sets the base fee of a fork.
PrepareNetwork == Script("000_prepare_network", {"SetupNetwork"}, << >>, << >>)

Allowlist_001 == Script("001_deploy_Allowlist", {"Allowlist"}, << >>, Deploy("Allowlist"))

LPToken_002 == Script("002_deploy_LPToken", {"LPToken"}, << >>,
  OnTestNetwork(Deploy("LPTokenV1"))
    \o UnlessSaved("LPToken", Deploy("LPToken") \o Initialize("LPToken")))

AmplificationUtils_003 == Script("003_deploy_AmplificationUtils", {"AmplificationUtils"}, << >>,
  OnTestNetwork(Deploy("AmplificationUtilsV1")) \o Deploy("AmplificationUtils"))

SwapUtilsGuarded_003 == Script("003_deploy_SwapUtilsGuarded", {"SwapUtilsGuarded"}, << >>,
  Deploy("SwapUtilsGuarded"))

MetaSwapUtils_004 == Script("004_deploy_MetaSwapUtils", {"MetaSwapUtils"}, << >>,
  Deploy("MetaSwapUtils"))

SwapUtils_004 == Script("004_deploy_SwapUtils", {"SwapUtils"}, << >>,
  OnTestNetwork(Deploy("SwapUtilsV1")) \o Deploy("SwapUtils"))

SwapDeployer_005 == Script("005_deploy_SwapDeployer", {"SwapDeployer"}, << >>,
  OnTestNetwork(Deploy("SwapDeployerV1")) \o Deploy("SwapDeployer")
    \o OnMainnet(UnlessHolds("SwapDeployer", "handed over", HandOver("SwapDeployer"))))

\* 006: the two targets that SwapDeployer clones, linked with the libraries.
SwapTarget(target) ==
  OnTestNetwork(Get({"SwapUtilsV1", "AmplificationUtilsV1"}) \o Deploy(target \o "V1"))
    \o Get({"SwapUtils", "AmplificationUtils"}) \o Deploy(target)

Swap_006 == Script("006_deploy_Swap", {"Swap"}, <<"AmplificationUtils", "SwapUtils">>,
  SwapTarget("Swap"))

SwapFlashLoan_006 == Script("006_deploy_SwapFlashLoan", {"SwapFlashLoan"},
  <<"AmplificationUtils", "SwapUtils", "LPToken">>, SwapTarget("SwapFlashLoan"))

BTCPoolTokens_100 == Script("100_check_BTCPoolTokens", {"BTCPoolTokens"}, << >>,
  Tokens(<<"TBTC", "WBTC", "RENBTC", "SBTC">>))

\* The constructor of SwapGuarded initializes the pool.
BTCPool_101 == Script("101_deploy_BTCPool", {"BTCPool"},
  <<"Allowlist", "SwapUtilsGuarded", "BTCPoolTokens">>,
  Get({"TBTC", "WBTC", "RENBTC", "SBTC", "Allowlist"})
    \o UnlessSaved("SaddleBTCPool",
         Get({"SwapUtilsGuarded"}) \o Deploy("SaddleBTCPool") \o Save(LP("SaddleBTCPool"))))

\* Whether the deployer still owns the pool is checked before the call.
DisableGuard_102 == Script("102_disable_guard_BTCPool", {}, <<"BTCPool">>,
  Get({"SaddleBTCPool"})
    \o UnlessHolds("SaddleBTCPool", "unguarded",
         UnlessHolds("SaddleBTCPool", "handed over", OwnerCall("SaddleBTCPool", "unguarded"))))

USDPoolTokens_110 == Script("110_check_USDPoolTokens", {"USDPoolTokens"}, << >>,
  Tokens(<<"DAI", "USDC", "USDT">>))

\* 111 and 121 clone the first version of the pool; 140 to 191 the next one.
FirstVersion  == {"SwapFlashLoanV1", "LPTokenV1"}
SecondVersion == {"SwapFlashLoan", "LPToken"}

USDPool_111 == Script("111_deploy_USDPool", {"USDPool"},
  <<"SwapUtils", "SwapDeployer", "SwapFlashLoan", "USDPoolTokens">>,
  FactoryPool("SaddleUSDPool", "SwapDeployerV1", {"DAI", "USDC", "USDT"} \union FirstVersion, {"TBTC"}))

VETH2PoolTokens_120 == Script("120_check_VETHPoolTokens", {"VETH2PoolTokens"}, << >>,
  Tokens(<<"WETH", "VETH2">>))

VETH2Pool_121 == Script("121_deploy_VETH2Pool", {"VETH2Pool"},
  <<"SwapUtils", "SwapDeployer", "SwapFlashLoan", "VETH2PoolTokens">>,
  FactoryPool("SaddleVETH2Pool", "SwapDeployerV1", {"WETH", "VETH2"} \union FirstVersion, {"TBTC"}))

\* Multicall3 is made by ethers on the local chain only.
Multicall_130 == Script("130_deploy_Multicall", {"Multicall"}, << >>,
  Deploy("Multicall") \o Deploy("Multicall2")
    \o OnTestNetwork(Make("Multicall3", "created") \o Save("Multicall3")))

ALETHPoolTokens_140 == Script("140_check_alETHPoolTokens", {"ALETHPoolTokens"}, << >>,
  Tokens(<<"WETH", "ALETH", "SETH">>))

ALETHPool_140 == Script("140_deploy_alETHPool", {"ALETHPool"},
  <<"SwapUtils", "SwapDeployer", "SwapFlashLoan", "ALETHPoolTokens">>,
  FactoryPool("SaddleALETHPool", "SwapDeployer", {"WETH", "ALETH", "SETH"} \union SecondVersion, {"TBTC"}))

D4PoolTokens_150 == Script("150_check_D4PoolTokens", {"D4PoolTokens"}, << >>,
  Tokens(<<"ALUSD", "FEI", "FRAX", "LUSD">>))

D4Pool_150 == Script("150_deploy_D4Pool", {"D4Pool"},
  <<"SwapUtils", "SwapDeployer", "SwapFlashLoan", "D4PoolTokens">>,
  FactoryPool("SaddleD4Pool", "SwapDeployer", {"ALUSD", "FEI", "FRAX", "LUSD"} \union SecondVersion, {"TBTC"}))

USDPoolV2_160 == Script("160_deploy_USDPoolV2", {"USDPoolV2"},
  <<"SwapUtils", "SwapDeployer", "SwapFlashLoan", "USDPoolTokens">>,
  FactoryPool("SaddleUSDPoolV2", "SwapDeployer", {"DAI", "USDC", "USDT"} \union SecondVersion, {"LPToken"}))

SwapMigrator_170 == Script("170_deploy_SwapMigrator", {"SwapMigrator"}, <<"USDPoolV2">>,
  Get({"SaddleUSDPool", LP("SaddleUSDPool"), "SaddleUSDPoolV2", LP("SaddleUSDPoolV2"),
       "DAI", "USDC", "USDT"}) \o Deploy("SwapMigrator"))

SUSDMetaPoolTokens_180 == Script("180_check_SUSDMetaPoolTokens", {"SUSDMetaPoolTokens"}, <<"USDPoolV2">>,
  Tokens(<<"SUSD">>))

SUSDMetaPool_181 == Script("181_deploy_SUSDMetaPool", {"SUSDMetaPool"},
  <<"SUSDMetaPoolTokens", "USDPoolV2", "MetaSwapUtils", "AmplificationUtils">>,
  OwnMetaPool("SaddleSUSDMetaPool", {"SUSD", LP("SaddleUSDPoolV2"), "SaddleUSDPoolV2"}, <<"MetaSwap">>))

SUSDMetaPoolDeposit_182 == Script("182_deploy_SUSDMetaPoolDeposit", {"SUSDMetaPoolDeposit"},
  <<"SUSDMetaPoolTokens", "SUSDMetaPool">>,
  UnlessSaved("SaddleSUSDMetaPoolDeposit",
    Deploy("SaddleSUSDMetaPoolDeposit")
      \o Get({"SaddleUSDPoolV2", "SaddleSUSDMetaPool", LP("SaddleSUSDMetaPool")})
      \o Initialize("SaddleSUSDMetaPoolDeposit")
      \o UnlessSaved("MetaSwapDeposit", Save("MetaSwapDeposit"))))

BTCPoolV2Tokens_190 == Script("190_check_BTCPoolV2Tokens", {"BTCPoolV2Tokens"}, << >>,
  Tokens(<<"WBTC", "RENBTC", "SBTC">>))

BTCPoolV2_191 == Script("191_deploy_BTCPoolV2", {"BTCPoolV2"},
  <<"SwapUtils", "SwapDeployer", "SwapFlashLoan", "BTCPoolV2Tokens">>,
  FactoryPool("SaddleBTCPoolV2", "SwapDeployer", {"WBTC", "RENBTC", "SBTC"} \union SecondVersion, {"WBTC"}))

LaunchScripts ==
  << PrepareNetwork, Allowlist_001, LPToken_002, AmplificationUtils_003, SwapUtilsGuarded_003,
     MetaSwapUtils_004, SwapUtils_004, SwapDeployer_005, Swap_006, SwapFlashLoan_006,
     BTCPoolTokens_100, BTCPool_101, DisableGuard_102, USDPoolTokens_110, USDPool_111,
     VETH2PoolTokens_120, VETH2Pool_121, Multicall_130, ALETHPoolTokens_140, ALETHPool_140,
     D4PoolTokens_150, D4Pool_150, USDPoolV2_160, SwapMigrator_170, SUSDMetaPoolTokens_180,
     SUSDMetaPool_181, SUSDMetaPoolDeposit_182, BTCPoolV2Tokens_190, BTCPoolV2_191 >>
==============================================================================
