--------------------------- MODULE OptimismScripts ---------------------------
(***************************************************************************)
(* deploy/optimism: the first pool and the meta pool of FRAX on it, the    *)
(* pools with FRAXBP, MiniChefV2 and the child side of the gauges.         *)
(***************************************************************************)
LOCAL INSTANCE SideChainScripts WITH TestNetwork <- FALSE

LPToken_002            == LPTokenTarget
AmplificationUtils_003 == Library("003_deploy_AmplificationUtils", "AmplificationUtils")
SwapUtils_004          == Library("004_deploy_SwapUtils", "SwapUtils")
MetaSwapUtils_005      == Library("005_deploy_MetaSwapUtils", "MetaSwapUtils")
SwapFlashLoan_006      == SwapFlashLoanTarget

USDPoolTokens_100 == PoolTokens("100_check_OptUSDPoolTokens", "OptUSDPoolTokens", <<"DAI", "USDC", "USDT">>)
USDPool_101 == TargetPool("101_deploy_OptUSDPool",
  "SaddleOptUSDPool", {"DAI", "USDC", "USDT"}, "OptUSDPoolTokens", TRUE)

FRAXMetaPoolTokens_110 == PoolTokens("110_check_OptFRAXMetaPoolTokens",
  "SaddleOptFRAXMetaPoolTokens", <<"FRAX", "DAI", "USDC", "USDT">>)
FRAXMetaPool_111 == Script("111_deploy_OptFRAXMetaPool", {"SaddleOptFRAXMetaPool"},
  <<"SaddleOptFRAXMetaPoolTokens", "SaddleOptUSDPool", "MetaSwapUtils", "AmplificationUtils">>,
  OwnMetaPool("SaddleOptFRAXMetaPool", {"FRAX", LP("SaddleOptUSDPool"), "SaddleOptUSDPool"}, << >>))
FRAXMetaPoolDeposit_112 == OwnDeposit("112_deploy_OptFRAXMetaPoolDeposit", {"SaddleOptFRAXMetaPoolDeposit"},
  <<"SaddleOptFRAXMetaPoolTokens", "SaddleOptFRAXMetaPool">>, "SaddleOptUSDPool", "SaddleOptFRAXMetaPool")

PoolRegistry_160   == PoolRegistryOf("160_deploy_PoolRegistry")
RegisterPools_161  == Registration("161_add_to_PoolRegistry", "OptUSD pools",
  {"SaddleOptUSDPool", "SwapFlashLoan", "SaddleOptFRAXMetaPool", Deposit("SaddleOptFRAXMetaPool")})
MasterRegistry_170 == MasterRegistryOf("170_deploy_MasterRegistry", "PoolRegistry")

FRAXBPTokens_180 == MissingPoolTokens("180_check_FRAXBPPoolTokens", "fraxBPpoolTokens", <<"USDC", "FRAX">>)
FRAXBPPool_181 == UtilsPool("181_deploy_FRAXBPPool", "SaddleFRAXBPPool", {"USDC", "FRAX"}, "fraxBPpoolTokens")

FRAXUSDTTokens_190 == MetaPoolTokens("190_check_FRAXUSDTMetaPoolTokens",
  "FRAXUSDTMetaPoolTokens", "SaddleFRAXBPPool", <<"USDT">>)
FRAXUSDTMetaPool_191 == MetaPool("191_deploy_FRAXUSDTMetaPool", "SaddleFRAXUSDTMetaPool", "SaddleFRAXBPPool",
  "USDT", <<"LPToken", "FRAXUSDTMetaPoolTokens", "SaddleFRAXBPPool">>)
FRAXUSDTDeposit_192 == MetaPoolDeposit("192_deploy_FRAXUSDTMetaPoolDeposit",
  "SaddleFRAXUSDTMetaPool", "SaddleFRAXBPPool", "FRAXUSDTMetaPoolTokens")

FRAXSUSDTokens_200 == MetaPoolTokens("200_check_FRAXSUSDMetaPoolTokens",
  "FRAXSUSDMetaPoolTokens", "SaddleFRAXBPPool", <<"SUSD">>)
\* Depends on the tokens of the other meta pool.
FRAXSUSDMetaPool_201 == MetaPool("201_deploy_FRAXSUSDMetaPool", "SaddleFRAXsUSDMetaPool", "SaddleFRAXBPPool",
  "SUSD", <<"LPToken", "FRAXUSDTMetaPoolTokens", "SaddleFRAXBPPool">>)
FRAXSUSDDeposit_202 == MetaPoolDeposit("202_deploy_FRAXSUSDMetaPoolDeposit",
  "SaddleFRAXsUSDMetaPool", "SaddleFRAXBPPool", "FRAXSUSDMetaPoolTokens")
RegisterPools_203 == Registration("203_register_new_pools", "FRAXBP pools",
  {"SaddleFRAXBPPool", "SwapFlashLoan", "SaddleFRAXsUSDMetaPool", Deposit("SaddleFRAXsUSDMetaPool"),
   "SaddleFRAXUSDTMetaPool", Deposit("SaddleFRAXUSDTMetaPool")})

MiniChefV2_210 == Script("210_deploy_MiniChefV2", {"MiniChef"}, << >>,
  MiniChef({LP(p) : p \in {"SaddleFRAXBPPool", "SaddleOptFRAXMetaPool", "SaddleFRAXUSDTMetaPool",
                           "SaddleFRAXsUSDMetaPool", "SaddleOptUSDPool"}}))

CrossChainSystem_220 == CrossChainSystem("220_deploy_sidechain_x_chain_system")
ChildGauge_221       == ChildGaugeImplementation("221_deploy_child_gauge_impl")
GaugedPools == <<LP("SaddleFRAXBPPool"), LP("SaddleFRAXUSDTMetaPool"), LP("SaddleFRAXsUSDMetaPool"),
                 LP("SaddleOptFRAXMetaPool"), LP("SaddleOptUSDPool"), LP("SaddleUSXFRAXBPMetaPool")>>
ChildGauges_230      == ChildGaugesOf("230_deploy_child_gauges", GaugedPools)

\* 231 to 233 rehearse on a fork what the bridge and the owners would do.
SetSDLRate_231      == Skipped(Nothing("231_forked_set_SDL_rate", {}, << >>))
PushToOracle_232    == Skipped(Nothing("232_forked_push_to_ChildOracle", {}, << >>))
AddDummyRewards_233 == Skipped(Nothing("233_forked_add_dummy_gauge_rewards", {}, << >>))

USXPool_240        == USXPool("240_deploy_pools")
Permissionless_240 == Permissionless("240_permissionless_deployments", "multisig")
ChildGaugeV2_250   == ChildGaugeV2("250_deploy_child_gauge_impl")

VerifyAll_998         == Nothing("998_verify_all_contracts", {}, << >>)
ImpersonateOwners_999 == Nothing("999_impersonate_owners", {}, << >>)
PrintAddresses_999    == Nothing("999_print_addresses", {}, << >>)

OptimismDirectory ==
  << LPToken_002, AmplificationUtils_003, SwapUtils_004, MetaSwapUtils_005, SwapFlashLoan_006,
     USDPoolTokens_100, USDPool_101, FRAXMetaPoolTokens_110, FRAXMetaPool_111, FRAXMetaPoolDeposit_112,
     PoolRegistry_160, RegisterPools_161, MasterRegistry_170, FRAXBPTokens_180, FRAXBPPool_181,
     FRAXUSDTTokens_190, FRAXUSDTMetaPool_191, FRAXUSDTDeposit_192, FRAXSUSDTokens_200,
     FRAXSUSDMetaPool_201, FRAXSUSDDeposit_202, RegisterPools_203, MiniChefV2_210, CrossChainSystem_220,
     ChildGauge_221, ChildGauges_230, SetSDLRate_231, PushToOracle_232, AddDummyRewards_233, USXPool_240,
     Permissionless_240, ChildGaugeV2_250, VerifyAll_998, ImpersonateOwners_999, PrintAddresses_999 >>
==============================================================================
