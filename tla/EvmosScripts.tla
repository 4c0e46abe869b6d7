---------------------------- MODULE EvmosScripts -----------------------------
(***************************************************************************)
(* deploy/evmos: five pools, a meta pool of tBTC and MiniChefV2.           *)
(***************************************************************************)
LOCAL INSTANCE SideChainScripts WITH TestNetwork <- FALSE

LPToken_002            == LPTokenTarget
AmplificationUtils_003 == Library("003_deploy_AmplificationUtils", "AmplificationUtils")
SwapUtils_004          == Library("004_deploy_SwapUtils", "SwapUtils")
MetaSwapUtils_005      == Library("005_deploy_MetaSwapUtils", "MetaSwapUtils")
SwapFlashLoan_006      == SwapFlashLoanTarget

ThreePoolTokens_110 ==
  MissingPoolTokens("110_check_Evmos3PoolTokens", "Evmos3poolTokens", <<"DAI", "USDC", "USDT">>)
ThreePool_111 == TargetPool("111_deploy_Evmos3Pool",
  "SaddleEvmos3pool", {"DAI", "USDC", "USDT"}, "Evmos3poolTokens", FALSE)
Multicall_120 == Multicalls("120_deploy_Multicall")

BTCTokens_130 == MissingPoolTokens("130_check_EvmosBTCTokens", "EvmosBTCTokens", <<"WBTC", "RENBTC">>)
BTCPool_131 == OwnPool("131_deploy_EvmosBTCPool", "SaddleEvmosBTCPool", {"WBTC", "RENBTC"}, "EvmosBTCTokens")

\* SaddleEvmosBTC is the tag of no script.
TBTCTokens_140 == MetaPoolTokens("140_check_TBTCMetaPoolTokens", "TBTCMetaPoolTokens", "SaddleEvmosBTC", <<"TBTCv2">>)
\* The pool is saved as the MetaSwap that others would clone.
TBTCMetaPool_141 == Script("141_deploy_TBTCMetaPool", {"TBTCMetaPool"},
  <<"LPToken", "TBTCMetaPoolTokens", "SaddleEvmosBTCPool", "MetaSwapUtils", "AmplificationUtils">>,
  UnlessSaved("SaddleTBTCMetaPool",
    Get({"TBTCv2", LP("SaddleEvmosBTCPool")} \union MetaPoolLibraries) \o Deploy("SaddleTBTCMetaPool")
      \o Save("MetaSwap") \o Get({"LPToken", "SaddleEvmosBTCPool"}) \o Initialize("SaddleTBTCMetaPool")
      \o Save(LP("SaddleTBTCMetaPool"))))
TBTCDeposit_142 == OwnDeposit("142_deploy_TBTCMetaPoolDeposit", {"TBTCMetaPoolDeposit"},
  <<"TBTCMetaPoolTokens", "TBTCMetaPool">>, "SaddleEvmosBTCPool", "SaddleTBTCMetaPool")

FourPoolTokens_150 ==
  MissingPoolTokens("150_check_Evmos4PoolTokens", "Evmos4poolTokens", <<"DAI", "USDC", "USDT", "FRAX">>)
FourPool_151 == OwnPool("151_deploy_Evmos4Pool",
  "SaddleEvmos4Pool", {"DAI", "USDC", "USDT", "FRAX"}, "Evmos4poolTokens")
Frax3PoolTokens_170 ==
  MissingPoolTokens("170_check_EvmosFrax3PoolTokens", "EvmosFrax3poolTokens", <<"USDC", "USDT", "FRAX">>)
Frax3Pool_171 == OwnPool("171_deploy_EvmosFrax3Pool",
  "SaddleEvmosFrax3Pool", {"USDC", "USDT", "FRAX"}, "EvmosFrax3poolTokens")

PoolRegistry_180   == PoolRegistryOf("180_deploy_PoolRegistry")
MasterRegistry_181 == MasterRegistryOf("181_deploy_MasterRegistry", "PoolRegistry")

\* 182 asks for each pool whether it is registered and sends one batch.
Registered_182 == {"SaddleCelarUSDTPool", "SaddleEvmos3pool", "SaddleEvmosBTCPool", "SaddleTBTCMetaPool",
                   Deposit("SaddleTBTCMetaPool"), "SaddleEvmos4Pool", "SaddleEvmosFrax3Pool"}
RegisterPools_182 == Skipped(Registration("182_register_pools", "pools of evmos", {"SwapFlashLoan"} \union Registered_182))

MiniChefV2_190 == Script("190_deploy_MiniChefV2", {"MiniChef"}, << >>, MiniChef({LP("SaddleEvmosFrax3Pool")}))
\* Until May 30, 2022, and while totalAllocPoint is 1: when 190 has added its
\* pools (0 before), and this script not its rewards (100 behind).
AddRewards_191 == Script("191_add_rewards_MiniChefV2", {}, <<"MiniChef">>,
  Get({"MiniChefV2"})
    \o Before("1653903234",
         IfHolds("MiniChefV2", "pools",
           UnlessHolds("MiniChefV2", "rewards of two months", CallOnce("MiniChefV2", "rewards of two months")))))

Pools_200 == Script("200_deploy_Pools", {"poolDeployments"}, << >>,
  DeploySwapFlashLoanPools(PoolData("SaddleCelarUSDTPool", "", {"ceUSDC", "ceUSDT"}, TRUE, FALSE, FALSE)))
Permissionless_210 == Permissionless("210_permissionless_deployments", "deployer")
VerifyAll_999 == Nothing("999_verify_all_contracts", {}, << >>)

EvmosDirectory ==
  << LPToken_002, AmplificationUtils_003, SwapUtils_004, MetaSwapUtils_005, SwapFlashLoan_006,
     ThreePoolTokens_110, ThreePool_111, Multicall_120, BTCTokens_130, BTCPool_131, TBTCTokens_140,
     TBTCMetaPool_141, TBTCDeposit_142, FourPoolTokens_150, FourPool_151, Frax3PoolTokens_170,
     Frax3Pool_171, PoolRegistry_180, MasterRegistry_181, RegisterPools_182, MiniChefV2_190,
     AddRewards_191, Pools_200, Permissionless_210, VerifyAll_999 >>
==============================================================================
