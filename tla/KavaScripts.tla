----------------------------- MODULE KavaScripts -----------------------------
(***************************************************************************)
(* deploy/kava_mainnet: two pools and the permissionless contracts.        *)
(***************************************************************************)
LOCAL INSTANCE SideChainScripts WITH TestNetwork <- FALSE

LPToken_002            == LPTokenTarget
AmplificationUtils_003 == Library("003_deploy_AmplificationUtils", "AmplificationUtils")
SwapUtils_004          == Library("004_deploy_SwapUtils", "SwapUtils")
MetaSwapUtils_005      == Library("005_deploy_MetaSwapUtils", "MetaSwapUtils")
SwapFlashLoan_006      == SwapFlashLoanTarget

ThreePoolTokens_110 ==
  MissingPoolTokens("110_check_Kava3PoolTokens", "saddle3poolTokens", <<"USDC", "USDT", "DAI">>)
\* A pool that is saved counts as deployed only once initialized.
ThreePool_111 == Script("111_deploy_Kava3Pool", {"Saddle3Pool"},
  <<"SwapUtils", "SwapFlashLoan", "SwapDeployer", "saddle3poolTokens">>,
  UnlessHolds("Saddle3Pool", "initialized",
    NewPool({"USDC", "USDT", "DAI"}, "Saddle3Pool", PoolLibraries, "LPToken")))
Multicall_120 == Multicalls("120_deploy_Muticall")

PoolRegistry_160   == PoolRegistryOf("160_deploy_PoolRegistry")
\* Registers the pool that 181 deploys.
RegisterPools_161  ==
  Registration("161_add_to_PoolRegistry", "SaddleUSDTPool", {"SaddleUSDTPool", "SwapFlashLoan"})
MasterRegistry_170 == MasterRegistryOf("170_deploy_MasterRegistry", "PoolRegistry")
Pools_181 == Script("181_deploy_Pools", {"poolDeployments"}, << >>,
  DeploySwapFlashLoanPools(PoolData("SaddleUSDTPool", "", {"USDC", "USDT"}, TRUE, FALSE, FALSE)))

Permissionless_191 == Script("191_permissionless_deployments", {"PermissionlessSwaps"}, PermissionlessTags,
  Deploy("MetaSwapDeposit") \o DeployPermissionlessPoolComponents("deployer"))
VerifyAll_999 == Nothing("999_verify_all_contracts", {}, << >>)

KavaDirectory ==
  << LPToken_002, AmplificationUtils_003, SwapUtils_004, MetaSwapUtils_005, SwapFlashLoan_006,
     ThreePoolTokens_110, ThreePool_111, Multicall_120, PoolRegistry_160, RegisterPools_161,
     MasterRegistry_170, Pools_181, Permissionless_191, VerifyAll_999 >>
==============================================================================
