---------------------------- MODULE AuroraScripts ----------------------------
(***************************************************************************)
(* deploy/aurora_mainnet: one pool, the registries and their roles.        *)
(***************************************************************************)
LOCAL INSTANCE SideChainScripts WITH TestNetwork <- FALSE

LPToken_002            == LPTokenTarget
AmplificationUtils_003 == Library("003_deploy_AmplificationUtils", "AmplificationUtils")
SwapUtils_004          == Library("004_deploy_SwapUtils", "SwapUtils")
MetaSwapUtils_005      == Library("005_deploy_MetaSwapUtils", "MetaSwapUtils")
SwapFlashLoan_006      == SwapFlashLoanTarget

PoolRegistry_008   == PoolRegistryOf("008_deploy_PoolRegistry")
MasterRegistry_009 == MasterRegistryOf("009_deploy_MasterRegistry", "FeeCollector")
Permissionless_010 == Permissionless("010_permissionless_deployments", "deployer")

USDTPoolTokens_100   == PoolTokens("100_check_USDTPoolTokens", "USDTPoolTokens", <<"USDC", "USDT">>)
USDTPool_101         == UtilsPool("101_deploy_USDTPool", "SaddleUSDTPool", {"USDC", "USDT"}, "USDTPoolTokens")
RegisterUSDTPool_102 == Registration("102_register_USDT_pool", "USDC-USDT", {"SaddleUSDTPool", "SwapFlashLoan"})
Multicall_110        == Multicalls("110_deploy_Multicall")

\* The deployer gives its roles to the multisigs, one batch per registry.
GiveRoles(registry) == Get({registry}) \o Try(registry, "roles given")
RegistryRoles_998 == Skipped(Script("998_setup_registry_roles", {}, << >>,
  ForEach(<<"PoolRegistry", "MasterRegistry">>, GiveRoles)))
VerifyAll_999 == Nothing("999_verify_all_contracts", {}, << >>)

AuroraDirectory ==
  << LPToken_002, AmplificationUtils_003, SwapUtils_004, MetaSwapUtils_005, SwapFlashLoan_006,
     PoolRegistry_008, MasterRegistry_009, Permissionless_010, USDTPoolTokens_100, USDTPool_101,
     RegisterUSDTPool_102, Multicall_110, RegistryRoles_998, VerifyAll_999 >>
==============================================================================
