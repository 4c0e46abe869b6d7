-------------------------- MODULE BaseTestnetScripts --------------------------
(***************************************************************************)
(* deploy/base_testnet: the second version of the pool, on a chain whose   *)
(* deployer keeps what it deploys.                                         *)
(***************************************************************************)
LOCAL INSTANCE SideChainScripts WITH TestNetwork <- FALSE

LPTokenV2_002 == Script("002_deploy_LPTokenV2", {"LPTokenV2"}, << >>,
  UnlessSaved("LPTokenV2", Deploy("LPTokenV2") \o Initialize("LPTokenV2")))
AmplificationUtilsV2_003 == Library("003_deploy_AmplificationUtilsV2", "AmplificationUtilsV2")
SwapUtilsV2_004          == Library("004_deploy_SwapUtilsV2", "SwapUtilsV2")
MetaSwapUtilsV1_005      == Library("005_deploy_MetaSwapUtilsV1", "MetaSwapUtilsV1")
PoolRegistry_008         == PoolRegistryOf("008_deploy_PoolRegistry")
MasterRegistry_009       == MasterRegistryOf("009_deploy_MasterRegistry", "FeeCollector")
Permissionless_010 == Script("010_permissionless_deployments", {"PermissionlessSwaps"},
  <<"MasterRegistry", "PoolRegistry", "SwapUtilsV2", "AmplificationUtilsV2", "MetaSwapUtilsV1", "LPTokenV2">>,
  DeployPermissionlessPoolComponentsV2("deployer"))

DummyTokens_011 == Script("011_deploy_mintableDummyTokens", {}, << >>,
  ForEach(<<"Dummy1", "Dummy2">>, LAMBDA token : Deploy(token) \o Save(token)))
DummyPool_012 == Script("012_deploy_DummyTokenPool", {"SaddleDummyPool"}, <<"SwapUtilsV2">>,
  UnlessHolds("SaddleDummyPool", "initialized",
    NewPool({"Dummy1", "Dummy2"}, "SaddleDummyPool", {"SwapUtilsV2", "AmplificationUtilsV2"}, "LPTokenV2")))
VerifyAll_999 == Nothing("999_verify_all_contracts", {}, << >>)

BaseTestnetDirectory ==
  << LPTokenV2_002, AmplificationUtilsV2_003, SwapUtilsV2_004, MetaSwapUtilsV1_005, PoolRegistry_008,
     MasterRegistry_009, Permissionless_010, DummyTokens_011, DummyPool_012, VerifyAll_999 >>
==============================================================================
