---------------------------- MODULE FantomScripts ----------------------------
(***************************************************************************)
(* deploy/fantom: one pool of FRAX and USDC and two meta pools on it.      *)
(***************************************************************************)
LOCAL INSTANCE SideChainScripts WITH TestNetwork <- FALSE

LPToken_002            == LPTokenTarget
AmplificationUtils_003 == Library("003_deploy_AmplificationUtils", "AmplificationUtils")
SwapUtils_004          == Library("004_deploy_SwapUtils", "SwapUtils")
MetaSwapUtils_005      == Library("005_deploy_MetaSwapUtils", "MetaSwapUtils")
SwapFlashLoan_006      == SwapFlashLoanTarget

BasePool == "SaddleFtmUSDPool"
USDPoolTokens_110 == PoolTokens("110_check_FtmUSDPoolTokens", "FtmUSDPoolTokens", <<"FRAX", "USDC">>)
USDPool_111 == TargetPool("111_deploy_FtmUSDPool", BasePool, {"FRAX", "USDC"}, "FtmUSDPoolTokens", TRUE)

PoolRegistry_160   == PoolRegistryOf("160_deploy_PoolRegistry")
RegisterPools_161  == Registration("161_add_to_PoolRegistry", "FtmUSD", {BasePool, "SwapFlashLoan"})
MasterRegistry_170 == MasterRegistryOf("170_deploy_MasterRegistry", "PoolRegistry")

FRAXUSDTTokens_180 ==
  MetaPoolTokens("180_check_FRAXUSDTMetaPoolTokens", "FRAXUSDTMetaPoolTokens", BasePool, <<"USDT">>)
FRAXUSDTMetaPool_181 == MetaPool("181_deploy_FRAXUSDTMetaPool", "SaddleFRAXUSDTMetaPool", BasePool, "USDT",
  <<"LPToken", "FRAXUSDTMetaPoolTokens", BasePool>>)
FRAXUSDTDeposit_182 == MetaPoolDeposit("182_deploy_FRAXUSDTMetaPoolDeposit",
  "SaddleFRAXUSDTMetaPool", BasePool, "FRAXUSDTMetaPoolTokens")

FRAXalUSDTokens_190 ==
  MetaPoolTokens("190_check_FRAXalUSDMetaPoolTokens", "FRAXalUSDMetaPoolTokens", BasePool, <<"ALUSD">>)
FRAXalUSDMetaPool_191 == MetaPool("191_deploy_FRAXalUSDMetaPool", "SaddleFRAXalUSDMetaPool", BasePool, "ALUSD",
  <<"LPToken", "FRAXalUSDMetaPoolTokens", BasePool>>)
FRAXalUSDDeposit_192 == MetaPoolDeposit("192_deploy_FRAXalUSDMetaPoolDeposit",
  "SaddleFRAXalUSDMetaPool", BasePool, "FRAXalUSDMetaPoolTokens")

RegisterPools_193 == Registration("193_register_new_pools", "FRAXBP pools",
  {"SaddleFRAXalUSDMetaPool", Deposit("SaddleFRAXalUSDMetaPool"),
   "SaddleFRAXUSDTMetaPool", Deposit("SaddleFRAXUSDTMetaPool")})
Permissionless_200 == Permissionless("200_permissionless_deployments", "multisig")

FantomDirectory ==
  << LPToken_002, AmplificationUtils_003, SwapUtils_004, MetaSwapUtils_005, SwapFlashLoan_006,
     USDPoolTokens_110, USDPool_111, PoolRegistry_160, RegisterPools_161, MasterRegistry_170,
     FRAXUSDTTokens_180, FRAXUSDTMetaPool_181, FRAXUSDTDeposit_182, FRAXalUSDTokens_190,
     FRAXalUSDMetaPool_191, FRAXalUSDDeposit_192, RegisterPools_193, Permissionless_200 >>
==============================================================================
