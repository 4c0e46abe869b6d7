-------------------------- MODULE MainnetTokenomics --------------------------
(***************************************************************************)
(* deploy/mainnet/500 to 599: veSDL and the gauges, and the pools with     *)
(* FRAXBP, the basepool of FRAX and USDC.                                  *)
(***************************************************************************)
EXTENDS DeployUtils

VotingEscrow_500 == Script("500_deploy_VotingEscrow", {}, << >>, Get({"SDL"}) \o Deploy("VotingEscrow"))

VotingEscrowDelegation_501 == Script("501_deploy_VotingEscrowDelegation", {}, << >>,
  Get({"VotingEscrow"}) \o Deploy("VotingEscrowDelegation"))

DelegationProxy_502 == Script("502_deploy_DelegationProxy", {}, << >>,
  Get({"VotingEscrowDelegation", "VotingEscrow"}) \o Deploy("DelegationProxy"))

GaugeController_503 == Script("503_deploy_GaugeController", {}, << >>,
  Get({"SDL", "VotingEscrow", "DelegationProxy"}) \o Deploy("GaugeController"))

Minter_504 == Script("504_deploy_Minter", {}, << >>,
  Get({"SDL", "GaugeController"}) \o Deploy("Minter"))

VeSDLRewards_505 == Script("505_deploy_VeSDLRewards", {}, << >>,
  Get({"VotingEscrow", "SDL"}) \o Deploy("VeSDLRewards")
    \o UnlessHolds("VotingEscrow", "reward pool", OwnerCall("VotingEscrow", "reward pool")))

FeeDistributor(rewardToken) ==
  Get({"VotingEscrow", "VeSDLRewards", rewardToken}) \o Deploy("FeeDistributor")
FeeDistributor_507 == Script("507_deploy_FeeDistributor", {}, << >>, FeeDistributor("SushiSwapPairSDLWETH"))

\* 510: the gauges with which the controller starts.
FirstGauges ==
  << LP("SaddleALETHPool"), LP("SaddleBTCPoolV2"), LP("SaddleD4Pool"), LP("SaddleUSDPoolV2"),
     LP("SaddleTBTCMetaPoolV3"), LP("SaddleSUSDMetaPoolV3"), LP("SaddleWCUSDMetaPoolV3"),
     LP("SaddleFrax3Pool"), "SushiSwapPairSDLWETH" >>

GaugeType(type) == UnlessHolds("GaugeController", type, OwnerCall("GaugeController", type))
AddGauge(lp)    == OwnerCall("GaugeController", Gauge(lp))

\* read(gauge_types) in a try: it reverts for a gauge that was not added.
AddToGaugeController_510 ==
  LET FirstGauge(lp) == PoolGauge(lp) \o UnlessHolds("GaugeController", Gauge(lp), AddGauge(lp))
  IN Script("510_add_to_GaugeController", {}, << >>,
       Get({"GaugeController"}) \o GaugeType("Liquidity") \o Get({"Minter"})
         \o ForEach(FirstGauges, FirstGauge))

GaugeHelperContract_520 == Script("520_deploy_GaugeHelperContract", {}, << >>,
  Get({"MasterRegistry"}) \o Deploy("GaugeHelperContract"))

\* 521: one batch, which goes on past the calls that revert.
TokenomicsContracts ==
  {"GaugeHelperContract", "GaugeController", "VotingEscrow", "Minter", "FeeDistributor"}
RegisterContracts_521 == Script("521_register_contracts", {}, << >>,
  Get({"MasterRegistry"} \union TokenomicsContracts)
    \o UnlessHolds("MasterRegistry", "tokenomics", Call("MasterRegistry", "tokenomics")))

\* 530: committed and applied, if the deployer is the admin still.
TransferOwnership_530 ==
  LET Transfer(n) == Get({n}) \o UnlessHolds(n, "handed over", Call(n, "future admin") \o HandOver(n))
  IN Script("530_transfer_ownership", {}, << >>, ForEach(<<"VotingEscrow", "GaugeController">>, Transfer))

FRAXBPTokens_540 == Script("540_check_FRAXBPpoolTokens", {"fraxBPpoolTokens"}, << >>,
  Tokens(<<"USDC", "FRAX">>))

FRAXBPPool_541 == Script("541_deploy_FRAXBPpool", {"SaddleFRAXBPPool"},
  <<"SwapUtils", "SwapFlashLoan", "SwapDeployer", "fraxBPpoolTokens">>,
  DeploySwapFlashLoan("SaddleFRAXBPPool", {"USDC", "FRAX"}))

\* 55x, 56x and 57x: a token, its meta pool on FRAXBP and the deposit.
FRAXSUSDTokens_550 ==
  MetaPoolTokens("550_check_FRAXSUSDMetaPoolTokens", "FRAXSUSDMetaPoolTokens", "SaddleFRAXBPPool", <<"SUSD">>)
FRAXSUSDMetaPool_551 ==
  MetaPool("551_deploy_FRAXSUSDMetaPool",
    "SaddleFRAXsUSDMetaPool", "SaddleFRAXBPPool", "SUSD", <<"LPToken", "FRAXSUSDMetaPoolTokens", "SaddleFRAXBPPool">>)
FRAXSUSDMetaPoolDeposit_552 ==
  MetaPoolDeposit("552_deploy_FRAXSUSDMetaPoolDeposit",
    "SaddleFRAXsUSDMetaPool", "SaddleFRAXBPPool", "FRAXSUSDMetaPoolTokens")
FRAXUSDTTokens_560 ==
  MetaPoolTokens("560_check_FRAXUSDTMetaPoolTokens", "FRAXUSDTMetaPoolTokens", "SaddleFRAXBPPool", <<"USDT">>)
FRAXUSDTMetaPool_561 ==
  MetaPool("561_deploy_FRAXUSDTMetaPool",
    "SaddleFRAXUSDTMetaPool", "SaddleFRAXBPPool", "USDT", <<"LPToken", "FRAXUSDTMetaPoolTokens", "SaddleFRAXBPPool">>)
FRAXUSDTMetaPoolDeposit_562 ==
  MetaPoolDeposit("562_deploy_FRAXUSDTMetaPoolDeposit",
    "SaddleFRAXUSDTMetaPool", "SaddleFRAXBPPool", "FRAXUSDTMetaPoolTokens")
FRAXalUSDTokens_570 ==
  MetaPoolTokens("570_check_FRAXalUSDMetaPoolTokens", "FRAXalUSDMetaPoolTokens", "SaddleFRAXBPPool", <<"ALUSD">>)
FRAXalUSDMetaPool_571 ==
  MetaPool("571_deploy_FRAXalUSDMetaPool",
    "SaddleFRAXalUSDMetaPool", "SaddleFRAXBPPool", "ALUSD", <<"LPToken", "FRAXalUSDMetaPoolTokens", "SaddleFRAXBPPool">>)
FRAXalUSDMetaPoolDeposit_572 ==
  MetaPoolDeposit("572_deploy_FRAXalUSDMetaPoolDeposit",
    "SaddleFRAXalUSDMetaPool", "SaddleFRAXBPPool", "FRAXalUSDMetaPoolTokens")

FRAXMetaPools == {"SaddleFRAXsUSDMetaPool", "SaddleFRAXUSDTMetaPool", "SaddleFRAXalUSDMetaPool"}
RegisterFRAXBPPools_573 == Script("573_register_new_pools", {}, << >>,
  RegisterPools("FRAXBP pools",
    {"SaddleFRAXBPPool", "SwapFlashLoan"} \union FRAXMetaPools \union {Deposit(p) : p \in FRAXMetaPools}))

FRAXBPGauges_580 == Script("580_deploy_FRAX_basepool_and_metapool_LiqV5gauges", {}, << >>,
  PoolGauges(<<LP("SaddleFRAXBPPool"), LP("SaddleFRAXsUSDMetaPool"),
               LP("SaddleFRAXUSDTMetaPool"), LP("SaddleFRAXalUSDMetaPool")>>))

\* 599 rehearses what the multisig would send, on a fork of mainnet.
MultisigActions_599 == Skipped(Script("599_multisig_actions", {}, << >>, << >>))

TokenomicsScripts ==
  << VotingEscrow_500, VotingEscrowDelegation_501, DelegationProxy_502, GaugeController_503, Minter_504,
     VeSDLRewards_505, FeeDistributor_507, AddToGaugeController_510, GaugeHelperContract_520,
     RegisterContracts_521, TransferOwnership_530, FRAXBPTokens_540, FRAXBPPool_541, FRAXSUSDTokens_550,
     FRAXSUSDMetaPool_551, FRAXSUSDMetaPoolDeposit_552, FRAXUSDTTokens_560, FRAXUSDTMetaPool_561,
     FRAXUSDTMetaPoolDeposit_562, FRAXalUSDTokens_570, FRAXalUSDMetaPool_571, FRAXalUSDMetaPoolDeposit_572,
     RegisterFRAXBPPools_573, FRAXBPGauges_580, MultisigActions_599 >>
==============================================================================
