--------------------------- MODULE HardhatScripts ----------------------------
(***************************************************************************)
(* deploy/hardhat: the scripts of the local chain, on which the tests run. *)
(* The first of them are those of deploy/mainnet, where the deployer is    *)
(* the first signer; some differ in their tags or dependencies, without    *)
(* which a fixture that asks for a tag gets too little.                    *)
(***************************************************************************)
LOCAL INSTANCE DeployUtils WITH TestNetwork <- TRUE

Main == INSTANCE MainnetScripts WITH TestNetwork <- TRUE

PrepareNetwork == Main!PrepareNetwork
Allowlist_001 == Main!Allowlist_001
LPToken_002 == Main!LPToken_002
AmplificationUtils_003 == Main!AmplificationUtils_003
SwapUtilsGuarded_003 == Main!SwapUtilsGuarded_003
MetaSwapUtils_004 == Main!MetaSwapUtils_004
SwapUtils_004 == Main!SwapUtils_004
SwapDeployer_005 == Main!SwapDeployer_005
Swap_006 == [Main!Swap_006 EXCEPT !.dependencies = @ \o <<"LPToken">>]
SwapFlashLoan_006 == Main!SwapFlashLoan_006
BTCPoolTokens_100 == Main!BTCPoolTokens_100
BTCPool_101 == Main!BTCPool_101
DisableGuard_102 == Main!DisableGuard_102
USDPoolTokens_110 == Main!USDPoolTokens_110
USDPool_111 == [Main!USDPool_111 EXCEPT !.dependencies = <<"BTCPool">> \o @]
VETH2PoolTokens_120 == Main!VETH2PoolTokens_120
VETH2Pool_121 == Main!VETH2Pool_121
Multicall_130 == Main!Multicall_130
ALETHPoolTokens_140 == Main!ALETHPoolTokens_140
ALETHPool_140 == Main!ALETHPool_140
D4PoolTokens_150 == Main!D4PoolTokens_150
D4Pool_150 == Main!D4Pool_150
USDPoolV2_160 == Main!USDPoolV2_160
SwapMigrator_170 == Main!SwapMigrator_170
SUSDMetaPoolTokens_180 == Main!SUSDMetaPoolTokens_180
SUSDMetaPool_181 == Main!SUSDMetaPool_181
SUSDMetaPoolDeposit_182 == Main!SUSDMetaPoolDeposit_182
BTCPoolV2Tokens_190 == Main!BTCPoolV2Tokens_190
BTCPoolV2_191 == Main!BTCPoolV2_191
TBTCMetaPoolTokens_200 == Main!TBTCMetaPoolTokens_200
TBTCMetaPool_201 == Main!TBTCMetaPool_201
TBTCMetaPoolDeposit_202 == Main!TBTCMetaPoolDeposit_202
WCUSDMetaPoolTokens_210 == Main!WCUSDMetaPoolTokens_210
WCUSDMetaPool_211 == Main!WCUSDMetaPool_211
WCUSDMetaPoolDeposit_212 == Main!WCUSDMetaPoolDeposit_212
SynthSwapper_220 == Main!SynthSwapper_220
Bridge_230 == Main!Bridge_230
InitializeBridge_231 == Main!InitializeBridge_231
SUSDMetaPoolUpdated_240 == [Main!SUSDMetaPoolUpdated_240 EXCEPT !.tags = {"SUSDMetaPoolUpdated"}]
SUSDMetaPoolUpdatedDeposit_241 == Main!SUSDMetaPoolUpdatedDeposit_241
TBTCMetaPoolUpdated_250 == Main!TBTCMetaPoolUpdated_250
TBTCMetaPoolUpdatedDeposit_251 == Main!TBTCMetaPoolUpdatedDeposit_251
WCUSDMetaPoolUpdated_260 == Main!WCUSDMetaPoolUpdated_260
WCUSDMetaPoolUpdatedDeposit_261 == Main!WCUSDMetaPoolUpdatedDeposit_261
GeneralizedSwapMigrator_270 ==
  [Main!GeneralizedSwapMigrator_270 EXCEPT
    !.dependencies = <<"SUSDMetaPool", "SUSDMetaPoolUpdated", "TBTCMetaPool",
                      "TBTCMetaPoolUpdated", "WCUSDMetaPool", "WCUSDMetaPoolUpdated">>]
Vesting_300 == Main!Vesting_300
SDL_301 == [Main!SDL_301 EXCEPT !.dependencies = <<"Vesting">>]
VestingClones_302 == Main!VestingClones_302
RetroactiveVesting_303 == Main!RetroactiveVesting_303
MiniChef_304 == Main!MiniChef_304
AddToAllowedList_400 == Main!AddToAllowedList_400
KEEP_410 == Main!KEEP_410
SimpleRewarderKEEP_411 == Main!SimpleRewarderKEEP_411
T_420 == Main!T_420
SimpleRewarderT_421 == Main!SimpleRewarderT_421
SwapCalculator_430 == Main!SwapCalculator_430
PoolRegistry_440 == Main!PoolRegistry_440
MasterRegistry_441 == [Main!MasterRegistry_441 EXCEPT !.dependencies = <<"PoolRegistry">>]
AddToPoolRegistry_442 == Main!AddToPoolRegistry_442

PermissionlessSwaps_450 ==
  [Main!PermissionlessSwaps_450 EXCEPT
    !.dependencies = <<"SUSDMetaPoolDeposit", "LPToken", "SwapUtils", "MetaSwapUtils", "MasterRegistry",
                       "PoolRegistry", "AmplificationUtils">>,
    !.steps = Main!Permissionless(Main!FlashLoanTargets)]

SUSDMetaPoolV3_460 == Main!SUSDMetaPoolV3_460
SUSDMetaPoolV3Deposit_461 == Main!SUSDMetaPoolV3Deposit_461
TBTCMetaPoolV3_462 == Main!TBTCMetaPoolV3_462
TBTCMetaPoolV3Deposit_463 == Main!TBTCMetaPoolV3Deposit_463
WCUSDMetaPoolV3_464 == Main!WCUSDMetaPoolV3_464
WCUSDMetaPoolV3Deposit_465 == Main!WCUSDMetaPoolV3Deposit_465
RegisterV3Pools_466 == Main!RegisterV3Pools_466
AddToMigrator_467 == [Main!AddToMigrator_467 EXCEPT !.tags = {}]
FourPoolTokens_470 == Main!FourPoolTokens_470
FourPool_471 == Main!FourPool_471
Frax3PoolTokens_480 == Main!Frax3PoolTokens_480
Frax3Pool_481 == Main!Frax3Pool_481
RegisterFraxPools_482 == Main!RegisterFraxPools_482
SimpleRewarder_492 == Main!SimpleRewarder_492
VotingEscrow_500 == [Main!VotingEscrow_500 EXCEPT !.tags = {"veSDL"}, !.dependencies = <<"SDL">>]
VotingEscrowDelegation_501 == [Main!VotingEscrowDelegation_501 EXCEPT !.tags = {"veSDL"}]
DelegationProxy_502 == [Main!DelegationProxy_502 EXCEPT !.tags = {"veSDL"}]
GaugeController_503 == [Main!GaugeController_503 EXCEPT !.tags = {"veSDL"}]

Minter_504 ==
  [Main!Minter_504 EXCEPT !.tags = {"veSDL"}, !.steps = @ \o CallOnce("Minter", "first epoch")]

VeSDLRewards_505 == [Main!VeSDLRewards_505 EXCEPT !.tags = {"veSDL"}]

FeeDistributor_507 ==
  [Main!FeeDistributor_507 EXCEPT !.tags = {"veSDL"},
    !.steps = Deploy("SushiSwapPairSDLFRAX") \o Main!FeeDistributor("SushiSwapPairSDLFRAX")]

SushiSwapPair_508 == Script("508_deploy_SushiSwapSDLETHPairToken", {"veSDL"}, << >>,
  Token("SushiSwapPairSDLWETH"))

\* Here the gauge is sought on disk, not in the controller.
AddToGaugeController_510 ==
  LET FirstGauge(lp) ==
        Get({lp}) \o UnlessSaved(Gauge(lp), Deploy(Gauge(lp)) \o Main!AddGauge(lp))
  IN [Main!AddToGaugeController_510 EXCEPT
       !.steps = Get({"GaugeController"}) \o Main!GaugeType("Liquidity") \o Get({"Minter"})
                   \o ForEach(Main!FirstGauges, FirstGauge)]

GaugeHelperContract_520 ==
  [Main!GaugeHelperContract_520 EXCEPT !.tags = {"veSDL"}, !.dependencies = <<"MasterRegistry">>]

RegisterContracts_521 ==
  [Main!RegisterContracts_521 EXCEPT !.tags = {"veSDL"},
    !.steps = Get({"MasterRegistry"} \union Main!TokenomicsContracts)
                \o Call("MasterRegistry", "tokenomics")]

TransferOwnership_530 == Main!TransferOwnership_530

Unless(n, fact) == UnlessHolds(n, fact, Call(n, fact))

UnlockSDL_599 == Script("599_unlock_SDL_transferability", {}, << >>,
  Get({"SDL"}) \o Unless("SDL", "transferable"))

\* 600, 601: the first two weeks of the gauges, with the gauge of USDPoolV2.
USDPoolV2Gauge == Gauge(LP("SaddleUSDPoolV2"))

FirstWeek_600 == Script("600_run_prepareForFirstWeekLaunch", {}, << >>,
  Get({"GaugeController", "SDL", "VotingEscrow", "Minter", "GaugeHelperContract",
       LP("SaddleUSDPoolV2"), USDPoolV2Gauge})
    \o CallAdds("SaddleUSDPoolV2", "liquidity")
    \o Unless("SDL", "transferable") \o Unless("Minter", "first epoch")
    \o UnlessHolds("GaugeController", "first week", Call("GaugeController", "first week"))
    \o CallOnce(USDPoolV2Gauge, "first reward") \o CallOnce(USDPoolV2Gauge, "second reward")
    \o CallAdds(USDPoolV2Gauge, "rewards") \o CallAdds("SDL", "for Minter")
    \o CallOnce("VotingEscrow", "lock") \o CallAdds(USDPoolV2Gauge, "deposits"))

SecondWeek_601 == Script("601_run_prepareForSecondWeekLaunch", {}, << >>,
  Get({"GaugeHelperContract", USDPoolV2Gauge, "GaugeController"})
    \o Call("GaugeController", "weights of the second week")
    \o Call(USDPoolV2Gauge, "checkpoints of the second week"))

(***************************************************************************)
(* 605 to 614: a root gauge and its streamer on one chain; 620: a factory  *)
(* of root gauges behind mocks.                                            *)
(***************************************************************************)
RootGaugeLocal_605 == Script("605_deploy_RootGaugeLocal", {"RootGaugeLocal"}, <<"veSDL">>,
  Get({"Minter"}) \o Deploy("RootGaugeLocal"))

AddRootGaugeLocal_606 == Script("606_add_RootGaugeLocal_to_GaugeController", {}, << >>,
  Get({"GaugeController"}) \o Main!GaugeType("Liquidity (localhost)")
    \o Get({"RootGaugeLocal"}) \o CallOnce("GaugeController", "RootGaugeLocal"))

RewardsOnlyGauge_610 == Script("610_side_chain_deploy_RewardsOnlyGauge", {"RootGaugeLocal"}, << >>,
  Deploy("DUMMY_CHILD_CHAIN_LP_TOKEN") \o Deploy("RewardsOnlyGauge"))

RewardClaimer_611 == Script("611_side_chain_deploy_RewardClaimer", {"RootGaugeLocal"}, << >>,
  Get({"RewardsOnlyGauge"}) \o Deploy("RewardClaimer"))

ChildChainStreamer_612 == Script("612_side_chain_deploy_ChildChainStreamer", {"RootGaugeLocal"}, << >>,
  Get({"RewardClaimer", "SDL"}) \o Deploy("ChildChainStreamer"))

BridgeTarget_613 == Script("613_set_RootGaugeLocal_bridge_target", {"RootGaugeLocal"}, << >>,
  Get({"ChildChainStreamer", "RootGaugeLocal"}) \o Call("RootGaugeLocal", "streamer"))

SetReward_614 == Script("614_side_chain_set_reward_RewardsOnlyGauge", {"RootGaugeLocal"}, << >>,
  Get({"SDL", "ChildChainStreamer", "RewardClaimer"}) \o Call("RewardClaimer", "reward")
    \o Get({"RewardsOnlyGauge"}) \o Call("RewardsOnlyGauge", "rewards"))

CrossChainContracts == <<"MockBridger", "MockAnyCall", "AnyCallTranslator", "ProxyAdmin",
                         "TransparentUpgradeableProxy", "RootGaugeFactory">>

GaugeFactory_620 == Script("620_deploy_x_chain_gauge_factory", {"CrossChaingGauges"}, <<"veSDL">>,
  ForEach(CrossChainContracts, Deploy)
    \o Get({"SDL", "GaugeController", "Minter"}) \o Deploy("RootGauge")
    \o Get({"MasterRegistry"}) \o CallOnce("MasterRegistry", "RootGaugeFactory")
    \o Call("RootGaugeFactory", "bridger") \o Call("RootGaugeFactory", "call proxy")
    \o Call("RootGaugeFactory", "implementation")
    \o CallOnce("RootGaugeFactory", "Sample_Name") \o CallOnce("RootGaugeFactory", "Sample_Name_2")
    \o CallOnce("GaugeController", "Sample_Name_2"))

FakeUSDC_640 == Script("640_deploy_fake_USDC", {"USDC_FAKE"}, << >>, Token("USDC_FAKE"))

TransferOwnership_990 == Main!TransferOwnership_990
ImpersonateOwners_999 == Main!ImpersonateOwners_999
PrintAddresses_999 == Main!PrintAddresses_999

HardhatDirectory ==
  << PrepareNetwork, Allowlist_001, LPToken_002, AmplificationUtils_003, SwapUtilsGuarded_003,
     MetaSwapUtils_004, SwapUtils_004, SwapDeployer_005, Swap_006, SwapFlashLoan_006,
     BTCPoolTokens_100, BTCPool_101, DisableGuard_102, USDPoolTokens_110, USDPool_111,
     VETH2PoolTokens_120, VETH2Pool_121, Multicall_130, ALETHPoolTokens_140, ALETHPool_140,
     D4PoolTokens_150, D4Pool_150, USDPoolV2_160, SwapMigrator_170, SUSDMetaPoolTokens_180,
     SUSDMetaPool_181, SUSDMetaPoolDeposit_182, BTCPoolV2Tokens_190, BTCPoolV2_191,
     TBTCMetaPoolTokens_200, TBTCMetaPool_201, TBTCMetaPoolDeposit_202, WCUSDMetaPoolTokens_210,
     WCUSDMetaPool_211, WCUSDMetaPoolDeposit_212, SynthSwapper_220, Bridge_230, InitializeBridge_231,
     SUSDMetaPoolUpdated_240, SUSDMetaPoolUpdatedDeposit_241, TBTCMetaPoolUpdated_250,
     TBTCMetaPoolUpdatedDeposit_251, WCUSDMetaPoolUpdated_260, WCUSDMetaPoolUpdatedDeposit_261,
     GeneralizedSwapMigrator_270, Vesting_300, SDL_301, VestingClones_302, RetroactiveVesting_303,
     MiniChef_304, AddToAllowedList_400, KEEP_410, SimpleRewarderKEEP_411, T_420, SimpleRewarderT_421,
     SwapCalculator_430, PoolRegistry_440, MasterRegistry_441, AddToPoolRegistry_442,
     PermissionlessSwaps_450, SUSDMetaPoolV3_460, SUSDMetaPoolV3Deposit_461, TBTCMetaPoolV3_462,
     TBTCMetaPoolV3Deposit_463, WCUSDMetaPoolV3_464, WCUSDMetaPoolV3Deposit_465, RegisterV3Pools_466,
     AddToMigrator_467, FourPoolTokens_470, FourPool_471, Frax3PoolTokens_480, Frax3Pool_481,
     RegisterFraxPools_482, SimpleRewarder_492, VotingEscrow_500, VotingEscrowDelegation_501,
     DelegationProxy_502, GaugeController_503, Minter_504, VeSDLRewards_505, FeeDistributor_507,
     SushiSwapPair_508, AddToGaugeController_510, GaugeHelperContract_520, RegisterContracts_521,
     TransferOwnership_530, UnlockSDL_599, FirstWeek_600, SecondWeek_601, RootGaugeLocal_605,
     AddRootGaugeLocal_606, RewardsOnlyGauge_610, RewardClaimer_611, ChildChainStreamer_612,
     BridgeTarget_613, SetReward_614, GaugeFactory_620, FakeUSDC_640, TransferOwnership_990,
     ImpersonateOwners_999, PrintAddresses_999 >>
==============================================================================
