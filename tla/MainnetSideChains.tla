-------------------------- MODULE MainnetSideChains --------------------------
(***************************************************************************)
(* deploy/mainnet/600 to 999: USX, the root side of the gauges of the      *)
(* other chains, the later pools, and the scripts that hand over.          *)
(***************************************************************************)
EXTENDS MainnetTokenomics

\* The wallet of FRAX, the first that may lock.
SmartWalletChecker_600 == Script("600_deploy_SmartWalletChecker", {}, << >>,
  UnlessSaved("SmartWalletChecker",
    Deploy("SmartWalletChecker") \o Call("SmartWalletChecker", "wallet of FRAX")))

USXPoolTokens_610 == Script("610_check_USXPoolTokens", {"USXPoolTokens"}, << >>, Tokens(<<"USDC", "USX">>))

USXPool_611 == Script("611_deploy_USXPool", {"SaddleUSXPool"},
  <<"SwapUtils", "SwapFlashLoan", "SwapDeployer", "USXPoolTokens">>,
  DeploySwapFlashLoan("SaddleUSXPool", {"USDC", "USX"}))

RegisterUSXPool_612 == Script("612_register_USX_pool", {}, << >>,
  RegisterPools("USDC-USX", {"SaddleUSXPool", "SwapFlashLoan"}))

USXGauge_613 == Script("613_deploy_USX_LiqV5gauge", {}, << >>, PoolGauges(<<LP("SaddleUSXPool")>>))

\* The tag on which 620 depends is the tag of no script.
FRAXUSXTokens_620 == Script("620_check_FRAXUSXMetaPoolTokens", {"FRAXUSXMetaPoolTokens"},
  <<"SaddleFRAXUSXPool">>, Tokens(<<"USX">>))

FRAXUSXMetaPool_621 ==
  MetaPool("621_deploy_FRAXUSXMetaPool",
    "SaddleFRAXUSXMetaPool", "SaddleFRAXBPPool", "USX", <<"LPToken", "FRAXUSXMetaPoolTokens", "SaddleFRAXBPPool">>)
FRAXUSXMetaPoolDeposit_622 ==
  MetaPoolDeposit("622_deploy_FRAXUSXMetaPoolDeposit",
    "SaddleFRAXUSXMetaPool", "SaddleFRAXBPPool", "FRAXUSXMetaPoolTokens")

RegisterFRAXUSXPool_623 == Script("623_register_FRAXUSX_pool", {}, << >>,
  RegisterPools("FRAXBP-USX", {"SaddleFRAXUSXMetaPool", Deposit("SaddleFRAXUSXMetaPool")}))

FRAXUSXGauge_624 == Script("624_deploy_FRAXUSX_LiqV5gauge", {}, << >>,
  PoolGauges(<<LP("SaddleFRAXUSXMetaPool")>>))

\* 630, 632: what PermissionlessDeployer clones from now on.
SetTargets(swap, metaSwap) ==
  Get({"PermissionlessDeployer", swap}) \o Call("PermissionlessDeployer", swap)
    \o Get({metaSwap}) \o Call("PermissionlessDeployer", metaSwap)
    \o Get({Deposit("SaddleFRAXalUSDMetaPool")}) \o Call("PermissionlessDeployer", "targetMetaSwapDeposit")

FlashLoanTargets_630 == Skipped(Script("630_update_permissionless_deployer", {}, << >>,
  SetTargets("PermissionlessSwapFlashLoan", "PermissionlessMetaSwapFlashLoan")))

PermissionlessSwaps_631 == Script("631_deploy_permissionless_swaps", {}, << >>,
  Get({"MasterRegistry"} \union PoolLibraries) \o Deploy("PermissionlessSwap")
    \o Get(MetaPoolLibraries) \o Deploy("PermissionlessMetaSwap"))

PlainTargets_632 == Skipped(Script("632_update_permissionless_deployer", {}, << >>,
  SetTargets("PermissionlessSwap", "PermissionlessMetaSwap")))

VesperMetaPool == "SaddleFRAXBPVesperFRAXMetaPool"

VesperForwarder_650 == Script("650_depoy_vesper_RewardForwarder", {}, << >>,
  Get({Gauge(LP(VesperMetaPool))}) \o Deploy("RewardForwarder_VSP_" \o Gauge(LP(VesperMetaPool))))

(***************************************************************************)
(* 670 to 675: the root gauges.                                            *)
(***************************************************************************)
RootGaugeSystem_670 == Skipped(Script("670_deploy_root_x_chain_gauge_system", {}, << >>,
  CrossDeploy("RootGaugeFactory")
    \o Get({"SDL", "GaugeController", "Minter"}) \o CrossDeploy("RootGauge")
    \o CrossDeploy("ProxyAdmin") \o CrossDeploy("AnyCallTranslatorLogic")
    \o CrossDeploy("AnyCallTranslatorProxy") \o Save("AnyCallTranslator")
    \o Get({"VotingEscrow"}) \o CrossDeploy("RootOracle")
    \o Call("RootGaugeFactory", "implementation") \o Call("RootGaugeFactory", "call proxy")
    \o Get({"MasterRegistry"}) \o CallOnce("MasterRegistry", "RootGaugeFactory")
    \o Call("AnyCallTranslator", "known callers")))

\* Another RootGauge, whose code has changed.
RootGaugeImplementation_671 == Skipped(Script("671_deploy_root_gauge_impl", {}, << >>,
  IfNonce(6, SpendNonce) \o ExpectNonce(7)
    \o Get({"SDL", "GaugeController", "Minter"}) \o CrossDeploy("RootGauge")
    \o Get({"RootGaugeFactory"}) \o Call("RootGaugeFactory", "implementation")))

Bridgers_672 == Skipped(Script("672_deploy_bridgers", {}, << >>,
  Get({"SDL"}) \o Deploy("ArbitrumBridger") \o Deploy("OptimismBridger")
    \o Get({"RootGaugeFactory"}) \o Call("RootGaugeFactory", "bridger to Arbitrum")
    \o Call("RootGaugeFactory", "bridger to Optimism")))

\* The address of a gauge follows from the chain and the salt, so that the
\* second call for the same name reverts.
RootGauge(chain, lp) ==
  Get({"RootGaugeFactory"}) \o CallOnce("RootGaugeFactory", chain \o lp)
    \o Get({"RootGauge"}) \o Save("RootGauge_" \o chain \o lp)
RootGauges(chain, lps) == ForEach(lps, LAMBDA lp : RootGauge(chain, lp))

ArbitrumChain == "42161_"
OptimismChain == "10_"

ArbitrumRootGauges_673 == Skipped(Script("673_deploy_arb_root_gauges", {}, << >>,
  RootGauges(ArbitrumChain,
    <<LP("SaddleArbUSDPool"), LP("SaddleArbUSDPoolV2"), LP("SaddleArbUSDSMetaPool"), LP("SaddleFRAXBPPool"),
      LP("SaddleFRAXUSDTMetaPool"), LP("SaddleFRAXUSDsMetaPool"), LP("SaddleUSXFRAXBPMetaPool")>>)))

OptimismRootGauges_674 == Skipped(Script("674_deploy_opt_root_gauges", {}, << >>,
  RootGauges(OptimismChain,
    <<LP("SaddleFRAXBPPool"), LP("SaddleFRAXUSDTMetaPool"), LP("SaddleFRAXsUSDMetaPool"),
      LP("SaddleOptFRAXMetaPool"), LP("SaddleOptUSDPool"), LP("SaddleUSXFRAXBPMetaPool")>>)))

\* 675 adds the gauges to the controller on a fork, as the multisig would.
AddRootGauges_675 == Skipped(Script("675_forked_add_root_gauges_to_gauge_controller", {}, << >>, << >>))

VesperPool_680 == Script("680_deploy_pools", {"poolDeployments"}, << >>,
  DeployMetaswapPools(PoolData(VesperMetaPool, "SaddleFRAXBPPool", {"vesperFRAXFRAXBP"}, TRUE, TRUE, TRUE)))

UpdateVesperPool_690 == Skipped(Script("690_update_registry_vesperFRAX_pool", {}, << >>,
  Get({"PoolRegistry", VesperMetaPool, "vesperFRAXFRAXBP", "USDC", "FRAX", Deposit(VesperMetaPool)})
    \o Call("PoolRegistry", "underlying tokens of " \o VesperMetaPool)))

BTCPools_700 == Script("700_deploy_renbtc_replacement_btc_pools", {"poolDeployments"}, << >>,
  DeploySwapFlashLoanPools(PoolData("SaddleBTCBPPool", "SaddleBTCBPPool", {"WBTC", "SBTC"}, FALSE, TRUE, TRUE))
    \o DeployMetaswapPools(
         PoolData("SaddleBPTBTCv2MetaPool", "SaddleBTCBPPool", {"TBTCv2"}, FALSE, TRUE, TRUE)))

BaoUSDGauge_710 == Script("710_deploy_BaoUSD_LiqV5gauge", {}, << >>,
  PoolGauges(<<LP("SaddleFraxBPBaoUSDMetaPool")>>))

\* 720, 731: the gauge is sought on disk only.
CommunityRootGauge(file, lp) ==
  Script(file, {}, << >>, UnlessSaved("RootGauge_" \o ArbitrumChain \o lp, RootGauge(ArbitrumChain, lp)))

FUSDCRootGauge_720 == CommunityRootGauge("720_deploy_fUSDC_root_gauge", "CommunityfUSDCPoolLPToken")

RootGaugeV2_730 == Skipped(Script("730_deploy_root_gaugeV2_impl", {}, << >>,
  ExpectNonce(11) \o Get({"SDL", "GaugeController", "Minter"}) \o CrossDeploy("RootGaugeV2")))

FUSDCRootGaugeV3_731 == CommunityRootGauge("731_deploy_fUSDC_RootGauge_V3", "CommunityfUSDCPoolLPTokenV3")

\* The owner of each is read before the call.
FirstContracts == <<"Allowlist", "SaddleBTCPool", "SaddleUSDPool", "SaddleVETH2Pool", "SaddleALETHPool",
                    "SaddleD4Pool">>
TransferOwnership_990 ==
  LET Transfer(n) == Get({n}) \o UnlessHolds(n, "handed over", HandOver(n))
  IN Script("990_transfer_ownership", {"TransferOwnership"}, <<"Allowlist", "BTCPool", "USDPool">>,
       OnMainnet(ForEach(FirstContracts, Transfer)))

\* 999: the first funds the deployer on a fork, the second prints.
ImpersonateOwners_999 == Script("999_impersonate_owners", {}, << >>, << >>)
PrintAddresses_999 ==
  Script("999_print_addresses", {"TransferOwnership"}, <<"Allowlist", "BTCPool", "USDPool">>, << >>)

SideChainScripts ==
  << SmartWalletChecker_600, USXPoolTokens_610, USXPool_611, RegisterUSXPool_612, USXGauge_613,
     FRAXUSXTokens_620, FRAXUSXMetaPool_621, FRAXUSXMetaPoolDeposit_622, RegisterFRAXUSXPool_623,
     FRAXUSXGauge_624, FlashLoanTargets_630, PermissionlessSwaps_631, PlainTargets_632, VesperForwarder_650,
     RootGaugeSystem_670, RootGaugeImplementation_671, Bridgers_672, ArbitrumRootGauges_673,
     OptimismRootGauges_674, AddRootGauges_675, VesperPool_680, UpdateVesperPool_690, BTCPools_700,
     BaoUSDGauge_710, FUSDCRootGauge_720, RootGaugeV2_730, FUSDCRootGaugeV3_731, TransferOwnership_990,
     ImpersonateOwners_999, PrintAddresses_999 >>
==============================================================================
