--------------------------- MODULE ArbitrumScripts ---------------------------
(***************************************************************************)
(* deploy/arbitrum: the first pools, MiniChefV2 and its rewarders, the     *)
(* pools with FRAXBP, the child side of the gauges and their rewards.      *)
(***************************************************************************)
LOCAL INSTANCE SideChainScripts WITH TestNetwork <- FALSE

MiniChefV2_000 == Script("000_deploy_MiniChefV2", {"MiniChef"}, << >>,
  UnlessSaved("MiniChefV2",
    Get({"SDL"}) \o Deploy("MiniChefV2") \o CallAdds("MiniChefV2", "pools") \o HandOver("MiniChefV2")))

LPToken_002            == LPTokenTarget
AmplificationUtils_003 == Library("003_deploy_AmplificationUtils", "AmplificationUtils")
SwapUtils_004          == Library("004_deploy_SwapUtils", "SwapUtils")
SwapFlashLoan_006      == SwapFlashLoanTarget

USDPoolTokens_110 == PoolTokens("110_check_ArbUSDPoolTokens", "USDPoolTokens", <<"nUSD", "MIM", "USDC", "USDT">>)
USDPool_111 == TargetPool("111_deploy_ArbUSDPool",
  "SaddleArbUSDPool", {"nUSD", "MIM", "USDC", "USDT"}, "USDPoolTokens", TRUE)
USDPoolV2Tokens_120 == PoolTokens("120_check_ArbUSDPoolV2Tokens", "ArbUSDPoolV2Tokens", <<"FRAX", "USDC", "USDT">>)
USDPoolV2_121 == Script("121_deploy_ArbUSDPoolV2", {"SaddleArbUSDPoolV2"},
  <<"SwapUtils", "SwapFlashLoan", "ArbUSDPoolV2Tokens">>,
  UnlessSaved("SaddleArbUSDPoolV2",
    NewPool({"FRAX", "USDC", "USDT"}, "SaddleArbUSDPoolV2", PoolLibraries, "LPToken")
      \o HandOver("SaddleArbUSDPoolV2")))

MetaSwapUtils_130 == Library("130_deploy_MetaSwapUtils", "MetaSwapUtils")
MetaSwap_131 == Script("131_deploy_MetaSwap", {"MetaSwap"},
  <<"AmplificationUtils", "SwapUtils", "MetaSwapUtils">>, Get(MetaPoolLibraries) \o Deploy("MetaSwap"))
MetaSwapDeposit_132 == Library("132_deploy_MetaSwapDeposit", "MetaSwapDeposit")

\* 140 to 142: the targets of the meta pools, initialized themselves.
USDSTokens_140 == Script("140_check_USDSMetaPool", {}, << >>, Tokens(<<"USDs">>))
USDSMetaPool_141 == Script("141_init_USDSMetaPool", {}, << >>,
  Get({"USDs", LP("SaddleArbUSDPoolV2")})
    \o UnlessSaved("SaddleArbUSDSMetaPool",
         Get({"LPToken", "SaddleArbUSDPoolV2", "MetaSwap"}) \o Initialize("MetaSwap")
           \o Save("SaddleArbUSDSMetaPool") \o Save(LP("SaddleArbUSDSMetaPool"))))
USDSDeposit_142 == Script("142_init_USDSMetaPoolDeposit", {}, << >>,
  UnlessSaved(Deposit("SaddleArbUSDSMetaPool"),
    Get({"SaddleArbUSDPoolV2", "SaddleArbUSDSMetaPool", LP("SaddleArbUSDSMetaPool"), "MetaSwapDeposit"})
      \o Initialize("MetaSwapDeposit") \o Save(Deposit("SaddleArbUSDSMetaPool"))))

\* The rewarder is saved under two names; the first is asked for.
SimpleRewarder_150 == Script("150_deploy_SimpleRewarder", {"SimpleRewarder"}, << >>,
  UnlessSaved("SimpleRewarder",
    Get({"MiniChefV2"}) \o Deploy("SimpleRewarder") \o Save("SimpleRewarder_SPA")
      \o Get({LP("SaddleArbUSDSMetaPool")}) \o Initialize("SimpleRewarder_SPA")))

PoolRegistry_160   == PoolRegistryOf("160_deploy_PoolRegistry")
MasterRegistry_170 == MasterRegistryOf("170_deploy_MasterRegistry", "PoolRegistry")

FRAXBPTokens_180 == MissingPoolTokens("180_deploy_FRAXBPPoolTokens", "fraxBPpoolTokens", <<"USDC", "FRAX">>)
FRAXBPPool_181 == UtilsPool("181_deployFRAXBPPool", "SaddleFRAXBPPool", {"USDC", "FRAX"}, "fraxBPpoolTokens")

FRAXUSDsTokens_190 == MetaPoolTokens("190_check_FRAXUSDSMetaPoolTokens",
  "FRAXUSDSMetaPoolTokens", "SaddleFRAXBPPool", <<"USDs">>)
FRAXUSDsMetaPool_191 == MetaPool("191_deploy_FRAXUSDSMetaPool", "SaddleFRAXUSDsMetaPool", "SaddleFRAXBPPool",
  "USDs", <<"LPToken", "FRAXUSDSMetaPoolTokens", "SaddleFRAXBPPool">>)
\* The tag of 190 is written otherwise.
FRAXUSDsDeposit_192 == MetaPoolDeposit("192_deploy_FRAXUSDsMetaPoolDeposit",
  "SaddleFRAXUSDsMetaPool", "SaddleFRAXBPPool", "FRAXUSDsMetaPoolTokens")

\* A new rewarder each time, until it is saved; its rewardToken tells
\* whether it was initialized.
SimpleRewarder_193 == Skipped(Script("193_deploy_SimpleRewarder_FraxUSDs", {"SimpleRewarder"}, << >>,
  UnlessSaved("SimpleRewarder_SPA2",
    Get({"MiniChefV2"}) \o Make("SimpleRewarder_SPA2", "created") \o Save("SimpleRewarder_SPA2"))
    \o Get({LP("SaddleFRAXUSDsMetaPool")}) \o Try("SimpleRewarder_SPA2", "initialized")))
VerifyRewarder_194 == Nothing("194_verify_SPA2_rewarder", {"SimpleRewarder"}, << >>)

FRAXUSDTTokens_210 == MetaPoolTokens("210_check_FRAXUSDTMetaPoolTokens",
  "FRAXUSDTMetaPoolTokens", "SaddleFRAXBPPool", <<"USDT">>)
FRAXUSDTMetaPool_211 == MetaPool("211_deploy_FRAXUSDTMetaPool", "SaddleFRAXUSDTMetaPool", "SaddleFRAXBPPool",
  "USDT", <<"LPToken", "FRAXUSDTMetaPoolTokens", "SaddleFRAXBPPool">>)
FRAXUSDTDeposit_212 == MetaPoolDeposit("212_deploy_FRAXUSDTMetaPoolDeposit",
  "SaddleFRAXUSDTMetaPool", "SaddleFRAXBPPool", "FRAXUSDTMetaPoolTokens")

RegisterPools_213 == Registration("213_register_new_pools", "FRAXBP pools",
  {"SaddleFRAXBPPool", "SwapFlashLoan", "SaddleFRAXUSDsMetaPool", Deposit("SaddleFRAXUSDsMetaPool"),
   "SaddleFRAXUSDTMetaPool", Deposit("SaddleFRAXUSDTMetaPool")})
UpdateRegistry_220 == Skipped(Script("220_update_registry_USDS_pool", {}, << >>,
  Get({"PoolRegistry", "SaddleFRAXUSDsMetaPool", "USDs", "USDC", "FRAX"})
    \o Call("PoolRegistry", "underlying tokens of FRAXUSDs")))

USXPool_230        == USXPool("230_deploy_pools")
Permissionless_230 == Permissionless("230_permissionless_deployments", "multisig")

CrossChainSystem_240 == CrossChainSystem("240_deploy_sidechain_x_chain_system")
ChildGauge_241       == ChildGaugeImplementation("241_deploy_child_gauge_impl")

fUSDCPool == LP("CommunityfUSDCPool")
GaugedPools == <<LP("SaddleArbUSDPool"), LP("SaddleArbUSDPoolV2"), LP("SaddleArbUSDSMetaPool"),
                 LP("SaddleFRAXBPPool"), LP("SaddleFRAXUSDTMetaPool"), LP("SaddleFRAXUSDsMetaPool"),
                 LP("SaddleUSXFRAXBPMetaPool"), fUSDCPool>>
ChildGauges_250     == ChildGaugesOf("250_deploy_child_gauges", GaugedPools)
fUSDCChildGauge_260 == ChildGaugesOf("260_deploy_fUSDCchild_gauge", <<fUSDCPool>>)

(***************************************************************************)
(* 260 to 273: who adds rewards to the gauge of fUSDC.  A RewardForwarder  *)
(* passes them on; a RewardScheduler, given to its owner, fills it.        *)
(***************************************************************************)
fUSDCGauge   == "ChildGauge_" \o fUSDCPool
Forwarder(v) == "RewardForwarder_fUSDC_" \o fUSDCGauge \o v
Scheduler(v) == "RewardScheduler_ChildGauge_CommunityfUSDCLPToken" \o v

AddReward(gauge, token, forwarder) ==
  UnlessHolds(gauge, token, Get({forwarder}) \o OwnerCall(gauge, token))
RewardForwarder(v) ==
  Get({fUSDCGauge \o v}) \o Deploy(Forwarder(v)) \o Get({"fUSDC"})
    \o AddReward(fUSDCGauge \o v, "reward fUSDC", Forwarder(v))
RewardScheduler(forwarder, token, scheduler) ==
  Get({forwarder, token}) \o Deploy(scheduler) \o UnlessHolds(scheduler, "handed over", HandOver(scheduler))

\* A mutant: it looks up the scheduler, which the script after it deploys.
RewardForwarderOfScheduler == Script("260_depoy_fluidity_RewardForwarder", {}, << >>,
  Get({Scheduler("")}) \o RewardForwarder(""))

RewardForwarder_260 == Script("260_depoy_fluidity_RewardForwarder", {}, << >>, RewardForwarder(""))
RewardScheduler_261 == Script("261_depoy_fluidity_RewardScheduler", {}, << >>,
  RewardScheduler(Forwarder(""), "fUSDC", Scheduler("")))
SDLScheduler_264 == Script("264_depoy_fUSDCChildGauge_SDL_RewardScheduler", {}, << >>,
  Get({fUSDCGauge, "SDL"}) \o AddReward(fUSDCGauge, "reward SDL", Forwarder(""))
    \o RewardScheduler(Forwarder(""), "SDL", Scheduler("_SDL")))
fUSDCScheduler_264 == Script("264_depoy_fUSDCChildGauge_fUSDC_RewardScheduler", {}, << >>,
  RewardScheduler(Forwarder(""), "fUSDC", Scheduler("_fUSDC")))

ChildGaugeV2_270 == Skipped(ChildGaugeV2("270_deploy_child_gauge_impl"))
fUSDCGaugeV3_271 == Script("271_deploy_fUSDCchild_gaugeV3", {}, << >>,
  UnlessSaved(fUSDCGauge \o "V3",
    Get({fUSDCPool}) \o CallOnce("ChildGaugeFactory", "fUSDC-USDC poolV3") \o Get({"ChildGauge"})
      \o Save(fUSDCGauge \o "V3") \o Call("ChildGaugeFactory", "mirrored V3")))
RewardForwarderV3_272 == Script("272_depoy_fluidity_RewardForwarderV3", {}, << >>, RewardForwarder("V3"))
RewardSchedulerV3_273 == Script("273_depoy_fUSDCChildGaugeV3_fUSDC_RewardScheduler", {}, << >>,
  RewardScheduler(Forwarder("V3"), "fUSDC", Scheduler("_fUSDCV3")))

ImpersonateOwners_999 == Nothing("999_impersonate_owners", {}, << >>)
PrintAddresses_999 == Nothing("999_print_addresses", {"TransferOwnership"}, <<"Allowlist", "BTCPool", "USDPool">>)

ArbitrumDirectory ==
  << MiniChefV2_000, LPToken_002, AmplificationUtils_003, SwapUtils_004, SwapFlashLoan_006,
     USDPoolTokens_110, USDPool_111, USDPoolV2Tokens_120, USDPoolV2_121, MetaSwapUtils_130, MetaSwap_131,
     MetaSwapDeposit_132, USDSTokens_140, USDSMetaPool_141, USDSDeposit_142, SimpleRewarder_150,
     PoolRegistry_160, MasterRegistry_170, FRAXBPTokens_180, FRAXBPPool_181, FRAXUSDsTokens_190,
     FRAXUSDsMetaPool_191, FRAXUSDsDeposit_192, SimpleRewarder_193, VerifyRewarder_194, FRAXUSDTTokens_210,
     FRAXUSDTMetaPool_211, FRAXUSDTDeposit_212, RegisterPools_213, UpdateRegistry_220, USXPool_230,
     Permissionless_230, CrossChainSystem_240, ChildGauge_241, ChildGauges_250, fUSDCChildGauge_260,
     RewardForwarder_260, RewardScheduler_261, SDLScheduler_264, fUSDCScheduler_264, ChildGaugeV2_270,
     fUSDCGaugeV3_271, RewardForwarderV3_272, RewardSchedulerV3_273, ImpersonateOwners_999,
     PrintAddresses_999 >>
==============================================================================
