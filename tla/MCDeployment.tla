----------------------------- MODULE MCDeployment -----------------------------
(* The releases of each network. *)
EXTENDS Deployment, ScriptOrder, FiniteSets

Mainnet     == INSTANCE MainnetScripts WITH TestNetwork <- FALSE
Local       == INSTANCE HardhatScripts
Arbitrum    == INSTANCE ArbitrumScripts
Optimism    == INSTANCE OptimismScripts
Fantom      == INSTANCE FantomScripts
Evmos       == INSTANCE EvmosScripts
Kava        == INSTANCE KavaScripts
Aurora      == INSTANCE AuroraScripts
BaseTestnet == INSTANCE BaseTestnetScripts

CONSTANT Width

NamesOf(script) == {s.of : s \in {s \in Range(script.steps) : s.do \in {"deploy", "save"}}}
FactsOf(script) == {<<s.of, s.fact>> : s \in {s \in Range(script.steps) : s.do \in Effects \ {"save"}}}

\* What stands in deployments/<network> without a script having saved it.
MainnetExternal == {"ALETH", "ALUSD", "DAI", "FEI", "FRAX", "KEEP", "LUSD", "RENBTC", "SBTC", "SETH", "SUSD", "T", "TBTC", "TBTCv2", "USDC",
   "USDT", "USX", "VETH2", "WBTC", "WCUSD", "WETH", "vesperFRAXFRAXBP", "SushiSwapPairSDLFRAX",
   "SushiSwapPairSDLWETH", "SwapDeployerV1", "SwapFlashLoanV1", "LPTokenV1", "ArbL1GatewayRouter",
   "OptimismGateway", "SaddleFraxBPBaoUSDMetaPoolLPToken", "CommunityfUSDCPoolLPToken",
   "CommunityfUSDCPoolLPTokenV3", "MetaSwap",
   "RootGauge", "RootGaugeFactory"}
ArbitrumExternal == {"SDL", "SPA", "FRAX", "MIM", "USDC", "USDT", "USDs", "USX", "nUSD", "fUSDC",
                     "CommunityfUSDCPoolLPToken", "ChildGauge", "ChildGaugeFactory",
                     "ChildGauge_CommunityfUSDCPoolLPToken"}
OptimismExternal == {"SDL", "DAI", "FRAX", "SUSD", "USDC", "USDT", "USX", "MetaPoolDeposit",
                     "ChildGauge", "ChildGaugeFactory"}
FantomExternal == {"ALUSD", "FRAX", "USDC", "USDT", "MetaPoolDeposit"}
EvmosExternal == {"DAI", "FRAX", "RENBTC", "SDL", "TBTCv2", "USDC", "USDT", "WBTC", "ceUSDC", "ceUSDT",
                  "MetaPoolDeposit"}
KavaExternal == {"DAI", "USDC", "USDT"}
AuroraExternal == {"USDC", "USDT"}

(***************************************************************************)
(* The scripts that need a hand when they were cut off, or that throw in    *)
(* their first run or in every later one.                                   *)
(***************************************************************************)
MainnetFragile == {
  "002_deploy_LPToken", "101_deploy_BTCPool", "111_deploy_USDPool", "121_deploy_VETH2Pool",
  "140_deploy_alETHPool", "150_deploy_D4Pool", "160_deploy_USDPoolV2", "181_deploy_SUSDMetaPool",
  "182_deploy_SUSDMetaPoolDeposit", "191_deploy_BTCPoolV2", "201_deploy_TBTCMetaPool",
  "202_deploy_TBTCMetaPoolDeposit", "211_deploy_CUSDMetaPool", "212_deploy_CUSDMetaPoolDeposit",
  "240_deploy_SUSDMetaPoolUpdated", "241_deploy_SUSDMetaPoolUpdatedDeposit", "250_deploy_TBTCMetaPoolUpdated",
  "251_deploy_TBTCMetaPoolUpdatedDeposit", "260_deploy_CUSDMetaPoolUpdated",
  "261_deploy_CUSDMetaPoolUpdatedDeposit", "270_deploy_GeneralizedSwapMigrator", "302_deploy_Vesting_clones",
  "303_deploy_RetroactiveVesting", "304_deploy_MiniChef", "411_deploy_SimpleRewarder_KEEP",
  "421_deploy_SimpleRewarder_T", "441_deploy_MasterRegistry", "450_deploy_PermissionlessSwaps",
  "460_deploy_SUSDMetaPoolV3", "461_deploy_SUSDMetaPoolV3Deposit", "462_deploy_TBTCMetaPoolV3",
  "463_deploy_TBTCMetaPoolV3Deposit", "464_deploy_CUSDMetaPoolV3", "465_deploy_CUSDMetaPoolV3Deposit",
  "471_deploy_4pool", "481_deploy_frax3pool", "492_deploy_SimpleRewarder", "541_deploy_FRAXBPpool",
  "551_deploy_FRAXSUSDMetaPool", "561_deploy_FRAXUSDTMetaPool", "571_deploy_FRAXalUSDMetaPool",
  "600_deploy_SmartWalletChecker", "611_deploy_USXPool", "621_deploy_FRAXUSXMetaPool",
  "650_depoy_vesper_RewardForwarder", "670_deploy_root_x_chain_gauge_system", "671_deploy_root_gauge_impl",
  "673_deploy_arb_root_gauges", "674_deploy_opt_root_gauges", "680_deploy_pools",
  "700_deploy_renbtc_replacement_btc_pools", "720_deploy_fUSDC_root_gauge", "730_deploy_root_gaugeV2_impl",
  "731_deploy_fUSDC_RootGauge_V3" }
ArbitrumFragile == {
  "000_deploy_MiniChefV2", "002_deploy_LPToken", "111_deploy_ArbUSDPool", "121_deploy_ArbUSDPoolV2",
  "141_init_USDSMetaPool", "150_deploy_SimpleRewarder", "170_deploy_MasterRegistry", "181_deployFRAXBPPool",
  "191_deploy_FRAXUSDSMetaPool", "193_deploy_SimpleRewarder_FraxUSDs", "211_deploy_FRAXUSDTMetaPool",
  "230_deploy_pools", "230_permissionless_deployments", "240_deploy_sidechain_x_chain_system",
  "241_deploy_child_gauge_impl", "250_deploy_child_gauges", "260_deploy_fUSDCchild_gauge",
  "270_deploy_child_gauge_impl", "271_deploy_fUSDCchild_gaugeV3" }
OptimismFragile == {
  "002_deploy_LPToken", "101_deploy_OptUSDPool", "111_deploy_OptFRAXMetaPool",
  "112_deploy_OptFRAXMetaPoolDeposit", "170_deploy_MasterRegistry", "181_deploy_FRAXBPPool",
  "191_deploy_FRAXUSDTMetaPool", "201_deploy_FRAXSUSDMetaPool", "210_deploy_MiniChefV2",
  "220_deploy_sidechain_x_chain_system", "221_deploy_child_gauge_impl", "230_deploy_child_gauges",
  "240_deploy_pools", "240_permissionless_deployments", "250_deploy_child_gauge_impl" }
FantomFragile == {
  "002_deploy_LPToken", "111_deploy_FtmUSDPool", "170_deploy_MasterRegistry", "181_deploy_FRAXUSDTMetaPool",
  "191_deploy_FRAXalUSDMetaPool", "200_permissionless_deployments" }
EvmosFragile == {
  "002_deploy_LPToken", "111_deploy_Evmos3Pool", "131_deploy_EvmosBTCPool", "141_deploy_TBTCMetaPool",
  "142_deploy_TBTCMetaPoolDeposit", "151_deploy_Evmos4Pool", "171_deploy_EvmosFrax3Pool",
  "181_deploy_MasterRegistry", "190_deploy_MiniChefV2", "191_add_rewards_MiniChefV2",
  "200_deploy_Pools", "210_permissionless_deployments" }
KavaFragile == {
  "002_deploy_LPToken", "111_deploy_Kava3Pool", "161_add_to_PoolRegistry", "170_deploy_MasterRegistry",
  "181_deploy_Pools", "191_permissionless_deployments" }
AuroraFragile == {
  "002_deploy_LPToken", "009_deploy_MasterRegistry", "010_permissionless_deployments", "101_deploy_USDTPool" }
BaseTestnetFragile == {
  "002_deploy_LPTokenV2", "009_deploy_MasterRegistry", "010_permissionless_deployments",
  "012_deploy_DummyTokenPool" }

Networks == {
  [directory |-> Mainnet!MainnetDirectory, external |-> MainnetExternal, sent |-> << >>, fragile |-> MainnetFragile],
  [directory |-> Arbitrum!ArbitrumDirectory, external |-> ArbitrumExternal, sent |-> << >>, fragile |-> ArbitrumFragile],
  [directory |-> Optimism!OptimismDirectory, external |-> OptimismExternal,
   sent |-> [i \in 1..11 |-> ""], fragile |-> OptimismFragile],
  [directory |-> Fantom!FantomDirectory, external |-> FantomExternal, sent |-> << >>, fragile |-> FantomFragile],
  [directory |-> Evmos!EvmosDirectory, external |-> EvmosExternal, sent |-> << >>, fragile |-> EvmosFragile],
  [directory |-> Kava!KavaDirectory, external |-> KavaExternal, sent |-> << >>, fragile |-> KavaFragile],
  [directory |-> Aurora!AuroraDirectory, external |-> AuroraExternal, sent |-> << >>, fragile |-> AuroraFragile],
  [directory |-> BaseTestnet!BaseTestnetDirectory, external |-> {}, sent |-> << >>, fragile |-> BaseTestnetFragile] }

\* What scripts leave behind that ran without a failure.
Made(scripts) == [saved |-> UNION {NamesOf(s) : s \in scripts}, chain |-> UNION {FactsOf(s) : s \in scripts}]
Before(network, j) == Range(SubSeq(network.directory, 1, j - 1))
Ran(scripts) == {s \in scripts : ~s.skip}
CrossDeployed(directory) ==
  FlattenSeq([i \in DOMAIN directory |->
    IF directory[i].skip THEN << >>
    ELSE LET made == SelectSeq(directory[i].steps, LAMBDA s : s.do = "deploy" /\ s.by = "crossChainDeployer")
         IN [k \in DOMAIN made |-> made[k].of]])

Deployed(network, made, plan) ==
  [plan |-> plan, saved |-> made.saved \union network.external, chain |-> made.chain, sent |-> network.sent,
   live |-> TRUE, again |-> FALSE,
   fragile |-> {script.file : script \in Range(plan)} \intersect network.fragile]

Window(directory, j) == SubSeq(directory, j, IF j + Width > Len(directory) THEN Len(directory) ELSE j + Width - 1)

\* Width new scripts on top of those before them.
NewReleases(network) ==
  {Deployed(network, Made(Ran(Before(network, j))), Window(network.directory, j)) :
     j \in {j \in DOMAIN network.directory : network.directory[j].steps # << >> /\ ~network.directory[j].skip}}

\* A script that is skipped by now, when it was new: without what it saves,
\* and with the nonce at which the scripts before it left the account.
UsesNonces(script) == \E s \in Range(script.steps) : s.by = "crossChainDeployer"
NonceBefore(network, j) ==
  LET users == SelectSeq(SubSeq(network.directory, 1, j - 1), UsesNonces)
  IN CASE Len(users) = 0 -> 0 [] Len(users) = 1 -> 6 [] OTHER -> 11
Lifted(network, j) ==
  LET later == {s \in Range(SubSeq(network.directory, j, Len(network.directory))) : s.skip}
      made  == Made(Range(network.directory) \ later)
  IN [Deployed(network, made, <<[network.directory[j] EXCEPT !.skip = FALSE]>>)
        EXCEPT !.saved = @ \ NamesOf(network.directory[j]), !.sent = [i \in 1..NonceBefore(network, j) |-> ""]]
LiftedReleases(network) ==
  {Lifted(network, j) : j \in {j \in DOMAIN network.directory :
                                network.directory[j].skip /\ network.directory[j].steps # << >>}}

\* All of the scripts again.
Again(network) ==
  [Deployed(network, Made(Ran(Range(network.directory))), network.directory)
     EXCEPT !.sent = @ \o CrossDeployed(network.directory), !.live = FALSE, !.again = TRUE]

\* The local network, from nothing.
Fresh(plan) ==
  [plan |-> plan, saved |-> {}, chain |-> {}, sent |-> << >>, live |-> FALSE, again |-> FALSE, fragile |-> {}]

\* The tags that the tests give deployments.fixture.
Fixtures ==
  {{"Swap"}, {"Swap", "LPToken"}, {"Swap", "MasterRegistry"}, {"Swap", "SynthSwapper", "LPToken"},
   {"Swap", "USDPool", "MetaSwapUtils"}, {"Swap", "USDPool", "SwapDeployer"}, {"USDPool"},
   {"USDPool", "MetaSwapUtils", "MasterRegistry"}, {"USDPool", "USDPoolV2", "SwapMigrator"},
   {"USDPool", "USDPoolV2", "GeneralizedSwapMigrator"}, {"SUSDMetaPoolTokens"}, {"USDPoolV2"},
   {"D4PoolTokens", "PermissionlessSwaps"}, {"veSDL"}, {"USDPoolV2", "veSDL"}, {"veSDL", "RootGaugeLocal"}}

MCReleases ==
  UNION {NewReleases(network) \union LiftedReleases(network) : network \in Networks}
    \union {Again(network) : network \in Networks}
    \union {Fresh(plan) : plan \in {Local!HardhatDirectory} \union
                                    {PlanOfTags(Local!HardhatDirectory, tags) : tags \in Fixtures}}

ASSUME PlansAreDirectories ==
  DependenciesComeFirst(Local!HardhatDirectory) /\ \A network \in Networks : DependenciesComeFirst(network.directory)
==============================================================================
