-------------------------- MODULE SideChainScripts ---------------------------
(***************************************************************************)
(* What the directories of the other chains have in common: the scripts    *)
(* that differ between them in the names only.  On these chains the        *)
(* multisig is not the deployer, and the tokens are the real ones.         *)
(***************************************************************************)
EXTENDS DeployUtils

Library(file, name) == Script(file, {name}, << >>, Deploy(name))

LPTokenTarget ==
  Script("002_deploy_LPToken", {"LPToken"}, << >>,
    UnlessSaved("LPToken", Deploy("LPToken") \o Initialize("LPToken")))

SwapFlashLoanTarget ==
  Script("006_deploy_SwapFlashLoan", {"SwapFlashLoan"}, <<"AmplificationUtils", "SwapUtils">>,
    Get(PoolLibraries) \o Deploy("SwapFlashLoan"))

Multicalls(file) ==
  Script(file, {"Multicall"}, << >>, ForEach(<<"Multicall", "Multicall2", "Multicall3">>, Deploy))

PoolTokens(file, tag, tokens)        == Script(file, {tag}, << >>, Tokens(tokens))
MissingPoolTokens(file, tag, tokens) == Script(file, {tag}, << >>, MissingTokens(tokens))

\* The first pool of a chain is the target itself: nobody clones it yet, so
\* it is initialized and saved under the name of the pool.
InitializedTarget(pool, tokens, handedOver) ==
  UnlessSaved(pool,
    Get(tokens \union {"LPToken", "SwapFlashLoan"}) \o Initialize("SwapFlashLoan") \o Save(pool)
      \o Get({"LPToken"}) \o Save(LP(pool)) \o When(handedOver, HandOver(pool)))
TargetPool(file, pool, tokens, tokensTag, handedOver) ==
  Script(file, {pool}, <<"SwapUtils", "SwapFlashLoan", tokensTag>>, InitializedTarget(pool, tokens, handedOver))

\* A pool of the script's own.
NewPool(tokens, pool, libraries, lpToken) ==
  Get(tokens \union libraries) \o Deploy(pool) \o Get({lpToken}) \o Initialize(pool) \o Save(LP(pool))
OwnPool(file, pool, tokens, tokensTag) ==
  Script(file, {pool}, <<"SwapUtils", "SwapFlashLoan", tokensTag>>,
    UnlessSaved(pool, NewPool(tokens, pool, PoolLibraries, "LPToken")))

\* A pool by deploySwapFlashLoan; SwapDeployer is the tag of no script here.
UtilsPool(file, pool, tokens, tokensTag) ==
  Script(file, {pool}, <<"SwapUtils", "SwapFlashLoan", "SwapDeployer", tokensTag>>,
    DeploySwapFlashLoan(pool, tokens))

OwnDeposit(file, tags, dependencies, base, pool) ==
  Script(file, tags, dependencies,
    UnlessSaved(Deposit(pool),
      Deploy(Deposit(pool)) \o Get({base, pool, LP(pool)}) \o Initialize(Deposit(pool))))

PoolRegistryOf(file) == Script(file, {"PoolRegistry"}, << >>, Deploy("PoolRegistry"))

\* One batch adds the registries; aurora, base and ropsten add the
\* FeeCollector to it, for which the permissionless deployment asks later.
MasterRegistryOf(file, registered) ==
  Script(file, {"MasterRegistry"}, << >>,
    UnlessSaved("MasterRegistry",
      Deploy("MasterRegistry") \o Get({"PoolRegistry"}) \o CallOnce("MasterRegistry", registered)))

Registration(file, pools, uses) == Script(file, {}, << >>, RegisterPools(pools, uses))

PermissionlessTags == <<"MasterRegistry", "PoolRegistry", "SwapUtils", "AmplificationUtils",
                        "MetaSwapUtils", "LPToken">>
Permissionless(file, admin) ==
  Script(file, {"PermissionlessSwaps"}, PermissionlessTags, DeployPermissionlessPoolComponents(admin))

\* MiniChefV2, given its pools in one batch.
MiniChef(pools) ==
  UnlessSaved("MiniChefV2",
    Get({"SDL"}) \o Deploy("MiniChefV2") \o Get(pools) \o CallAdds("MiniChefV2", "pools"))

\* deployMetaswapPools for USX and FRAXBP, on arbitrum and on optimism.
USXPool(file) ==
  Script(file, {"poolDeployments"}, << >>,
    DeployMetaswapPools(PoolData("SaddleUSXFRAXBPMetaPool", "SaddleFRAXBPPool",
      {"USX", LP("SaddleFRAXBPPool")}, TRUE, TRUE, FALSE)))

CrossChainSystem(file) == Skipped(Script(file, {}, << >>, DeployCrossChainSystemOnSideChain))
\* The implementation of the gauges, made again at the next nonce.
ChildGaugeImplementation(file) == Skipped(Script(file, {}, << >>,
  IfNonce(6, SpendNonce) \o ExpectNonce(7) \o Get({"SDL", "ChildGaugeFactory"})
    \o CrossDeploy("ChildGauge") \o Call("ChildGaugeFactory", "implementation")))
ChildGaugesOf(file, lps) == Skipped(Script(file, {}, << >>, DeployChildGauges(lps, TRUE)))
ChildGaugeV2(file) == Script(file, {}, << >>,
  ExpectNonce(11) \o Get({"SDL", "ChildGaugeFactory"}) \o CrossDeploy("ChildGaugeV2") \o Get({"ChildGauge"}))

\* Scripts that verify, print or rehearse on a fork.
Nothing(file, tags, dependencies) == Script(file, tags, dependencies, << >>)
==============================================================================
