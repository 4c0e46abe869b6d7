----------------------------- MODULE DeployUtils -----------------------------
(***************************************************************************)
(* deploy/deployUtils.ts: the functions that the later scripts call.       *)
(***************************************************************************)
EXTENDS DeploySteps

PoolLibraries     == {"SwapUtils", "AmplificationUtils"}
MetaPoolLibraries == PoolLibraries \union {"MetaSwapUtils"}

\* getOrNull finds the deposit, but it counts as deployed only once
\* initialized.
DeployMetaswapDeposit(deposit, base, pool) ==
  UnlessHolds(deposit, "initialized",
    Deploy(deposit) \o Get({base, pool, LP(pool)}) \o Initialize(deposit))

\* The LP token is saved last, after the deposit contract that looks it up.
DeployMetaswap(pool, base, tokens) ==
  UnlessHolds(pool, "initialized",
    Get(tokens \union MetaPoolLibraries) \o Deploy(pool)
      \o Get({"LPToken", base}) \o Initialize(pool) \o HandOver(pool)
      \o DeployMetaswapDeposit(Deposit(pool), base, pool)
      \o Get({"LPToken"}) \o Save(LP(pool)))

\* A pool found saved but not initialized is initialized, and no more.
DeploySwapFlashLoan(pool, tokens) ==
  Get(tokens)
    \o IfSaved(pool, UnlessHolds(pool, "initialized", Get({"LPToken"}) \o Initialize(pool)))
    \o UnlessSaved(pool,
         Get(PoolLibraries) \o Deploy(pool) \o Get({"LPToken"}) \o Initialize(pool)
           \o HandOver(pool) \o Get({"LPToken"}) \o Save(LP(pool)))

DeployLiquidityGauge(lp) == Get({"Minter"}) \o Deploy(Gauge(lp))

(***************************************************************************)
(* PoolData, and the functions that deploy what it describes.  checkTokens *)
(* is called in a map whose promises nobody awaits, so a token that is not *)
(* saved may or may not be there when it is looked up; the networks that   *)
(* use these functions have all of theirs saved, and it changes nothing.   *)
(***************************************************************************)
PoolData(pool, base, tokens, registered, multisig, gauge) ==
  [pool |-> pool, base |-> base, tokens |-> tokens, registered |-> registered,
   multisig |-> multisig, gauge |-> gauge]

\* registerPools for one pool: the filter tests a promise, which is always
\* true, so addPool is called whatever the registry says.  It throws before
\* it sends anything when the pool has no metaswapDeposit.
RegisterPool(data, hasDeposit) ==
  Get({"PoolRegistry", data.pool, "SwapFlashLoan"})
    \o (IF hasDeposit THEN CallOnce("PoolRegistry", data.pool) ELSE Throw)

\* Every caller gives one pool.  verifyContract looks each contract up and
\* swallows what the explorer answers.
DeployMetaswapPools(data) ==
  UnlessHolds(data.pool, "initialized",
    Get(data.tokens \union {LP(data.base)} \union MetaPoolLibraries) \o Deploy(data.pool)
      \o Get({"LPToken", data.base}) \o Initialize(data.pool)
      \o Get({"LPToken"}) \o Save(LP(data.pool))
      \o When(data.multisig, HandOver(data.pool))
      \o DeployMetaswapDeposit(Deposit(data.pool), data.base, data.pool)
      \o When(data.gauge, DeployLiquidityGauge(LP(data.pool)))
      \o When(data.registered, RegisterPool(data, TRUE)))

\* Nothing ever gives a pool of this kind its metaswapDeposit.
DeploySwapFlashLoanPools(data) ==
  UnlessHolds(data.pool, "initialized",
    Get(data.tokens \union PoolLibraries) \o Deploy(data.pool)
      \o Get({"LPToken"}) \o Initialize(data.pool)
      \o When(data.multisig, HandOver(data.pool))
      \o Get({"LPToken"}) \o Save(LP(data.pool))
      \o When(data.gauge, DeployLiquidityGauge(LP(data.pool)))
      \o When(data.registered, RegisterPool(data, FALSE)))

(***************************************************************************)
(* The gauges of a side chain.                                             *)
(***************************************************************************)
SpentNonces(n) == ForEach([i \in 1..n |-> i], LAMBDA i : SpendNonce)

DeployCrossChainSystemOnSideChain ==
  ExpectNonce(0) \o Get({"SDL"}) \o CrossDeploy("ChildGaugeFactory")
    \o SpendNonce \o ExpectNonce(2)
    \o CrossDeploy("ProxyAdmin") \o CrossDeploy("AnyCallTranslatorLogic")
    \o CrossDeploy("AnyCallTranslatorProxy") \o Save("AnyCallTranslator")
    \o CrossDeploy("ChildOracle")
    \o IfNonce(6, SpentNonces(6)) \o ExpectNonce(11)
    \o Get({"SDL"}) \o CrossDeploy("ChildGaugeV2")
    \o Call("ChildGaugeFactory", "implementation") \o Call("ChildGaugeFactory", "voting escrow")
    \o Call("ChildGaugeFactory", "call proxy")
    \o Get({"MasterRegistry"}) \o CallOnce("MasterRegistry", "ChildGaugeFactory")
    \o Call("AnyCallTranslator", "known callers")

\* The address of a gauge follows from its salt, so that the second call for
\* the same name reverts.
DeployChildGauge(lp, mirrored) ==
  Get({lp}) \o CallOnce("ChildGaugeFactory", lp) \o Get({"ChildGauge"}) \o Save("ChildGauge_" \o lp)
    \o When(mirrored, Call("ChildGaugeFactory", "mirrored " \o lp))
DeployChildGauges(lps, mirrored) == ForEach(lps, LAMBDA lp : DeployChildGauge(lp, mirrored))

(***************************************************************************)
(* The permissionless pools.  named gives the contracts their names in the *)
(* two versions of the function; the first asks for a MetaPoolDeposit,     *)
(* which no script saves.  admin is who MasterRegistry was deployed with:  *)
(* where that is the multisig, nothing is registered, and the run says so  *)
(* and goes on.                                                            *)
(***************************************************************************)
\* deployerHasRole, read when the script begins; only aurora's 998 takes the
\* role from the deployer again.
IfAdmin(admin, block) == When(admin = "deployer", UnlessHolds("MasterRegistry", "roles given", block))
Registered(admin, name) == IfAdmin(admin, CallOnce("MasterRegistry", name))

PermissionlessComponents(named, admin) ==
  Get({"MasterRegistry", named.swapUtils, named.amplificationUtils} \union named.first)
    \o UnlessSaved("PermissionlessDeployer",
         UnlessHolds("MasterRegistry", "FeeCollector", Registered(admin, "FeeCollector"))
           \o UnlessSaved(named.depositAsked, Deploy(named.deposit))
           \o UnlessSaved(named.swap, Deploy(named.swap))
           \o UnlessSaved(named.metaSwap, Get({named.metaSwapUtils}) \o Deploy(named.metaSwap))
           \o Get({named.lpToken}) \o Deploy("PermissionlessDeployer")
           \o Registered(admin, "PermissionlessDeployer"))

DeployPermissionlessPoolComponents(admin) ==
  PermissionlessComponents(
    [swapUtils |-> "SwapUtils", amplificationUtils |-> "AmplificationUtils",
     metaSwapUtils |-> "MetaSwapUtils", first |-> {},
     depositAsked |-> "MetaPoolDeposit", deposit |-> "MetaSwapDeposit",
     swap |-> "PermissionlessSwap", metaSwap |-> "PermissionlessMetaSwap", lpToken |-> "LPToken"], admin)

DeployPermissionlessPoolComponentsV2(admin) ==
  PermissionlessComponents(
    [swapUtils |-> "SwapUtilsV2", amplificationUtils |-> "AmplificationUtilsV2",
     metaSwapUtils |-> "MetaSwapUtilsV1", first |-> {"MetaSwapUtilsV1"},
     depositAsked |-> "MetaPoolDepositV1", deposit |-> "MetaSwapDepositV1",
     swap |-> "PermissionlessSwapV1", metaSwap |-> "PermissionlessMetaSwapV1", lpToken |-> "LPTokenV2"], admin)

(***************************************************************************)
(* The three scripts by which several networks make a meta pool: its       *)
(* tokens, the pool and the deposit contract.                              *)
(***************************************************************************)
MetaPoolTokens(file, tag, base, tokens) == Script(file, {tag}, <<base>>, Tokens(tokens))
MetaPool(file, pool, base, token, dependencies) ==
  Script(file, {pool}, dependencies, DeployMetaswap(pool, base, {token, LP(base)}))
MetaPoolDeposit(file, pool, base, tokensTag) ==
  Script(file, {Deposit(pool)}, <<tokensTag, pool>>, DeployMetaswapDeposit(Deposit(pool), base, pool))
==============================================================================
