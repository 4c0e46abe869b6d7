--------------------------- MODULE MainnetRewards ----------------------------
(***************************************************************************)
(* deploy/mainnet/300 to 450 and 492: SDL and its vesting, liquidity       *)
(* mining, the registries and the permissionless pools.                    *)
(***************************************************************************)
EXTENDS DeploySteps

Vesting_300 == Script("300_deploy_Vesting", {"Vesting"}, << >>, Deploy("Vesting"))

SDL_301 == Script("301_deploy_SDL", {"SDL"}, << >>, Get({"Vesting"}) \o Deploy("SDL"))

\* 302: one clone of Vesting for each kind of recipient; nothing records
\* which of them was made.
Recipients == <<"protocol", "team", "advisors", "Encode", "Thesis", "investors", "warrants">>

VestingClones_302 ==
  LET CloneFor(recipient) == CallAdds("SDL", recipient)
  IN Skipped(Script("302_deploy_Vesting_clones", {"VestingClones"}, << >>,
       Get({"SDL"}) \o Call("SDL", "approved") \o ForEach(Recipients, CloneFor)))

RetroactiveVesting_303 == Script("303_deploy_RetroactiveVesting", {"RetroactiveVesting"}, << >>,
  UnlessSaved("RetroactiveVesting",
    Get({"SDL"}) \o Deploy("RetroactiveVesting") \o CallAdds("SDL", "for RetroactiveVesting")))

\* Six pools, the first of them without a token, in one batch.
MiniChef_304 == Script("304_deploy_MiniChef", {"MiniChef"}, << >>,
  UnlessSaved("MiniChefV2",
    Get({"SDL"}) \o Deploy("MiniChefV2")
      \o Get({LP(p) : p \in {"SaddleALETHPool", "SaddleD4Pool", "SaddleUSDPoolV2", "SaddleBTCPoolV2"}})
      \o CallAdds("MiniChefV2", "pools") \o CallAdds("SDL", "for MiniChefV2")))

\* func.skip on every chain but the local one.
AddToAllowedList_400 == Script("400_execute_addToAllowedList", {}, << >>,
  OnTestNetwork(Get({"RetroactiveVesting", "MiniChefV2"}) \o Call("SDL", "allowed")))

KEEP_410 == Script("410_check_KEEP", {"KEEP"}, << >>, Tokens(<<"KEEP">>))
T_420    == Script("420_check_T", {"T"}, << >>, Tokens(<<"T">>))

\* 411, 421: the rewarders of the pool of tBTC, which each of them adds to
\* MiniChef on the local chain.  deployedAs is the name that guards the block.
TBTCRewarder(deployedAs, rewarder, token) ==
  UnlessSaved(deployedAs,
    Get({"MiniChefV2"}) \o Deploy(deployedAs) \o Save(rewarder)
      \o Get({LP("SaddleTBTCMetaPoolUpdated"), token})
      \o OnTestNetwork(CallAdds("MiniChefV2", "pool of " \o token))
      \o Initialize(rewarder))

SimpleRewarderKEEP_411 == Script("411_deploy_SimpleRewarder_KEEP", {"SimpleRewarder_KEEP"}, << >>,
  TBTCRewarder("SimpleRewarder", "SimpleRewarder_KEEP", "KEEP"))

SimpleRewarderT_421 == Script("421_deploy_SimpleRewarder_T", {"SimpleRewarder_T"}, << >>,
  TBTCRewarder("SimpleRewarder_T", "SimpleRewarder_T", "T"))

SwapCalculator_430 == Script("430_deploy_SwapCalculator", {"SwapCalculator"}, << >>, Deploy("SwapCalculator"))

PoolRegistry_440 == Script("440_deploy_PoolRegistry", {"PoolRegistry"}, << >>, Deploy("PoolRegistry"))

MasterRegistry_441 == Script("441_deploy_MasterRegistry", {"MasterRegistry"}, << >>,
  UnlessSaved("MasterRegistry",
    Deploy("MasterRegistry") \o Get({"PoolRegistry"}) \o CallOnce("MasterRegistry", "registries")))

FirstPools == {"SaddleUSDPoolV2", "SaddleD4Pool", "SaddleBTCPoolV2", "SaddleALETHPool",
               "SaddleVETH2Pool", "SaddleBTCPool", "SaddleUSDPool"}
FirstMetaPools == {m \o v : m \in {"SaddleTBTCMetaPool", "SaddleSUSDMetaPool", "SaddleWCUSDMetaPool"},
                            v \in {"", "Updated"}}

\* The pools are looked up only when the first of them is not registered.
AddToPoolRegistry_442 == Script("442_add_to_PoolRegistry", {}, << >>,
  Get({"PoolRegistry"})
    \o UnlessHolds("PoolRegistry", "first pools",
         Get({"SwapFlashLoan", "MetaSwapUpdated"} \union FirstPools \union FirstMetaPools
             \union {Deposit(m) : m \in FirstMetaPools})
           \o CallOnce("PoolRegistry", "first pools")))

\* Each target is linked with the libraries and knows MasterRegistry.
PermissionlessTarget(target) ==
  UnlessSaved(target,
    Get({"SwapUtils", "AmplificationUtils"}
        \union IF target \in {"PermissionlessMetaSwap", "PermissionlessMetaSwapFlashLoan"}
               THEN {"MetaSwapUtils"} ELSE {})
      \o Deploy(target))

FlashLoanTargets == <<"PermissionlessSwapFlashLoan", "PermissionlessMetaSwapFlashLoan">>
PlainTargets     == <<"PermissionlessSwap", "PermissionlessMetaSwap">>

Permissionless(targets) ==
  Get({"MasterRegistry"}) \o ForEach(targets, PermissionlessTarget)
    \o UnlessSaved("PermissionlessDeployer",
         Get({"LPToken", "SaddleSUSDMetaPoolDeposit"} \union ToSet(FlashLoanTargets))
           \o Deploy("PermissionlessDeployer")
           \o CallOnce("MasterRegistry", "PermissionlessDeployer")
           \o Get({"PoolRegistry"}) \o Call("PoolRegistry", "roles"))

PermissionlessSwaps_450 == Script("450_deploy_PermissionlessSwaps", {"PermissionlessSwaps"}, << >>,
  Permissionless(PlainTargets \o FlashLoanTargets))

\* Returns at once on the local chain.
SimpleRewarder_492 ==
  LET rewarder == "SimpleRewarder_T_SaddleTBTCMetaPoolV3LPToken"
  IN Script("492_deploy_SimpleRewarder", {}, << >>,
       OnMainnet(UnlessSaved(rewarder,
         Get({"MiniChefV2"}) \o Deploy(rewarder)
           \o Get({LP("SaddleTBTCMetaPoolV3"), "T"}) \o Initialize(rewarder))))

RewardScripts ==
  << Vesting_300, SDL_301, VestingClones_302, RetroactiveVesting_303, MiniChef_304, AddToAllowedList_400,
     KEEP_410, SimpleRewarderKEEP_411, T_420, SimpleRewarderT_421, SwapCalculator_430, PoolRegistry_440,
     MasterRegistry_441, AddToPoolRegistry_442, PermissionlessSwaps_450 >>
==============================================================================
