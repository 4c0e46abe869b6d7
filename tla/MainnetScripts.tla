--------------------------- MODULE MainnetScripts ----------------------------
(***************************************************************************)
(* The scripts of deploy/mainnet in the order of their file names, and     *)
(* what stands in deployments/mainnet without a script having saved it.    *)
(***************************************************************************)
EXTENDS MainnetLaunch, MainnetPools, MainnetRewards, MainnetSideChains

MainnetDirectory ==
  LaunchScripts \o MetaPoolScripts \o RewardScripts \o V3PoolScripts
    \o <<SimpleRewarder_492>> \o TokenomicsScripts \o SideChainScripts
==============================================================================
