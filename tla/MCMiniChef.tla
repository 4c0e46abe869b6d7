------------------------------ MODULE MCMiniChef ------------------------------
(***************************************************************************)
(* MiniChef for TLC: the first MaxSteps operations after the owner added   *)
(* the pools and set the rate.  The precision of the rewards per share is  *)
(* 4 (10^12 in the code), so that roundings happen.                        *)
(***************************************************************************)
EXTENDS MiniChef

CONSTANTS u1, u2, MaxSteps

VARIABLE steps

(* The owner has set the rate and added the first pool, with a rewarder  *)
(* or without, in the block of the deployment.                             *)
Configured ==
  /\ RewarderInit
  /\ \E rewarder \in Delegates :
        /\ poolInfo = <<[acc |-> 0, last |-> Genesis, alloc |-> 1, rewarder |-> rewarder]>>
        /\ attachedAt = IF rewarder = "simple" THEN Genesis ELSE 0
  /\ userInfo = [pid \in Pids |-> [u \in Stakers |-> [amount |-> 0, debt |-> 0]]]
  /\ totalAllocPoint = 1
  /\ saddlePerSecond \in SaddleRates
  /\ lpHeld = [pid \in Pids |-> 0]
  /\ lpWallet = [pid \in Pids |-> [u \in Stakers |-> LPEndowment]]
  /\ saddleHeld = SaddleFunds
  /\ saddleEarned = [pid \in Pids |-> [u \in Stakers |-> 0]]
  /\ saddleCredited = [pid \in Pids |-> 0]
  /\ untold = FALSE
  /\ deposits = [pid \in Pids |-> 0]
  /\ steps = 0

MCNext == steps < MaxSteps /\ steps' = steps + 1 /\ Next
MCSpec == Configured /\ [][MCNext]_<<vars, steps>>

StakerSymmetry == Permutations(Stakers)
==============================================================================
