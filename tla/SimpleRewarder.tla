---------------------------- MODULE SimpleRewarder ----------------------------
(***************************************************************************)
(* SimpleRewarder.sol: a second reward, in another token, for the stakers  *)
(* of one MiniChef pool.  MiniChef calls onSaddleReward inside every       *)
(* operation that touches a stake of that pool; the rewarder keeps its own *)
(* record of the stake and pays what was earned since the last call.  When *)
(* it cannot pay it reverts, and MiniChef's operation with it.             *)
(***************************************************************************)
EXTENDS Integers, Functions, FiniteSets

CONSTANTS
  Stakers,               \* accounts that stake LP tokens
  ACC_TOKEN_PRECISION,
  RewardRates,           \* values of rewardPerSecond the owner sets
  Genesis,               \* first timestamp
  MaxTime                \* bound: last timestamp a behaviour reaches

ASSUME RewarderAssumption ==
  /\ ACC_TOKEN_PRECISION \in Nat \ {0}
  /\ RewardRates \subseteq Nat /\ IsFiniteSet(RewardRates)
  /\ Genesis \in Nat \ {0} /\ MaxTime \in Nat

VARIABLES
  now,              \* block.timestamp
  rewarderPool,     \* poolInfo: [acc, last], last is 0 until the first update
  rewarderUser,     \* userInfo[u]: [amount, debt]
  rewardPerSecond,
  rewardHeld,       \* the reward tokens the contract holds
  rewardEarned,     \* history: what it has paid for u's stake
  reports           \* history: how many times it has heard of a stake

rewarderVars ==
  <<rewarderPool, rewarderUser, rewardPerSecond, rewardHeld, rewardEarned, reports>>

RewarderInit ==
  /\ now = Genesis
  /\ rewarderPool = [acc |-> 0, last |-> 0]
  /\ rewarderUser = [u \in Stakers |-> [amount |-> 0, debt |-> 0]]
  /\ rewardPerSecond \in RewardRates
  /\ rewardHeld = 0
  /\ rewardEarned = [u \in Stakers |-> 0]
  /\ reports = 0

(* The reward per share, brought up to date; lpSupply is what MiniChef     *)
(* holds of the LP token at this moment.                                   *)
RewarderUpdated(lpSupply) ==
  IF now <= rewarderPool.last THEN rewarderPool
  ELSE LET reward == (now - rewarderPool.last) * rewardPerSecond
       IN  [acc  |-> IF lpSupply = 0 THEN rewarderPool.acc
                     ELSE rewarderPool.acc + (reward * ACC_TOKEN_PRECISION) \div lpSupply,
            last |-> now]

PendingToken(u, pool) ==
  IF rewarderUser[u].amount = 0 THEN 0
  ELSE (rewarderUser[u].amount * pool.acc) \div ACC_TOKEN_PRECISION - rewarderUser[u].debt

(* A mutant: the stake is recorded, what it owes is not.                   *)
OnSaddleRewardNoDebt(u, lpTokenAmount, lpSupply) ==
  LET pool    == RewarderUpdated(lpSupply)
      pending == PendingToken(u, pool)
  IN  /\ 0 <= pending /\ pending <= rewardHeld
      /\ rewarderPool' = pool
      /\ rewarderUser' = [rewarderUser EXCEPT ![u].amount = lpTokenAmount]
      /\ rewardHeld' = rewardHeld - pending
      /\ rewardEarned' = [rewardEarned EXCEPT ![u] = @ + pending]
      /\ reports' = reports + 1
      /\ UNCHANGED rewardPerSecond

(* MiniChef reports that u's stake is now lpTokenAmount.                   *)
OnSaddleReward(u, lpTokenAmount, lpSupply) ==
  LET pool    == RewarderUpdated(lpSupply)
      pending == PendingToken(u, pool)
  IN  /\ 0 <= pending /\ pending <= rewardHeld
      /\ rewarderPool' = pool
      /\ rewarderUser' = [rewarderUser EXCEPT ![u] =
                            [amount |-> lpTokenAmount,
                             debt   |-> (lpTokenAmount * pool.acc) \div ACC_TOKEN_PRECISION]]
      /\ rewardHeld' = rewardHeld - pending
      /\ rewardEarned' = [rewardEarned EXCEPT ![u] = @ + pending]
      /\ reports' = reports + 1
      /\ UNCHANGED rewardPerSecond

(* updatePool may be called by anybody.                                    *)
UpdateRewarder(lpSupply) ==
  /\ rewarderPool' = RewarderUpdated(lpSupply)
  /\ UNCHANGED <<rewarderUser, rewardPerSecond, rewardHeld, rewardEarned, reports>>

(* The new rate applies to the time since the last update, too.            *)
SetRewardPerSecond(rate) ==
  /\ rewardPerSecond' = rate
  /\ UNCHANGED <<rewarderPool, rewarderUser, rewardHeld, rewardEarned, reports>>

(* Somebody sends reward tokens to the contract.                           *)
FundRewarder(amount) ==
  /\ rewardHeld' = rewardHeld + amount
  /\ UNCHANGED <<rewarderPool, rewarderUser, rewardPerSecond, rewardEarned, reports>>
==============================================================================
