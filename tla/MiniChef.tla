------------------------------- MODULE MiniChef -------------------------------
(***************************************************************************)
(* MiniChefV2.sol: stakes of LP tokens in pools that share one stream of   *)
(* SADDLE tokens in proportion to their allocation points, with the        *)
(* SimpleRewarder of one of the pools, which the owner attaches, detaches, *)
(* exchanges and attaches again.  Every pool has an LP token of its own    *)
(* (the owner is told not to add one twice).                               *)
(*                                                                         *)
(* A pool's rewarder is "none" (address zero), "simple" (the SimpleRewarder *)
(* of RewarderPid) or "another" contract, of which nothing is known: where *)
(* it reverts, the step is not taken.  A pool added with the clone of a    *)
(* SimpleRewarder is one whose clone is initialised at once.               *)
(*                                                                         *)
(* Numbers stay far below the casts to 64 and 128 bits, which are left out.*)
(***************************************************************************)
EXTENDS SimpleRewarder, Sequences, SequencesExt, FiniteSetsExt

CONSTANTS
  MaxPools,               \* bound: pools the owner adds
  RewarderPid,            \* the pool SimpleRewarder was made for
  ACC_SADDLE_PRECISION,
  AllocPoints,            \* allocation points the owner gives to a pool
  Delegates,              \* rewarders the owner gives to a pool
  SaddleRates,            \* values of saddlePerSecond the owner sets
  LPAmounts,              \* amounts of LP tokens users deposit and withdraw
  LPGifts,                \* amounts they send to the contract by mistake
  LPEndowment,            \* what every user owns of every LP token at first
  SaddleFunds,            \* SADDLE the contract holds at first
  RewardFunds             \* amounts of reward tokens somebody sends

Pids == 1 .. MaxPools

ASSUME MiniChefAssumption ==
  /\ IsFiniteSet(Stakers)
  /\ MaxPools \in Nat \ {0}
  /\ RewarderPid \in Pids
  /\ ACC_SADDLE_PRECISION \in Nat \ {0}
  /\ AllocPoints \subseteq Nat
  /\ Delegates \subseteq {"none", "simple", "another"}
  /\ SaddleRates \subseteq Nat
  /\ LPAmounts \subseteq Nat /\ LPGifts \subseteq Nat
  /\ LPEndowment \in Nat /\ SaddleFunds \in Nat
  /\ RewardFunds \subseteq Nat

VARIABLES
  poolInfo,         \* the pools added so far: [acc, last, alloc, rewarder]
  userInfo,         \* userInfo[pid][u]: [amount, debt]
  totalAllocPoint, saddlePerSecond,
  lpHeld,           \* lpHeld[pid]: the LP token's balanceOf(MiniChef)
  lpWallet,         \* lpWallet[pid][u]: the LP token's balanceOf(u)
  saddleHeld,       \* the SADDLE the contract holds
  saddleEarned,     \* history: what was paid for u's stake in pid
  saddleCredited,   \* history: what updatePool has set aside for pid
  attachedAt,       \* history: when the rewarder was first attached
  untold,           \* history: stake left, or may leave, that the rewarder still counts
  deposits          \* history: how many times somebody staked in pid

chefVars == <<poolInfo, userInfo, totalAllocPoint, saddlePerSecond, lpHeld, lpWallet,
              saddleHeld, saddleEarned, saddleCredited, attachedAt, untold, deposits>>
vars     == <<now, rewarderVars, chefVars>>

PoolIds == 1 .. Len(poolInfo)

-----------------------------------------------------------------------------
Init ==
  /\ RewarderInit
  /\ poolInfo = <<>>
  /\ userInfo = [pid \in Pids |-> [u \in Stakers |-> [amount |-> 0, debt |-> 0]]]
  /\ totalAllocPoint = 0
  /\ saddlePerSecond = 0
  /\ lpHeld = [pid \in Pids |-> 0]
  /\ lpWallet = [pid \in Pids |-> [u \in Stakers |-> LPEndowment]]
  /\ saddleHeld = SaddleFunds
  /\ saddleEarned = [pid \in Pids |-> [u \in Stakers |-> 0]]
  /\ saddleCredited = [pid \in Pids |-> 0]
  /\ attachedAt = 0
  /\ untold = FALSE
  /\ deposits = [pid \in Pids |-> 0]

(* What updatePool sets aside for pid at this moment; it divides by the    *)
(* total, so it fails when that is zero.                                   *)
Due(pid) == now > poolInfo[pid].last /\ lpHeld[pid] > 0

CanUpdate(pid) == Due(pid) => totalAllocPoint # 0

SaddleReward(pid) ==
  IF Due(pid) /\ totalAllocPoint # 0
    THEN ((now - poolInfo[pid].last) * saddlePerSecond * poolInfo[pid].alloc)
            \div totalAllocPoint
    ELSE 0

(* A mutant: the time in which nobody had a stake is not skipped.          *)
UpdatedOnlyWhenDue(pid) ==
  IF Due(pid)
    THEN [poolInfo[pid] EXCEPT
            !.acc = @ + (SaddleReward(pid) * ACC_SADDLE_PRECISION) \div lpHeld[pid],
            !.last = now]
    ELSE poolInfo[pid]

Updated(pid) ==
  [poolInfo[pid] EXCEPT
     !.acc = IF Due(pid) THEN @ + (SaddleReward(pid) * ACC_SADDLE_PRECISION) \div lpHeld[pid]
                         ELSE @,
     !.last = now]

(* updatePool, which begins most operations.                               *)
Updates(pid) ==
  /\ CanUpdate(pid)
  /\ poolInfo' = [poolInfo EXCEPT ![pid] = Updated(pid)]
  /\ saddleCredited' = [saddleCredited EXCEPT ![pid] = @ + SaddleReward(pid)]

(* The rewarder the pool has learns of u's stake: a SimpleRewarder refuses *)
(* pools other than its own.  When it is not the pool's rewarder, its copy *)
(* of the stake stays, and is too large once the stake is smaller.         *)
Notifies(pid, u, amount) ==
  IF poolInfo[pid].rewarder = "simple"
    THEN pid = RewarderPid /\ OnSaddleReward(u, amount, lpHeld[pid]) /\ UNCHANGED untold
    ELSE /\ untold' = (untold \/ (pid = RewarderPid /\ amount < rewarderUser[u].amount))
         /\ UNCHANGED rewarderVars

Worth(amount, pool) == (amount * pool.acc) \div ACC_SADDLE_PRECISION

PendingSaddle(pid, u) ==
  Worth(userInfo[pid][u].amount, Updated(pid)) - userInfo[pid][u].debt

-----------------------------------------------------------------------------
(* What a staker does.                                                     *)

UpdatePool(pid) ==
  /\ Updates(pid)
  /\ UNCHANGED <<now, rewarderVars, userInfo, totalAllocPoint, saddlePerSecond, lpHeld,
                 lpWallet, saddleHeld, saddleEarned, attachedAt, untold, deposits>>

(* A mutant: the debt is counted at the stored reward per share.           *)
DepositStale(caller, pid, amount, to) ==
  /\ amount <= lpWallet[pid][caller]
  /\ Updates(pid)
  /\ userInfo' = [userInfo EXCEPT ![pid][to] =
                    [amount |-> @.amount + amount,
                     debt   |-> @.debt + Worth(amount, poolInfo[pid])]]
  /\ Notifies(pid, to, userInfo[pid][to].amount + amount)
  /\ lpWallet' = [lpWallet EXCEPT ![pid][caller] = @ - amount]
  /\ lpHeld' = [lpHeld EXCEPT ![pid] = @ + amount]
  /\ deposits' = [deposits EXCEPT ![pid] = @ + 1]
  /\ UNCHANGED <<now, totalAllocPoint, saddlePerSecond, saddleHeld, saddleEarned, attachedAt>>

(* caller stakes amount for the account to.                                *)
Deposit(caller, pid, amount, to) ==
  LET pool == Updated(pid)
  IN  /\ amount <= lpWallet[pid][caller]
      /\ Updates(pid)
      /\ userInfo' = [userInfo EXCEPT ![pid][to] =
                        [amount |-> @.amount + amount, debt |-> @.debt + Worth(amount, pool)]]
      /\ Notifies(pid, to, userInfo[pid][to].amount + amount)
      /\ lpWallet' = [lpWallet EXCEPT ![pid][caller] = @ - amount]
      /\ lpHeld' = [lpHeld EXCEPT ![pid] = @ + amount]
      /\ deposits' = [deposits EXCEPT ![pid] = @ + 1]
      /\ UNCHANGED <<now, totalAllocPoint, saddlePerSecond, saddleHeld, saddleEarned, attachedAt>>

(* LP tokens go back to u.                                                 *)
Returns(pid, u, amount) ==
  /\ amount <= lpHeld[pid]
  /\ lpWallet' = [lpWallet EXCEPT ![pid][u] = @ + amount]
  /\ lpHeld' = [lpHeld EXCEPT ![pid] = @ - amount]

(* SADDLE is paid for u's stake.                                           *)
Pays(pid, u, amount) ==
  /\ 0 <= amount /\ amount <= saddleHeld
  /\ saddleHeld' = saddleHeld - amount
  /\ saddleEarned' = [saddleEarned EXCEPT ![pid][u] = @ + amount]

(* A mutant: the stake is not looked at.                                   *)
WithdrawUnchecked(u, pid, amount) ==
  LET user == userInfo[pid][u]
  IN  /\ Updates(pid)
      /\ userInfo' = [userInfo EXCEPT ![pid][u] =
                        [amount |-> @.amount - amount,
                         debt   |-> @.debt - Worth(amount, Updated(pid))]]
      /\ Notifies(pid, u, user.amount - amount)
      /\ Returns(pid, u, amount)
      /\ UNCHANGED <<now, totalAllocPoint, saddlePerSecond, saddleHeld, saddleEarned, attachedAt,
                     deposits>>

Withdraw(u, pid, amount) ==
  LET user == userInfo[pid][u]
  IN  /\ amount <= user.amount
      /\ Updates(pid)
      /\ userInfo' = [userInfo EXCEPT ![pid][u] =
                        [amount |-> @.amount - amount,
                         debt   |-> @.debt - Worth(amount, Updated(pid))]]
      /\ Notifies(pid, u, user.amount - amount)
      /\ Returns(pid, u, amount)
      /\ UNCHANGED <<now, totalAllocPoint, saddlePerSecond, saddleHeld, saddleEarned, attachedAt,
                     deposits>>

Harvest(u, pid) ==
  LET user == userInfo[pid][u]
  IN  /\ Updates(pid)
      /\ userInfo' = [userInfo EXCEPT ![pid][u].debt = Worth(user.amount, Updated(pid))]
      /\ Pays(pid, u, PendingSaddle(pid, u))
      /\ Notifies(pid, u, user.amount)
      /\ UNCHANGED <<now, totalAllocPoint, saddlePerSecond, lpHeld, lpWallet, attachedAt, deposits>>

WithdrawAndHarvest(u, pid, amount) ==
  LET user == userInfo[pid][u]
      pool == Updated(pid)
  IN  /\ amount <= user.amount
      /\ Updates(pid)
      /\ userInfo' = [userInfo EXCEPT ![pid][u] =
                        [amount |-> @.amount - amount,
                         debt   |-> Worth(user.amount, pool) - Worth(amount, pool)]]
      /\ Pays(pid, u, PendingSaddle(pid, u))
      /\ Notifies(pid, u, user.amount - amount)
      /\ Returns(pid, u, amount)
      /\ UNCHANGED <<now, totalAllocPoint, saddlePerSecond, attachedAt, deposits>>

(* A mutant: the stake is returned and remembered.                         *)
EmergencyWithdrawKeepsStake(u, pid) ==
  /\ Notifies(pid, u, 0)
  /\ Returns(pid, u, userInfo[pid][u].amount)
  /\ UNCHANGED <<now, poolInfo, userInfo, totalAllocPoint, saddlePerSecond, saddleHeld,
                 saddleEarned, saddleCredited, attachedAt, deposits>>

(* u leaves and forgoes the reward.                                        *)
EmergencyWithdraw(u, pid) ==
  /\ userInfo' = [userInfo EXCEPT ![pid][u] = [amount |-> 0, debt |-> 0]]
  /\ Notifies(pid, u, 0)
  /\ Returns(pid, u, userInfo[pid][u].amount)
  /\ UNCHANGED <<now, poolInfo, totalAllocPoint, saddlePerSecond, saddleHeld, saddleEarned,
                 saddleCredited, attachedAt, deposits>>

(* u sends LP tokens to the contract by mistake.                           *)
SendLP(u, pid, amount) ==
  /\ amount <= lpWallet[pid][u]
  /\ lpWallet' = [lpWallet EXCEPT ![pid][u] = @ - amount]
  /\ lpHeld' = [lpHeld EXCEPT ![pid] = @ + amount]
  /\ UNCHANGED <<now, rewarderVars, poolInfo, userInfo, totalAllocPoint, saddlePerSecond,
                 saddleHeld, saddleEarned, saddleCredited, attachedAt, untold, deposits>>

-----------------------------------------------------------------------------
(* What the owner does.                                                    *)

(* When the rewarder is attached to its pool for the first time.           *)
Attaches(pid, rewarder) ==
  attachedAt' = IF pid = RewarderPid /\ rewarder = "simple" /\ attachedAt = 0
                  THEN now ELSE attachedAt

Add(allocPoint, rewarder) ==
  /\ Len(poolInfo) < MaxPools
  /\ totalAllocPoint' = totalAllocPoint + allocPoint
  /\ poolInfo' = Append(poolInfo, [acc |-> 0, last |-> now, alloc |-> allocPoint,
                                   rewarder |-> rewarder])
  /\ Attaches(Len(poolInfo) + 1, rewarder)
  /\ UNCHANGED <<now, rewarderVars, userInfo, saddlePerSecond, lpHeld, lpWallet, saddleHeld,
                 saddleEarned, saddleCredited, untold, deposits>>

(* A mutant: the points the pool had before stay in the total.             *)
SetAdding(pid, allocPoint, rewarder, overwrite) ==
  /\ totalAllocPoint' = totalAllocPoint + allocPoint
  /\ poolInfo' = [poolInfo EXCEPT ![pid].alloc = allocPoint,
                                  ![pid].rewarder = IF overwrite THEN rewarder ELSE @]
  /\ Attaches(pid, poolInfo'[pid].rewarder)
  /\ UNCHANGED <<now, rewarderVars, userInfo, saddlePerSecond, lpHeld, lpWallet, saddleHeld,
                 saddleEarned, saddleCredited, untold, deposits>>

(* No pool is updated first: the new points apply to the time since the    *)
(* last update, too.  Overwriting replaces the pool's rewarder by any      *)
(* other, or by none, and tells neither of the stakes.                     *)
Set(pid, allocPoint, rewarder, overwrite) ==
  /\ totalAllocPoint' = totalAllocPoint - poolInfo[pid].alloc + allocPoint
  /\ poolInfo' = [poolInfo EXCEPT ![pid].alloc = allocPoint,
                                  ![pid].rewarder = IF overwrite THEN rewarder ELSE @]
  /\ Attaches(pid, poolInfo'[pid].rewarder)
  /\ UNCHANGED <<now, rewarderVars, userInfo, saddlePerSecond, lpHeld, lpWallet, saddleHeld,
                 saddleEarned, saddleCredited, untold, deposits>>

SetSaddlePerSecond(rate) ==
  /\ saddlePerSecond' = rate
  /\ UNCHANGED <<now, rewarderVars, poolInfo, userInfo, totalAllocPoint, lpHeld, lpWallet,
                 saddleHeld, saddleEarned, saddleCredited, attachedAt, untold, deposits>>

Tick ==
  /\ now < MaxTime
  /\ now' = now + 1
  /\ UNCHANGED <<rewarderVars, chefVars>>

StakerNext(u) ==
  \E pid \in PoolIds :
    \/ UpdatePool(pid)
    \/ Harvest(u, pid)
    \/ EmergencyWithdraw(u, pid)
    \/ \E amount \in LPAmounts :
         \/ \E to \in Stakers : Deposit(u, pid, amount, to)
         \/ Withdraw(u, pid, amount)
         \/ WithdrawAndHarvest(u, pid, amount)
    \/ \E amount \in LPGifts : SendLP(u, pid, amount)

OwnerNext ==
  \/ \E points \in AllocPoints, rewarder \in Delegates :
        \/ Add(points, rewarder)
        \/ \E pid \in PoolIds, overwrite \in BOOLEAN : Set(pid, points, rewarder, overwrite)
  \/ \E rate \in SaddleRates : SetSaddlePerSecond(rate)

RewarderNext ==
  /\ \/ RewarderPid \in PoolIds /\ UpdateRewarder(lpHeld[RewarderPid])
     \/ \E rate \in RewardRates : SetRewardPerSecond(rate)
     \/ \E amount \in RewardFunds : FundRewarder(amount)
  /\ UNCHANGED <<now, chefVars>>

Next ==
  \/ \E u \in Stakers : StakerNext(u)
  \/ OwnerNext
  \/ RewarderNext
  \/ Tick

Spec == Init /\ [][Next]_vars

-----------------------------------------------------------------------------
SumOver(f(_)) == SumFunction([u \in Stakers |-> f(u)])

(* What u has got and can get at this moment for its stake in a pool, in   *)
(* SADDLE and in the rewarder's token.                                     *)
Entitled(pid, u) == saddleEarned[pid][u] + PendingSaddle(pid, u)

(* The same in SADDLE that can be paid: harvest reverts while rounding has *)
(* left a debt above the reward.                                           *)
Collectable(pid, u) ==
  saddleEarned[pid][u] + (IF PendingSaddle(pid, u) > 0 THEN PendingSaddle(pid, u) ELSE 0)

RewardEntitled(u) ==
  rewardEarned[u] + PendingToken(u, RewarderUpdated(lpHeld[RewarderPid]))

(* The variables have their types.  A debt is signed: int256 in the code.  *)
ChefTypeOK ==
  /\ now \in Nat
  /\ poolInfo \in Seq([acc : Nat, last : Nat, alloc : Nat, rewarder : {"none", "simple", "another"}])
  /\ userInfo \in [Pids -> [Stakers -> [amount : Nat, debt : Int]]]
  /\ totalAllocPoint \in Nat /\ saddlePerSecond \in Nat
  /\ lpHeld \in [Pids -> Nat] /\ lpWallet \in [Pids -> [Stakers -> Nat]]
  /\ saddleHeld \in Nat /\ saddleEarned \in [Pids -> [Stakers -> Nat]]
  /\ saddleCredited \in [Pids -> Nat] /\ attachedAt \in Nat /\ untold \in BOOLEAN
  /\ deposits \in [Pids -> Nat]
  /\ rewarderPool \in [acc : Nat, last : Nat]
  /\ rewarderUser \in [Stakers -> [amount : Nat, debt : Nat]]
  /\ rewardPerSecond \in Nat /\ rewardHeld \in Nat
  /\ rewardEarned \in [Stakers -> Nat] /\ reports \in Nat

(* The comment on totalAllocPoint: "Must be the sum of all allocation      *)
(* points in all pools."                                                   *)
TotalAllocIsSum ==
  totalAllocPoint = SumFunction([pid \in PoolIds |-> poolInfo[pid].alloc])

(* MiniChef holds every stake it owes back.                                *)
StakesAreBacked ==
  \A pid \in Pids : lpHeld[pid] >= SumOver(LAMBDA u : userInfo[pid][u].amount)

(* What the stakers of a pool have got and can harvest is no more than     *)
(* what updatePool has set aside for the pool: whatever they deposit,      *)
(* withdraw, harvest and abandon, and however the rate and the points      *)
(* change.  Only a deposit's debt is rounded in the staker's favour, by    *)
(* less than a unit.                                                       *)
EarnedWithinCredit ==
  \A pid \in PoolIds :
    SumOver(LAMBDA u : Collectable(pid, u)) <=
      saddleCredited[pid] + SaddleReward(pid) + deposits[pid]

(* The rewarder pays for the time since it was first attached, not for the *)
(* time before: its clock starts at zero, and its first update covers all  *)
(* of history with stakes it has not yet heard of.  This lasts, through    *)
(* any detachments and later attachments, until a stake shrinks of which   *)
(* it still holds a larger copy: from then on it pays tokens that are not  *)
(* there.  Each report of a stake rounds its debt, by less than a unit.    *)
RewarderPaysSinceAttached ==
  ~untold =>
    SumOver(LAMBDA u : RewardEntitled(u)) <=
      (IF attachedAt = 0 THEN 0
       ELSE Max(RewardRates) * (now - attachedAt)) + reports

(* LP tokens leave the pool of the rewarder, and it is not updated first.  *)
LeavesUntold ==
  /\ lpHeld'[RewarderPid] < lpHeld[RewarderPid]
  /\ poolInfo[RewarderPid].rewarder # "simple"

(* Within a block nobody can get more: no deposit, withdrawal or harvest,  *)
(* by whomever, raises what a stake has earned, beyond a rounding unit.    *)
(* Only time does, the owners' changes of rate and points, and somebody    *)
(* who abandons a stake and its reward to the others.  For the rewarder's  *)
(* token there are two more, both of a rewarder that was detached: stakes  *)
(* that leave it, untold, to the others, and a pool that comes to life     *)
(* again with copies of stakes it no longer has.                           *)
OnlyTimeEarns ==
  [][\/ now' # now
     \/ OwnerNext \/ RewarderNext
     \/ \E u \in Stakers, pid \in PoolIds : EmergencyWithdraw(u, pid)
     \/ \A u \in Stakers :
          /\ \A pid \in PoolIds : Entitled(pid, u)' <= Entitled(pid, u) + 1
          /\ \/ RewardEntitled(u)' <= RewardEntitled(u) + 1
             \/ LeavesUntold
             \/ untold /\ lpHeld[RewarderPid] = 0]_vars

(* "Withdraw without caring about rewards.  EMERGENCY ONLY."  (The comment *)
(* on emergencyWithdraw.)                                                  *)
EmergencyExitAlwaysPossible ==
  \A u \in Stakers, pid \in PoolIds :
    userInfo[pid][u].amount > 0 => ENABLED EmergencyWithdraw(u, pid)
==============================================================================
