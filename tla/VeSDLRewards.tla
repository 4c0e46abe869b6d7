---------------------------- MODULE VeSDLRewards ----------------------------
(***************************************************************************)
(* The rewards of veSDL holders (tokenomics/voting_escrow/                 *)
(* VeSDLRewards.sol) together with the voting escrow it is the reward pool *)
(* of.  A reward is paid out over DURATION at a constant rate, shared by   *)
(* the veSDL balances.  The balances decay by themselves, so the contract  *)
(* cannot know what each was while a reward accrued: it multiplies what    *)
(* accrued per token with the balance at the moment a user is updated.     *)
(* The voting escrow calls updateReward around every change of a lock.     *)
(***************************************************************************)
EXTENDS VotingEscrow

CONSTANTS
  DURATION,   \* how long a reward is paid out
  SCALE,      \* rewards per token are kept multiplied by this (1e18)
  Payers,     \* users that hand in rewards
  Rewards     \* amounts that are handed in or donated

ASSUME RewardsAssumption ==
  /\ DURATION \in Nat \ {0} /\ SCALE \in Nat \ {0}
  /\ Payers \subseteq Users /\ Rewards \subseteq Nat

VARIABLES
  periodFinish,               \* the running reward ends here
  rewardRate,                 \* reward per second
  lastUpdateTime,             \* the time up to which the next one is brought
  rewardPerTokenStored,       \* reward per veSDL since the start, times SCALE
  queuedRewards,              \* donations that wait for the next reward
  userRewardPerTokenPaid,     \* rewardPerTokenStored at a user's last update
  rewards                     \* what a user has earned up to there

poolVars == <<periodFinish, rewardRate, queuedRewards>>
userVars == <<lastUpdateTime, rewardPerTokenStored, userRewardPerTokenPaid, rewards>>
rewardVars == <<poolVars, userVars>>

-----------------------------------------------------------------------------
LastTimeRewardApplicable == Min({now, periodFinish})

RewardPerToken(total) ==
  IF total = 0
    THEN rewardPerTokenStored
    ELSE rewardPerTokenStored +
           ((LastTimeRewardApplicable - lastUpdateTime) * rewardRate * SCALE) \div total

(* rewardPerToken() now.                                                   *)
PerToken == RewardPerToken(TotalSupply(now))

(* _earnedReward of a user with this balance, when rewardPerToken() is r.  *)
Earned(u, balance, r) ==
  (balance * (r - userRewardPerTokenPaid[u])) \div SCALE + rewards[u]

(* A mutant: the time of the update is recorded even after the end.        *)
UpdatePerTokenNow(r) ==
  /\ rewardPerTokenStored' = r
  /\ lastUpdateTime' = now

(* A mutant: the time moves on and what accrued since is forgotten.        *)
UpdateTimeOnly(r) ==
  /\ lastUpdateTime' = LastTimeRewardApplicable
  /\ UNCHANGED rewardPerTokenStored

(* _updateReward: the total's half and the user's half.                    *)
UpdatePerToken(r) ==
  /\ rewardPerTokenStored' = r
  /\ lastUpdateTime' = LastTimeRewardApplicable

UpdateReward(u, balance, r) ==
  /\ UpdatePerToken(r)
  /\ rewards' = [rewards EXCEPT ![u] = Earned(u, balance, r)]
  /\ userRewardPerTokenPaid' = [userRewardPerTokenPaid EXCEPT ![u] = r]

(* A mutant: only the total is brought up to date.                         *)
SnapshotOfTotal(u) ==
  /\ UpdatePerToken(PerToken)
  /\ UNCHANGED <<rewards, userRewardPerTokenPaid>>

(* updateReward as the voting escrow calls it before it changes a lock.    *)
Snapshot(u) == \E r \in {PerToken} : UpdateReward(u, BalanceOf(u, now), r)

-----------------------------------------------------------------------------
Init ==
  /\ VEInit
  /\ periodFinish = 0 /\ rewardRate = 0 /\ queuedRewards = 0
  /\ lastUpdateTime = 0 /\ rewardPerTokenStored = 0
  /\ userRewardPerTokenPaid = [u \in Users |-> 0]
  /\ rewards = [u \in Users |-> 0]

(* Operations of the voting escrow, with their calls of the reward pool.   *)
Lock ==
  /\ \E u \in Users :
        /\ Snapshot(u)
        /\ \/ \E value \in Values, t \in UnlockTimes : CreateLock(u, value, t)
           \/ \E from \in Users, value \in Values : AddToLock(from, u, value)
           \/ \E t \in UnlockTimes : IncreaseUnlockTime(u, t)
  /\ UNCHANGED poolVars

(* The update comes after the lock is gone, and only for a lock that is    *)
(* not released by the admin.                                              *)
Leave(u) ==
  /\ Withdraw(u)
  /\ IF is_unlocked
       THEN UNCHANGED userVars
       ELSE \E r \in {RewardPerToken(TotalSupply(now)')} :
              UpdateReward(u, BalanceOf(u, now)', r)
  /\ UNCHANGED poolVars

ForceLeave(u) ==
  /\ Snapshot(u)
  /\ ForceWithdraw(u)
  /\ queuedRewards' = queuedRewards + Penalty(locked[u])
  /\ UNCHANGED <<periodFinish, rewardRate>>

EscrowStep ==
  /\ \/ Checkpoint
     \/ \E unlocked \in BOOLEAN : SetFundsUnlocked(unlocked)
     \/ Tick
  /\ UNCHANGED rewardVars

-----------------------------------------------------------------------------
(* _getReward; the reward is sent to the user or added to the user's lock, *)
(* and nothing happens when there is none.                                 *)
GetReward(u, lock) ==
  /\ \E r \in {PerToken} : \E reward \in {Earned(u, BalanceOf(u, now), r)} :
        /\ UpdatePerToken(r)
        /\ userRewardPerTokenPaid' = [userRewardPerTokenPaid EXCEPT ![u] = r]
        /\ rewards' = [rewards EXCEPT ![u] = 0]
        /\ \/ /\ lock /\ reward > 0
              /\ AddToLock(RewardPool, u, reward)
           \/ /\ ~lock \/ reward = 0
              /\ reward <= sdl[RewardPool]
              /\ sdl' = Moved(RewardPool, u, reward)
              /\ UNCHANGED <<now, escrowVars>>
  /\ UNCHANGED poolVars

Donate(from, amount) ==
  /\ amount > 0
  /\ amount <= sdl[from]
  /\ sdl' = Moved(from, RewardPool, amount)
  /\ queuedRewards' = queuedRewards + amount
  /\ UNCHANGED <<now, escrowVars, userVars, periodFinish, rewardRate>>

(* The part of the running reward that is still to be paid out.            *)
Leftover == IF now >= periodFinish THEN 0 ELSE (periodFinish - now) * rewardRate

(* queueNewRewards: what was queued and what is left start again with it.  *)
QueueNewRewards(from, amount) ==
  /\ amount > 0
  /\ amount <= sdl[from]
  /\ sdl' = Moved(from, RewardPool, amount)
  /\ rewardPerTokenStored' = PerToken
  /\ rewardRate' = (amount + queuedRewards + Leftover) \div DURATION
  /\ lastUpdateTime' = now
  /\ periodFinish' = now + DURATION
  /\ queuedRewards' = 0
  /\ UNCHANGED <<now, escrowVars, userRewardPerTokenPaid, rewards>>

Next ==
  \/ Lock
  \/ \E u \in Users : Leave(u) \/ ForceLeave(u)
  \/ EscrowStep
  \/ \E u \in Users, lock \in BOOLEAN : GetReward(u, lock)
  \/ \E from \in Payers, amount \in Rewards :
        Donate(from, amount) \/ QueueNewRewards(from, amount)

Spec == Init /\ [][Next]_<<veVars, rewardVars>>

-----------------------------------------------------------------------------
EarnedAt(r) == [u \in Users |-> Earned(u, BalanceOf(u, now), r)]

(* The pool holds what all users have earned, what is queued and what is   *)
(* still to be paid out, in whatever order decaying balances are updated,  *)
(* topped up, withdrawn or left to expire: every claim can be paid.        *)
RewardsAreCovered ==
  \E r \in {PerToken} :
     sdl[RewardPool] >= SumOver(EarnedAt(r)) + queuedRewards + Leftover

(* updateReward never reverts: the escrow calls it in every operation, so  *)
(* that a subtraction below zero there would hold all locks for ever.      *)
UpdateNeverReverts ==
  /\ lastUpdateTime <= LastTimeRewardApplicable
  /\ \A u \in Users : userRewardPerTokenPaid[u] <= rewardPerTokenStored

(* What others do in a block takes nothing from what a user has earned:    *)
(* locks and rewards that begin settle the past at the old totals first.   *)
EarnedIsKept ==
  [][ now' = now =>
        \E r \in {PerToken}, next \in {PerToken'} :
           \A u \in Users :
              locked'[u] = locked[u] /\ sdl'[u] = sdl[u]
                => EarnedAt(next)'[u] >= EarnedAt(r)[u]
    ]_<<veVars, rewardVars>>
==============================================================================
