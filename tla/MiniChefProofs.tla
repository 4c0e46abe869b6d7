---------------------------- MODULE MiniChefProofs ----------------------------
(***************************************************************************)
(* Proofs about MiniChef and its rewarder, for any stakers, pools, rates   *)
(* and amounts.  The inductive invariant ChefInv is the types, the number  *)
(* of pools, the sum of their points and that stakes are backed: the owner *)
(* subtracts a pool's old points from the total, which is no number of the *)
(* type unless the total is their sum.  What a step may earn rests on it   *)
(* and on RewarderKnows, what the rewarder has heard of stakes; that lasts *)
(* until it is detached and a stake it counts shrinks.                     *)
(***************************************************************************)
EXTENDS MiniChef, ArithmeticLemmas

Pool == [acc : Nat, last : Nat, alloc : Nat, rewarder : {"none", "simple", "another"}]
Stake == [amount : Nat, debt : Int]

(* The types, in the parts that operations change apart from each other.   *)
PoolsTyped ==
  /\ poolInfo \in Seq(Pool) /\ Len(poolInfo) <= MaxPools
  /\ totalAllocPoint \in Nat /\ saddlePerSecond \in Nat
  /\ saddleCredited \in [Pids -> Nat] /\ attachedAt \in Nat /\ deposits \in [Pids -> Nat]

StakesTyped ==
  /\ userInfo \in [Pids -> [Stakers -> Stake]]
  /\ lpHeld \in [Pids -> Nat] /\ lpWallet \in [Pids -> [Stakers -> Nat]]

PaidTyped == saddleHeld \in Nat /\ saddleEarned \in [Pids -> [Stakers -> Nat]]

RewarderTyped ==
  /\ rewarderPool \in [acc : Nat, last : Nat]
  /\ rewarderUser \in [Stakers -> [amount : Nat, debt : Nat]]
  /\ rewardPerSecond \in Nat /\ rewardHeld \in Nat
  /\ rewardEarned \in [Stakers -> Nat] /\ reports \in Nat

ChefInv ==
  /\ now \in Nat /\ PoolsTyped /\ StakesTyped /\ PaidTyped /\ RewarderTyped
  /\ TotalAllocIsSum /\ StakesAreBacked

Points   == [pid \in PoolIds |-> poolInfo[pid].alloc]
Stakes(pid) == [u \in Stakers |-> userInfo[pid][u].amount]

LEMMA PointsSum == TotalAllocIsSum <=> totalAllocPoint = SumFunctionOnSet(Points, PoolIds)
  BY DEF TotalAllocIsSum, SumFunction, Points
LEMMA PointsSumNext ==
  TotalAllocIsSum' <=> totalAllocPoint' = SumFunctionOnSet(Points', PoolIds')
  BY DEF TotalAllocIsSum, SumFunction, Points
LEMMA StakesSum ==
  StakesAreBacked <=> \A pid \in Pids : lpHeld[pid] >= SumFunctionOnSet(Stakes(pid), Stakers)
  BY DEF StakesAreBacked, SumOver, SumFunction, Stakes
LEMMA StakesSumNext ==
  StakesAreBacked' <=>
    \A pid \in Pids : lpHeld'[pid] >= SumFunctionOnSet(Stakes(pid)', Stakers)
  BY DEF StakesAreBacked, SumOver, SumFunction, Stakes

LEMMA ChefInvInit == Init => ChefInv
<1> SUFFICES ASSUME Init PROVE ChefInv
  OBVIOUS
<1>1. /\ PoolsTyped /\ StakesTyped /\ PaidTyped
      /\ now \in Nat /\ RewarderTyped
  BY MiniChefAssumption, RewarderAssumption
  DEF Init, RewarderInit, PoolsTyped, StakesTyped, PaidTyped, RewarderTyped, Stake, Pids
<1>2. TotalAllocIsSum
  <2>1. PoolIds = {}
    BY DEF Init, PoolIds
  <2> QED BY <2>1, SumEmpty, PointsSum DEF Init
<1>3. StakesAreBacked
  <2>1. ASSUME NEW pid \in Pids PROVE lpHeld[pid] >= SumFunctionOnSet(Stakes(pid), Stakers)
    <3>1. \A u \in Stakers : Stakes(pid)[u] = 0
      BY DEF Init, Stakes
    <3>2. SumFunctionOnSet(Stakes(pid), Stakers) = 0
      BY <3>1, SumZero, MiniChefAssumption
    <3> QED BY <3>2 DEF Init
  <2> QED BY <2>1, StakesSum
<1> QED BY <1>1, <1>2, <1>3 DEF ChefInv

-----------------------------------------------------------------------------
(* A pool that is updated.                                                 *)
LEMMA PidIsKnown ==
  ASSUME ChefInv, NEW pid \in PoolIds
  PROVE  pid \in Pids /\ pid \in DOMAIN poolInfo /\ poolInfo[pid] \in Pool
BY MiniChefAssumption DEF ChefInv, PoolsTyped, PoolIds, Pids

LEMMA SaddleRewardType ==
  ASSUME ChefInv, NEW pid \in PoolIds PROVE SaddleReward(pid) \in Nat
<1>1. CASE Due(pid) /\ totalAllocPoint # 0
  <2> DEFINE t == now - poolInfo[pid].last
  <2>1. poolInfo[pid] \in Pool
    BY PidIsKnown
  <2>2. t \in Nat /\ saddlePerSecond \in Nat /\ poolInfo[pid].alloc \in Nat
        /\ totalAllocPoint \in Nat \ {0}
    BY <1>1, <2>1 DEF Due, Pool, ChefInv, PoolsTyped
  <2> HIDE DEF t
  <2>3. t * saddlePerSecond * poolInfo[pid].alloc \in Nat
    BY <2>2
  <2>4. (t * saddlePerSecond * poolInfo[pid].alloc) \div totalAllocPoint \in Nat
    BY <2>2, <2>3, DivDef
  <2> QED BY <1>1, <2>4 DEF SaddleReward, t
<1>2. CASE ~(Due(pid) /\ totalAllocPoint # 0)
  BY <1>2 DEF SaddleReward
<1> QED BY <1>1, <1>2

LEMMA UpdatedType ==
  ASSUME ChefInv, NEW pid \in PoolIds
  PROVE  /\ Updated(pid) \in Pool
         /\ Updated(pid).alloc = poolInfo[pid].alloc
         /\ Updated(pid).rewarder = poolInfo[pid].rewarder
         /\ Updated(pid).last = now
<1> DEFINE more == (SaddleReward(pid) * ACC_SADDLE_PRECISION) \div lpHeld[pid]
           acc  == IF Due(pid) THEN poolInfo[pid].acc + more ELSE poolInfo[pid].acc
<1>1. poolInfo[pid] \in Pool /\ pid \in Pids
  BY PidIsKnown
<1>2. Due(pid) => more \in Nat
  <2>1. SUFFICES ASSUME Due(pid) PROVE more \in Nat
    OBVIOUS
  <2>2. lpHeld[pid] \in Nat \ {0}
    BY <1>1, <2>1 DEF Due, ChefInv, StakesTyped
  <2>3. SaddleReward(pid) * ACC_SADDLE_PRECISION \in Nat
    BY SaddleRewardType, MiniChefAssumption
  <2> QED BY <2>2, <2>3, DivDef
<1>3. acc \in Nat
  BY <1>1, <1>2 DEF Pool
<1>4. Updated(pid) = [poolInfo[pid] EXCEPT !.acc = acc, !.last = now]
  BY <1>1 DEF Updated, Pool
<1>5. now \in Nat
  BY DEF ChefInv
<1> HIDE DEF acc
<1> QED BY <1>1, <1>3, <1>4, <1>5 DEF Pool

LEMMA UpdatesPools ==
  ASSUME ChefInv, NEW pid \in PoolIds, Updates(pid),
         UNCHANGED <<totalAllocPoint, saddlePerSecond, attachedAt>>,
         UNCHANGED deposits \/ deposits' = [deposits EXCEPT ![pid] = @ + 1]
  PROVE  PoolsTyped' /\ TotalAllocIsSum'
<1>1. Updated(pid) \in Pool /\ pid \in DOMAIN poolInfo /\ pid \in Pids
      /\ Updated(pid).alloc = poolInfo[pid].alloc
  BY PidIsKnown, UpdatedType
<1>2. /\ poolInfo' \in Seq(Pool) /\ Len(poolInfo') = Len(poolInfo)
      /\ \A p \in 1 .. Len(poolInfo) : poolInfo'[p] = IF p = pid THEN Updated(pid) ELSE poolInfo[p]
  BY <1>1 DEF Updates, ChefInv, PoolsTyped
<1>3. saddleCredited' \in [Pids -> Nat]
  BY <1>1, SaddleRewardType DEF Updates, ChefInv, PoolsTyped
<1>4. PoolsTyped'
  <2>1. deposits' \in [Pids -> Nat]
    BY <1>1 DEF ChefInv, PoolsTyped
  <2> QED BY <1>2, <1>3, <2>1 DEF ChefInv, PoolsTyped
<1>5. Points' = Points /\ PoolIds' = PoolIds
  BY <1>1, <1>2 DEF Points, PoolIds
<1>6. TotalAllocIsSum'
  BY <1>5, PointsSum, PointsSumNext DEF ChefInv
<1> QED BY <1>4, <1>6

-----------------------------------------------------------------------------
(* The rewarder's part of an operation, for any stake and any supply.      *)
LEMMA RewarderUpdatedType ==
  ASSUME now \in Nat, RewarderTyped, NEW supply \in Nat
  PROVE  RewarderUpdated(supply) \in [acc : Nat, last : Nat]
<1>1. CASE now <= rewarderPool.last
  BY <1>1 DEF RewarderUpdated, RewarderTyped
<1>2. CASE ~(now <= rewarderPool.last)
  <2> DEFINE reward == (now - rewarderPool.last) * rewardPerSecond
             more   == (reward * ACC_TOKEN_PRECISION) \div supply
  <2>1. now - rewarderPool.last \in Nat /\ rewarderPool.acc \in Nat /\ rewardPerSecond \in Nat
    BY <1>2 DEF RewarderTyped
  <2>2. reward \in Nat
    BY <2>1
  <2>3. reward * ACC_TOKEN_PRECISION \in Nat
    BY <2>2, RewarderAssumption
  <2>4. supply # 0 => more \in Nat
    BY <2>3, DivDef
  <2> HIDE DEF more
  <2>5. (IF supply = 0 THEN rewarderPool.acc ELSE rewarderPool.acc + more) \in Nat
    BY <2>1, <2>4
  <2> QED BY <1>2, <2>5 DEF RewarderUpdated, more
<1> QED BY <1>1, <1>2

LEMMA OnSaddleRewardType ==
  ASSUME now \in Nat, RewarderTyped, NEW supply \in Nat, NEW amount \in Nat, NEW u \in Stakers,
         OnSaddleReward(u, amount, supply)
  PROVE  RewarderTyped'
<1> DEFINE pool    == RewarderUpdated(supply)
           pending == PendingToken(u, pool)
           debt    == (amount * pool.acc) \div ACC_TOKEN_PRECISION
<1>1. pool \in [acc : Nat, last : Nat]
  BY RewarderUpdatedType
<1> HIDE DEF pool
<1>2. debt \in Nat
  <2>1. amount * pool.acc \in Nat
    BY <1>1
  <2> QED BY <2>1, DivDef, RewarderAssumption
<1>3. pending \in Int
  <2>1. rewarderUser[u].amount \in Nat /\ rewarderUser[u].debt \in Nat
    BY DEF RewarderTyped
  <2>2. rewarderUser[u].amount * pool.acc \in Nat
    BY <1>1, <2>1
  <2>3. (rewarderUser[u].amount * pool.acc) \div ACC_TOKEN_PRECISION \in Nat
    BY <2>2, DivDef, RewarderAssumption
  <2> QED BY <2>1, <2>3 DEF PendingToken
<1> HIDE DEF pending, debt
<1>4. /\ 0 <= pending /\ pending <= rewardHeld
      /\ rewarderPool' = pool
      /\ rewarderUser' = [rewarderUser EXCEPT ![u] = [amount |-> amount, debt |-> debt]]
      /\ rewardHeld' = rewardHeld - pending
      /\ rewardEarned' = [rewardEarned EXCEPT ![u] = @ + pending]
      /\ reports' = reports + 1
      /\ UNCHANGED rewardPerSecond
  BY DEF OnSaddleReward, pool, pending, debt
<1> QED BY <1>1, <1>2, <1>3, <1>4 DEF RewarderTyped

LEMMA NotifiesType ==
  ASSUME ChefInv, NEW pid \in PoolIds, NEW u \in Stakers, NEW amount \in Nat,
         Notifies(pid, u, amount)
  PROVE  RewarderTyped'
<1>1. CASE poolInfo[pid].rewarder = "simple"
  <2>1. lpHeld[pid] \in Nat /\ OnSaddleReward(u, amount, lpHeld[pid])
    BY <1>1, PidIsKnown DEF Notifies, ChefInv, StakesTyped
  <2> QED BY <2>1, OnSaddleRewardType DEF ChefInv
<1>2. CASE poolInfo[pid].rewarder # "simple"
  BY <1>2 DEF Notifies, rewarderVars, ChefInv, RewarderTyped
<1> QED BY <1>1, <1>2

-----------------------------------------------------------------------------
(* The stake of u in a pool grows by d, and so do the tokens held for it.  *)
LEMMA StakeMoves ==
  ASSUME ChefInv, StakesTyped', NEW pid \in Pids, NEW u \in Stakers, NEW d \in Int,
         lpHeld'[pid] = lpHeld[pid] + d,
         \A p \in Pids \ {pid} : lpHeld'[p] = lpHeld[p],
         userInfo'[pid][u].amount = userInfo[pid][u].amount + d,
         \A v \in Stakers \ {u} : userInfo'[pid][v].amount = userInfo[pid][v].amount,
         \A p \in Pids \ {pid} : userInfo'[p] = userInfo[p]
  PROVE  StakesAreBacked'
<1> DEFINE sum(f) == SumFunctionOnSet(f, Stakers)
<1>1. \A p \in Pids, v \in Stakers : Stakes(p)[v] \in Nat /\ Stakes(p)'[v] \in Nat
                                       /\ Stakes(p)[v] = userInfo[p][v].amount
                                       /\ Stakes(p)'[v] = userInfo'[p][v].amount
  BY DEF ChefInv, StakesTyped, Stake, Stakes
<1>2. lpHeld'[pid] >= sum(Stakes(pid)')
  <2>1. sum(Stakes(pid)') = sum(Stakes(pid)) + Stakes(pid)'[u] - Stakes(pid)[u]
    <3>1. \A v \in Stakers : Stakes(pid)[v] \in Int /\ Stakes(pid)'[v] \in Int
      BY <1>1
    <3>2. \A v \in Stakers \ {u} : Stakes(pid)'[v] = Stakes(pid)[v]
      BY <1>1
    <3> HIDE DEF sum
    <3> QED BY <3>1, <3>2, SumChange, MiniChefAssumption DEF sum
  <2>2. Stakes(pid)'[u] - Stakes(pid)[u] = d
    BY <1>1
  <2>3. sum(Stakes(pid)) \in Nat /\ lpHeld[pid] \in Nat /\ lpHeld[pid] >= sum(Stakes(pid))
    BY <1>1, SumNat, StakesSum, MiniChefAssumption DEF ChefInv, StakesTyped
  <2>4. Stakes(pid)'[u] \in Nat /\ Stakes(pid)[u] \in Nat
    BY <1>1
  <2> HIDE DEF sum
  <2> QED BY <2>1, <2>2, <2>3, <2>4
<1>3. ASSUME NEW p \in Pids \ {pid} PROVE lpHeld'[p] >= sum(Stakes(p)')
  <2>1. Stakes(p)' = Stakes(p)
    BY DEF Stakes
  <2> QED BY <2>1, StakesSum DEF ChefInv
<1> QED BY <1>2, <1>3, StakesSumNext

LEMMA StakesKept ==
  ASSUME ChefInv, UNCHANGED userInfo, \A pid \in Pids : lpHeld'[pid] >= lpHeld[pid],
         lpHeld' \in [Pids -> Nat]
  PROVE  StakesAreBacked'
<1>1. ASSUME NEW pid \in Pids PROVE lpHeld'[pid] >= SumFunctionOnSet(Stakes(pid)', Stakers)
  <2>1. Stakes(pid)' = Stakes(pid)
    BY DEF Stakes
  <2>2. \A u \in Stakers : Stakes(pid)[u] \in Nat
    BY DEF ChefInv, StakesTyped, Stake, Stakes
  <2>3. SumFunctionOnSet(Stakes(pid), Stakers) \in Nat
    BY <2>2, SumNat, MiniChefAssumption
  <2>4. lpHeld[pid] >= SumFunctionOnSet(Stakes(pid), Stakers) /\ lpHeld[pid] \in Nat
    BY StakesSum DEF ChefInv, StakesTyped
  <2> QED BY <2>1, <2>3, <2>4
<1> QED BY <1>1, StakesSumNext

LEMMA WorthType ==
  ASSUME NEW amount \in Nat, NEW pool \in Pool PROVE Worth(amount, pool) \in Nat
<1>1. amount * pool.acc \in Nat
  BY DEF Pool
<1> QED BY <1>1, DivDef, MiniChefAssumption DEF Worth

LEMMA PendingType ==
  ASSUME ChefInv, NEW pid \in PoolIds, NEW u \in Stakers PROVE PendingSaddle(pid, u) \in Int
<1>1. userInfo[pid][u] \in Stake
  BY PidIsKnown DEF ChefInv, StakesTyped
<1>2. Worth(userInfo[pid][u].amount, Updated(pid)) \in Nat
  BY <1>1, UpdatedType, WorthType DEF Stake
<1> QED BY <1>1, <1>2 DEF PendingSaddle, Stake

LEMMA PaysType ==
  ASSUME ChefInv, NEW pid \in Pids, NEW u \in Stakers, NEW amount \in Int, Pays(pid, u, amount)
  PROVE  PaidTyped'
<1>1. amount \in Nat /\ saddleHeld - amount \in Nat
  BY DEF Pays, ChefInv, PaidTyped
<1>2. saddleEarned[pid][u] + amount \in Nat
  BY <1>1 DEF ChefInv, PaidTyped
<1> QED BY <1>1, <1>2 DEF Pays, ChefInv, PaidTyped

-----------------------------------------------------------------------------
(* The operations, one by one.                                             *)
LEMMA UpdatePoolInv ==
  ASSUME ChefInv, NEW pid \in PoolIds, UpdatePool(pid) PROVE ChefInv'
<1>1. PoolsTyped' /\ TotalAllocIsSum'
  BY UpdatesPools DEF UpdatePool
<1>2. StakesAreBacked'
  BY StakesKept DEF UpdatePool, ChefInv, StakesTyped
<1> QED
  BY <1>1, <1>2
  DEF UpdatePool, ChefInv, StakesTyped, PaidTyped, RewarderTyped, rewarderVars

LEMMA DepositInv ==
  ASSUME ChefInv, NEW caller \in Stakers, NEW pid \in PoolIds, NEW amount \in LPAmounts,
         NEW to \in Stakers, Deposit(caller, pid, amount, to)
  PROVE  ChefInv'
<1> DEFINE user  == userInfo[pid][to]
           stake == [amount |-> user.amount + amount,
                     debt |-> user.debt + Worth(amount, Updated(pid))]
<1>1. pid \in Pids /\ amount \in Nat
  BY PidIsKnown, MiniChefAssumption
<1>2. user \in Stake /\ stake \in Stake /\ user.amount + amount \in Nat
  <2>1. user \in Stake
    BY <1>1 DEF ChefInv, StakesTyped
  <2>2. Worth(amount, Updated(pid)) \in Nat
    BY <1>1, UpdatedType, WorthType
  <2> QED BY <1>1, <2>1, <2>2 DEF Stake
<1>3. PoolsTyped' /\ TotalAllocIsSum'
  BY UpdatesPools DEF Deposit
<1>4. RewarderTyped'
  BY <1>2, NotifiesType DEF Deposit
<1>5. userInfo' = [userInfo EXCEPT ![pid][to] = stake]
  BY <1>1 DEF Deposit, ChefInv, StakesTyped
<1> HIDE DEF stake
<1>6. /\ userInfo' \in [Pids -> [Stakers -> Stake]]
      /\ userInfo'[pid][to] = stake
      /\ \A v \in Stakers \ {to} : userInfo'[pid][v] = userInfo[pid][v]
      /\ \A p \in Pids \ {pid} : userInfo'[p] = userInfo[p]
  BY <1>1, <1>2, <1>5 DEF ChefInv, StakesTyped
<1>7. /\ lpHeld' = [lpHeld EXCEPT ![pid] = @ + amount]
      /\ lpWallet' = [lpWallet EXCEPT ![pid][caller] = @ - amount]
      /\ amount <= lpWallet[pid][caller]
  BY DEF Deposit
<1>8. StakesTyped'
  BY <1>1, <1>6, <1>7 DEF ChefInv, StakesTyped
<1>9. StakesAreBacked'
  <2>1. /\ lpHeld'[pid] = lpHeld[pid] + amount
        /\ \A p \in Pids \ {pid} : lpHeld'[p] = lpHeld[p]
    BY <1>1, <1>7 DEF ChefInv, StakesTyped
  <2>2. userInfo'[pid][to].amount = userInfo[pid][to].amount + amount
    BY <1>6 DEF stake
  <2>3. amount \in Int /\ \A v \in Stakers \ {to} : userInfo'[pid][v].amount = userInfo[pid][v].amount
    BY <1>1, <1>6
  <2> QED BY <1>1, <1>6, <1>8, <2>1, <2>2, <2>3, StakeMoves
<1> QED BY <1>3, <1>4, <1>8, <1>9 DEF Deposit, ChefInv, PaidTyped

(* What a stake and the tokens are after some of it is returned.           *)
LEMMA StakeLeaves ==
  ASSUME ChefInv, NEW u \in Stakers, NEW pid \in PoolIds, NEW amount \in Nat, NEW debt \in Int,
         amount <= userInfo[pid][u].amount,
         userInfo' = [userInfo EXCEPT ![pid][u] =
                        [amount |-> userInfo[pid][u].amount - amount, debt |-> debt]],
         Returns(pid, u, amount)
  PROVE  StakesTyped' /\ StakesAreBacked'
<1> DEFINE user  == userInfo[pid][u]
           stake == [amount |-> user.amount - amount, debt |-> debt]
<1>1. pid \in Pids
  BY PidIsKnown
<1>2. user \in Stake /\ stake \in Stake
  <2>1. user \in Stake
    BY <1>1 DEF ChefInv, StakesTyped
  <2> QED BY <2>1 DEF Stake
<1>3. userInfo' = [userInfo EXCEPT ![pid][u] = stake]
  OBVIOUS
<1>4. stake.amount = user.amount - amount
  OBVIOUS
<1> HIDE DEF stake
<1>5. /\ userInfo' \in [Pids -> [Stakers -> Stake]]
      /\ userInfo'[pid][u] = stake
      /\ \A v \in Stakers \ {u} : userInfo'[pid][v] = userInfo[pid][v]
      /\ \A p \in Pids \ {pid} : userInfo'[p] = userInfo[p]
  BY <1>1, <1>2, <1>3 DEF ChefInv, StakesTyped
<1>6. StakesTyped'
  BY <1>1, <1>5 DEF Returns, ChefInv, StakesTyped
<1>7. StakesAreBacked'
  <2>1. /\ lpHeld'[pid] = lpHeld[pid] + (-amount)
        /\ \A p \in Pids \ {pid} : lpHeld'[p] = lpHeld[p]
    BY <1>1 DEF Returns, ChefInv, StakesTyped
  <2>2. userInfo'[pid][u].amount = userInfo[pid][u].amount + (-amount)
    BY <1>2, <1>4, <1>5 DEF Stake
  <2>3. -amount \in Int /\ \A v \in Stakers \ {u} : userInfo'[pid][v].amount = userInfo[pid][v].amount
    BY <1>5
  <2> QED BY <1>1, <1>5, <1>6, <2>1, <2>2, <2>3, StakeMoves
<1> QED BY <1>6, <1>7

LEMMA WithdrawInv ==
  ASSUME ChefInv, NEW u \in Stakers, NEW pid \in PoolIds, NEW amount \in LPAmounts,
         Withdraw(u, pid, amount)
  PROVE  ChefInv'
<1> DEFINE user == userInfo[pid][u]
           debt == user.debt - Worth(amount, Updated(pid))
<1>1. pid \in Pids /\ amount \in Nat /\ amount <= user.amount
  BY PidIsKnown, MiniChefAssumption DEF Withdraw
<1>2. user \in Stake /\ debt \in Int /\ user.amount - amount \in Nat
  <2>1. user \in Stake
    BY <1>1 DEF ChefInv, StakesTyped
  <2>2. Worth(amount, Updated(pid)) \in Nat
    BY <1>1, UpdatedType, WorthType
  <2> QED BY <1>1, <2>1, <2>2 DEF Stake
<1>3. PoolsTyped' /\ TotalAllocIsSum'
  BY UpdatesPools DEF Withdraw
<1>4. RewarderTyped'
  BY <1>2, NotifiesType DEF Withdraw
<1>5. userInfo' = [userInfo EXCEPT ![pid][u] = [amount |-> user.amount - amount, debt |-> debt]]
  BY <1>1 DEF Withdraw, ChefInv, StakesTyped
<1> HIDE DEF debt
<1>6. StakesTyped' /\ StakesAreBacked'
  BY <1>1, <1>2, <1>5, StakeLeaves DEF Withdraw
<1> QED BY <1>3, <1>4, <1>6 DEF Withdraw, ChefInv, PaidTyped

LEMMA WithdrawAndHarvestInv ==
  ASSUME ChefInv, NEW u \in Stakers, NEW pid \in PoolIds, NEW amount \in LPAmounts,
         WithdrawAndHarvest(u, pid, amount)
  PROVE  ChefInv'
<1> DEFINE user == userInfo[pid][u]
           debt == Worth(user.amount, Updated(pid)) - Worth(amount, Updated(pid))
<1>1. pid \in Pids /\ amount \in Nat /\ amount <= user.amount
  BY PidIsKnown, MiniChefAssumption DEF WithdrawAndHarvest
<1>2. user \in Stake /\ debt \in Int /\ user.amount - amount \in Nat
  <2>1. user \in Stake
    BY <1>1 DEF ChefInv, StakesTyped
  <2>2. Worth(amount, Updated(pid)) \in Nat /\ Worth(user.amount, Updated(pid)) \in Nat
    BY <1>1, <2>1, UpdatedType, WorthType DEF Stake
  <2> QED BY <1>1, <2>1, <2>2 DEF Stake
<1>3. PoolsTyped' /\ TotalAllocIsSum'
  BY UpdatesPools DEF WithdrawAndHarvest
<1>4. RewarderTyped'
  BY <1>2, NotifiesType DEF WithdrawAndHarvest
<1>5. userInfo' = [userInfo EXCEPT ![pid][u] = [amount |-> user.amount - amount, debt |-> debt]]
  BY <1>1 DEF WithdrawAndHarvest, ChefInv, StakesTyped
<1> HIDE DEF debt
<1>6. StakesTyped' /\ StakesAreBacked'
  BY <1>1, <1>2, <1>5, StakeLeaves DEF WithdrawAndHarvest
<1>7. PaidTyped'
  BY <1>1, PendingType, PaysType DEF WithdrawAndHarvest
<1> QED BY <1>3, <1>4, <1>6, <1>7 DEF WithdrawAndHarvest, ChefInv

LEMMA HarvestInv ==
  ASSUME ChefInv, NEW u \in Stakers, NEW pid \in PoolIds, Harvest(u, pid) PROVE ChefInv'
<1> DEFINE user == userInfo[pid][u]
           debt == Worth(user.amount, Updated(pid))
<1>1. pid \in Pids
  BY PidIsKnown
<1>2. user \in Stake /\ debt \in Nat /\ user.amount \in Nat
  <2>1. user \in Stake
    BY <1>1 DEF ChefInv, StakesTyped
  <2> QED BY <2>1, UpdatedType, WorthType DEF Stake
<1>3. PoolsTyped' /\ TotalAllocIsSum'
  BY UpdatesPools DEF Harvest
<1>4. RewarderTyped'
  BY <1>2, NotifiesType DEF Harvest
<1>5. PaidTyped'
  BY <1>1, PendingType, PaysType DEF Harvest
<1>6. userInfo' = [userInfo EXCEPT ![pid][u] = [user EXCEPT !.debt = debt]]
  BY <1>1 DEF Harvest, ChefInv, StakesTyped
<1>7. [user EXCEPT !.debt = debt] \in Stake /\ [user EXCEPT !.debt = debt].amount = user.amount
  BY <1>2 DEF Stake
<1> HIDE DEF debt
<1>8. /\ userInfo' \in [Pids -> [Stakers -> Stake]]
      /\ \A p \in Pids : \A v \in Stakers : userInfo'[p][v].amount = userInfo[p][v].amount
  BY <1>1, <1>2, <1>6, <1>7 DEF ChefInv, StakesTyped
<1>9. UNCHANGED <<lpHeld, lpWallet>>
  BY DEF Harvest
<1>10. StakesAreBacked'
  <2>1. ASSUME NEW p \in Pids PROVE Stakes(p)' = Stakes(p)
    BY <1>8 DEF Stakes
  <2> QED BY <1>9, <2>1, StakesSum, StakesSumNext DEF ChefInv
<1> QED BY <1>3, <1>4, <1>5, <1>8, <1>9, <1>10 DEF Harvest, ChefInv, StakesTyped

LEMMA EmergencyWithdrawInv ==
  ASSUME ChefInv, NEW u \in Stakers, NEW pid \in PoolIds, EmergencyWithdraw(u, pid)
  PROVE  ChefInv'
<1> DEFINE user == userInfo[pid][u]
<1>1. pid \in Pids
  BY PidIsKnown
<1>2. user.amount \in Nat /\ user.amount - user.amount = 0
  <2>1. user \in Stake
    BY <1>1 DEF ChefInv, StakesTyped
  <2> QED BY <2>1 DEF Stake
<1>3. userInfo' = [userInfo EXCEPT ![pid][u] = [amount |-> user.amount - user.amount, debt |-> 0]]
  BY <1>2 DEF EmergencyWithdraw
<1>4. RewarderTyped'
  BY NotifiesType DEF EmergencyWithdraw
<1>5. StakesTyped' /\ StakesAreBacked'
  <2>1. user.amount <= user.amount /\ 0 \in Int /\ Returns(pid, u, user.amount)
    BY <1>2 DEF EmergencyWithdraw
  <2> QED BY <1>2, <1>3, <2>1, StakeLeaves
<1>6. UNCHANGED <<now, poolInfo, totalAllocPoint, saddlePerSecond, saddleHeld, saddleEarned,
                  saddleCredited, attachedAt, deposits>>
  BY DEF EmergencyWithdraw
<1>7. PoolsTyped' /\ TotalAllocIsSum'
  BY <1>6 DEF ChefInv, PoolsTyped, TotalAllocIsSum, PoolIds
<1> QED BY <1>4, <1>5, <1>6, <1>7 DEF ChefInv, PaidTyped

LEMMA SendLPInv ==
  ASSUME ChefInv, NEW u \in Stakers, NEW pid \in PoolIds, NEW amount \in LPGifts,
         SendLP(u, pid, amount)
  PROVE  ChefInv'
<1>1. pid \in Pids /\ amount \in Nat
  BY PidIsKnown, MiniChefAssumption
<1>2. UNCHANGED <<now, rewarderVars, poolInfo, userInfo, totalAllocPoint, saddlePerSecond,
                  saddleHeld, saddleEarned, saddleCredited, attachedAt, deposits>>
  BY DEF SendLP
<1>3. StakesTyped' /\ \A p \in Pids : lpHeld'[p] >= lpHeld[p]
  BY <1>1 DEF SendLP, ChefInv, StakesTyped
<1>4. StakesAreBacked'
  BY <1>2, <1>3, StakesKept DEF StakesTyped
<1>5. PoolsTyped' /\ TotalAllocIsSum'
  BY <1>2 DEF ChefInv, PoolsTyped, TotalAllocIsSum, PoolIds
<1> QED BY <1>2, <1>3, <1>4, <1>5 DEF ChefInv, PaidTyped, RewarderTyped, rewarderVars

-----------------------------------------------------------------------------
(* The owner.  The points of a new pool, and those a pool is given instead *)
(* of its old ones, are in the total.                                      *)
LEMMA PointsType == ASSUME ChefInv PROVE \A pid \in PoolIds : Points[pid] \in Nat
<1> SUFFICES ASSUME NEW pid \in PoolIds PROVE Points[pid] \in Nat
  OBVIOUS
<1> QED BY PidIsKnown DEF Points, Pool

LEMMA AddInv ==
  ASSUME ChefInv, NEW points \in AllocPoints, NEW rewarder \in Delegates, Add(points, rewarder)
  PROVE  ChefInv'
<1> DEFINE pool == [acc |-> 0, last |-> now, alloc |-> points, rewarder |-> rewarder]
           n    == Len(poolInfo)
<1>1. points \in Nat /\ pool \in Pool /\ poolInfo \in Seq(Pool) /\ n \in Nat
  BY MiniChefAssumption DEF ChefInv, PoolsTyped, Pool
<1>2. pool.alloc = points
  OBVIOUS
<1>3. poolInfo' = Append(poolInfo, pool)
  BY DEF Add
<1> HIDE DEF pool
<1>4. /\ poolInfo' \in Seq(Pool) /\ Len(poolInfo') = n + 1
      /\ poolInfo'[n + 1] = pool /\ \A p \in 1 .. n : poolInfo'[p] = poolInfo[p]
  BY <1>1, <1>3
<1>5. PoolsTyped'
  BY <1>1, <1>4, MiniChefAssumption DEF Add, Attaches, ChefInv, PoolsTyped
<1>6. PoolIds = 1 .. n /\ PoolIds' = PoolIds \cup {n + 1} /\ n + 1 \notin PoolIds
  BY <1>1, <1>4 DEF PoolIds
<1>7. /\ Points'[n + 1] = points
      /\ \A p \in PoolIds : Points'[p] = Points[p] /\ Points[p] \in Int
  <2>1. \A p \in PoolIds' : Points'[p] = poolInfo'[p].alloc
    BY DEF Points
  <2>2. \A p \in PoolIds : Points[p] = poolInfo[p].alloc
    BY DEF Points
  <2>3. \A p \in PoolIds : Points'[p] = Points[p]
    BY <1>4, <1>6, <2>1, <2>2
  <2>4. Points'[n + 1] = points
    BY <1>2, <1>4, <1>6, <2>1
  <2> QED BY <2>3, <2>4, PointsType
<1>8. IsFiniteSet(PoolIds)
  BY <1>1, <1>6, FS_Interval
<1>9. SumFunctionOnSet(Points', PoolIds') = SumFunctionOnSet(Points', PoolIds) + points
  <2>1. \A p \in PoolIds \cup {n + 1} : Points'[p] \in Int
    BY <1>1, <1>7
  <2> QED BY <1>6, <1>7, <1>8, <2>1, SumAdd
<1>10. SumFunctionOnSet(Points', PoolIds) = SumFunctionOnSet(Points, PoolIds)
  BY <1>7, <1>8, SumCongruent
<1>11. TotalAllocIsSum'
  BY <1>9, <1>10, PointsSum, PointsSumNext DEF Add, ChefInv
<1>12. UNCHANGED <<now, rewarderVars, userInfo, lpHeld, lpWallet, saddleHeld, saddleEarned>>
  BY DEF Add
<1>13. StakesAreBacked'
  BY <1>12, StakesKept DEF ChefInv, StakesTyped
<1> QED
  BY <1>5, <1>11, <1>12, <1>13
  DEF ChefInv, StakesTyped, PaidTyped, RewarderTyped, rewarderVars

LEMMA SetInv ==
  ASSUME ChefInv, NEW pid \in PoolIds, NEW points \in AllocPoints, NEW rewarder \in Delegates,
         NEW overwrite \in BOOLEAN, Set(pid, points, rewarder, overwrite)
  PROVE  ChefInv'
<1> DEFINE pool == [poolInfo[pid] EXCEPT !.alloc = points,
                                         !.rewarder = IF overwrite THEN rewarder ELSE @]
           n    == Len(poolInfo)
<1>1. points \in Nat /\ poolInfo[pid] \in Pool /\ poolInfo \in Seq(Pool) /\ pid \in DOMAIN poolInfo
  BY PidIsKnown, MiniChefAssumption DEF ChefInv, PoolsTyped
<1>2. pool \in Pool /\ pool.alloc = points
  <2>1. rewarder \in {"none", "simple", "another"}
    BY MiniChefAssumption
  <2> QED BY <1>1, <2>1 DEF Pool
<1>3. poolInfo' = [poolInfo EXCEPT ![pid] = pool]
  <2>1. poolInfo' = [poolInfo EXCEPT ![pid].alloc = points,
                                     ![pid].rewarder = IF overwrite THEN rewarder ELSE @]
    BY DEF Set
  <2> QED BY <1>1, <2>1
<1> HIDE DEF pool
<1>4. /\ poolInfo' \in Seq(Pool) /\ Len(poolInfo') = Len(poolInfo)
      /\ poolInfo'[pid] = pool /\ \A p \in PoolIds \ {pid} : poolInfo'[p] = poolInfo[p]
  BY <1>1, <1>2, <1>3 DEF PoolIds
<1>5. PoolIds' = PoolIds /\ IsFiniteSet(PoolIds)
  <2>1. PoolIds' = PoolIds /\ Len(poolInfo) \in Nat
    BY <1>1, <1>4 DEF PoolIds
  <2> QED BY <2>1, FS_Interval DEF PoolIds
<1>6. /\ \A p \in PoolIds : Points[p] = poolInfo[p].alloc /\ Points'[p] = poolInfo'[p].alloc
      /\ \A p \in PoolIds : Points[p] \in Nat /\ Points'[p] \in Nat
  <2>1. \A p \in PoolIds : Points[p] = poolInfo[p].alloc /\ Points'[p] = poolInfo'[p].alloc
    BY <1>5 DEF Points
  <2> QED BY <1>1, <1>2, <1>4, <2>1, PointsType
<1>7. SumFunctionOnSet(Points', PoolIds')
        = SumFunctionOnSet(Points, PoolIds) + points - poolInfo[pid].alloc
  <2>1. \A p \in PoolIds \ {pid} : Points'[p] = Points[p]
    BY <1>4, <1>6
  <2>2. Points'[pid] = points /\ Points[pid] = poolInfo[pid].alloc
    BY <1>2, <1>4, <1>6
  <2>3. \A p \in PoolIds : Points[p] \in Int /\ Points'[p] \in Int
    BY <1>6
  <2> QED BY <1>5, <2>1, <2>2, <2>3, SumChange
<1>8. poolInfo[pid].alloc \in Nat /\ poolInfo[pid].alloc <= totalAllocPoint
  BY <1>5, <1>6, SumPart, PointsSum DEF ChefInv
<1>9. totalAllocPoint' = totalAllocPoint - poolInfo[pid].alloc + points /\ totalAllocPoint \in Nat
  BY DEF Set, ChefInv, PoolsTyped
<1>10. TotalAllocIsSum'
  <2>1. totalAllocPoint = SumFunctionOnSet(Points, PoolIds)
    BY PointsSum DEF ChefInv
  <2>2. totalAllocPoint' = SumFunctionOnSet(Points', PoolIds')
    BY <1>1, <1>7, <1>8, <1>9, <2>1
  <2> QED BY <2>2, PointsSumNext
<1>11. PoolsTyped'
  <2>1. attachedAt' \in Nat
    BY DEF Set, Attaches, ChefInv, PoolsTyped
  <2> QED BY <1>1, <1>4, <1>8, <1>9, <2>1 DEF Set, ChefInv, PoolsTyped
<1>12. UNCHANGED <<now, rewarderVars, userInfo, lpHeld, lpWallet, saddleHeld, saddleEarned>>
  BY DEF Set
<1>13. StakesAreBacked'
  BY <1>12, StakesKept DEF ChefInv, StakesTyped
<1> QED
  BY <1>10, <1>11, <1>12, <1>13
  DEF ChefInv, StakesTyped, PaidTyped, RewarderTyped, rewarderVars

(* Steps that leave the pools' points and the stakes alone.                *)
LEMMA NothingMoves ==
  ASSUME ChefInv, UNCHANGED <<poolInfo, totalAllocPoint, userInfo, lpHeld, lpWallet>>
  PROVE  StakesTyped' /\ TotalAllocIsSum' /\ StakesAreBacked'
<1>1. StakesAreBacked'
  BY StakesKept DEF ChefInv, StakesTyped
<1> QED BY <1>1 DEF ChefInv, StakesTyped, TotalAllocIsSum, PoolIds

LEMMA SetSaddlePerSecondInv ==
  ASSUME ChefInv, NEW rate \in SaddleRates, SetSaddlePerSecond(rate) PROVE ChefInv'
<1>1. StakesTyped' /\ TotalAllocIsSum' /\ StakesAreBacked'
  BY NothingMoves DEF SetSaddlePerSecond
<1> QED
  BY <1>1, MiniChefAssumption
  DEF SetSaddlePerSecond, ChefInv, PoolsTyped, PaidTyped, RewarderTyped, rewarderVars

LEMMA RewarderNextInv == ASSUME ChefInv, RewarderNext PROVE ChefInv'
<1>1. StakesTyped' /\ TotalAllocIsSum' /\ StakesAreBacked'
  BY NothingMoves DEF RewarderNext, chefVars
<1>2. RewarderTyped'
  <2>1. ASSUME RewarderPid \in PoolIds, UpdateRewarder(lpHeld[RewarderPid]) PROVE RewarderTyped'
    <3>1. lpHeld[RewarderPid] \in Nat
      BY <2>1, PidIsKnown DEF ChefInv, StakesTyped
    <3>2. rewarderPool' \in [acc : Nat, last : Nat]
      BY <2>1, <3>1, RewarderUpdatedType DEF UpdateRewarder, ChefInv
    <3> QED BY <2>1, <3>2 DEF UpdateRewarder, ChefInv, RewarderTyped
  <2>2. ASSUME NEW rate \in RewardRates, SetRewardPerSecond(rate) PROVE RewarderTyped'
    BY <2>2, RewarderAssumption DEF SetRewardPerSecond, ChefInv, RewarderTyped
  <2>3. ASSUME NEW amount \in RewardFunds, FundRewarder(amount) PROVE RewarderTyped'
    BY <2>3, MiniChefAssumption DEF FundRewarder, ChefInv, RewarderTyped
  <2> QED BY <2>1, <2>2, <2>3 DEF RewarderNext
<1> QED BY <1>1, <1>2 DEF RewarderNext, chefVars, ChefInv, PoolsTyped, PaidTyped

LEMMA TickInv == ASSUME ChefInv, Tick \/ UNCHANGED vars PROVE ChefInv'
<1>1. StakesTyped' /\ TotalAllocIsSum' /\ StakesAreBacked'
  BY NothingMoves DEF Tick, vars, chefVars
<1>2. now' \in Nat /\ UNCHANGED <<rewarderVars, chefVars>>
  BY DEF Tick, vars, ChefInv
<1>3. PoolsTyped' /\ PaidTyped'
  BY <1>2 DEF chefVars, ChefInv, PoolsTyped, PaidTyped
<1>4. RewarderTyped'
  BY <1>2 DEF rewarderVars, ChefInv, RewarderTyped
<1> QED BY <1>1, <1>2, <1>3, <1>4 DEF ChefInv

LEMMA ChefInvNext == ChefInv /\ [Next]_vars => ChefInv'
<1> SUFFICES ASSUME ChefInv, [Next]_vars PROVE ChefInv'
  OBVIOUS
<1>1. ASSUME NEW u \in Stakers, StakerNext(u) PROVE ChefInv'
  BY <1>1, UpdatePoolInv, HarvestInv, EmergencyWithdrawInv, DepositInv, WithdrawInv,
     WithdrawAndHarvestInv, SendLPInv
  DEF StakerNext
<1>2. CASE OwnerNext
  BY <1>2, AddInv, SetInv, SetSaddlePerSecondInv DEF OwnerNext
<1>3. CASE RewarderNext
  BY <1>3, RewarderNextInv
<1>4. CASE Tick \/ UNCHANGED vars
  BY <1>4, TickInv
<1> QED BY <1>1, <1>2, <1>3, <1>4 DEF Next

(* Every reachable state has the types, and MiniChef's two sums hold in it: *)
(* what its operations, the owner's, the rewarder's and time keep together. *)
THEOREM ChefInvariant == Spec => []ChefInv
<1> QED BY ChefInvInit, ChefInvNext, PTL DEF Spec

(* Every variable of MiniChefV2.sol and of its rewarder keeps its unsigned *)
(* type, in particular the total of the allocation points, from which the  *)
(* old points of a pool are subtracted.                                    *)
THEOREM ChefTypes == Spec => []ChefTypeOK
<1> DEFINE UntoldTyped == untold \in BOOLEAN
<1>1. ChefInv /\ UntoldTyped => ChefTypeOK
  BY DEF ChefInv, PoolsTyped, StakesTyped, PaidTyped, RewarderTyped, Pool, Stake, ChefTypeOK
<1>2. Init => UntoldTyped
  BY Zenon DEF Init
<1>3. UntoldTyped /\ [Next]_vars => UntoldTyped'
  <2> SUFFICES ASSUME untold \in BOOLEAN, [Next]_vars PROVE untold' \in BOOLEAN
    OBVIOUS
  <2>1. ASSUME NEW u, NEW pid, NEW amount, Notifies(pid, u, amount) PROVE untold' \in BOOLEAN
    BY <2>1, Zenon DEF Notifies
  <2>2. ASSUME NEW u \in Stakers, StakerNext(u) PROVE untold' \in BOOLEAN
    BY <2>1, <2>2, Zenon
    DEF StakerNext, UpdatePool, Harvest, EmergencyWithdraw, Deposit, Withdraw,
        WithdrawAndHarvest, SendLP
  <2>3. CASE OwnerNext
    BY <2>3, Zenon DEF OwnerNext, Add, Set, SetSaddlePerSecond
  <2>4. CASE RewarderNext \/ Tick \/ UNCHANGED vars
    BY <2>4, Zenon DEF RewarderNext, Tick, vars, chefVars
  <2> QED BY <2>2, <2>3, <2>4 DEF Next
<1> HIDE DEF UntoldTyped
<1> QED BY <1>1, <1>2, <1>3, ChefInvariant, PTL DEF Spec

(* totalAllocPoint is the sum of the points of the pools, whatever the     *)
(* owner adds and changes.                                                 *)
THEOREM TotalAllocAlwaysSum == Spec => []TotalAllocIsSum
<1>1. ChefInv => TotalAllocIsSum
  BY DEF ChefInv
<1> QED BY <1>1, ChefInvariant, PTL

(* For any number of stakers MiniChef holds the LP tokens of all stakes,   *)
(* and of every pool on its own.                                           *)
THEOREM StakesAlwaysBacked == Spec => []StakesAreBacked
<1>1. ChefInv => StakesAreBacked
  BY DEF ChefInv
<1> QED BY <1>1, ChefInvariant, PTL

-----------------------------------------------------------------------------
(* Within a block nobody can get more.  For the rewarder this rests on     *)
(* what it knows: while no stake shrank untold, it counts no more of a     *)
(* stake than MiniChef has.                                                *)
RewarderKnows ==
  \A u \in Stakers : rewarderUser[u].amount <= userInfo[RewarderPid][u].amount

KnowsIfTold == untold \/ RewarderKnows

LEMMA KnowsInit == Init => KnowsIfTold
<1> SUFFICES ASSUME Init PROVE RewarderKnows
  BY DEF KnowsIfTold
<1>1. RewarderPid \in Pids
  BY MiniChefAssumption
<1> QED BY <1>1 DEF Init, RewarderInit, RewarderKnows

LEMMA KnowsKept ==
  ASSUME KnowsIfTold, UNCHANGED <<userInfo, untold>>,
         \A u \in Stakers : rewarderUser'[u].amount = rewarderUser[u].amount
  PROVE  KnowsIfTold'
BY DEF KnowsIfTold, RewarderKnows

(* What OnSaddleReward leaves: a stake that is what MiniChef reported.     *)
LEMMA RewarderHears ==
  ASSUME ChefInv, NEW pid \in PoolIds, NEW u \in Stakers, NEW amount \in Nat,
         Notifies(pid, u, amount)
  PROVE  /\ \A v \in Stakers \ {u} : rewarderUser'[v] = rewarderUser[v]
         /\ IF poolInfo[pid].rewarder = "simple"
              THEN rewarderUser'[u].amount = amount /\ pid = RewarderPid /\ untold' = untold
              ELSE /\ rewarderUser'[u] = rewarderUser[u]
                   /\ untold' = (untold \/ (pid = RewarderPid /\ amount < rewarderUser[u].amount))
BY DEF Notifies, OnSaddleReward, rewarderVars, ChefInv, RewarderTyped

LEMMA KnowsNotified ==
  ASSUME ChefInv, KnowsIfTold, NEW pid \in PoolIds, NEW u \in Stakers,
         NEW amount \in Nat, Notifies(pid, u, amount),
         userInfo'[pid][u].amount = amount,
         \A v \in Stakers \ {u} : userInfo'[pid][v].amount = userInfo[pid][v].amount,
         \A p \in Pids \ {pid} : userInfo'[p] = userInfo[p]
  PROVE  KnowsIfTold'
<1> SUFFICES ASSUME ~untold', NEW v \in Stakers
             PROVE  rewarderUser'[v].amount <= userInfo'[RewarderPid][v].amount
  BY DEF KnowsIfTold, RewarderKnows
<1>1. RewarderPid \in Pids /\ rewarderUser[v].amount \in Nat
  BY MiniChefAssumption DEF ChefInv, RewarderTyped
<1>2. ~untold /\ rewarderUser[v].amount <= userInfo[RewarderPid][v].amount
  <2>1. ~untold
    BY RewarderHears
  <2> QED BY <2>1 DEF KnowsIfTold, RewarderKnows
<1>3. CASE v # u
  BY <1>1, <1>2, <1>3, RewarderHears
<1>4. CASE v = u /\ poolInfo[pid].rewarder = "simple"
  BY <1>4, RewarderHears
<1>5. CASE v = u /\ poolInfo[pid].rewarder # "simple"
  <2>1. /\ rewarderUser'[u] = rewarderUser[u]
        /\ ~(pid = RewarderPid /\ amount < rewarderUser[u].amount)
    BY <1>5, RewarderHears
  <2> QED BY <1>1, <1>2, <1>5, <2>1
<1> QED BY <1>3, <1>4, <1>5

(* The stakes after an operation on u's stake.                             *)
LEMMA StakeSet ==
  ASSUME ChefInv, NEW pid \in PoolIds, NEW u \in Stakers, NEW stake,
         userInfo' = [userInfo EXCEPT ![pid][u] = stake]
  PROVE  /\ userInfo'[pid][u] = stake
         /\ \A v \in Stakers \ {u} : userInfo'[pid][v] = userInfo[pid][v]
         /\ \A p \in Pids \ {pid} : userInfo'[p] = userInfo[p]
<1>1. pid \in Pids
  BY PidIsKnown
<1> QED BY <1>1 DEF ChefInv, StakesTyped

LEMMA KnowsStake ==
  ASSUME ChefInv, KnowsIfTold, NEW pid \in PoolIds, NEW u \in Stakers,
         NEW stake, NEW amount \in Nat, stake.amount = amount, Notifies(pid, u, amount),
         userInfo' = [userInfo EXCEPT ![pid][u] = stake]
  PROVE  KnowsIfTold'
<1>1. /\ userInfo'[pid][u] = stake
      /\ \A v \in Stakers \ {u} : userInfo'[pid][v] = userInfo[pid][v]
      /\ \A p \in Pids \ {pid} : userInfo'[p] = userInfo[p]
  BY StakeSet
<1>2. /\ userInfo'[pid][u].amount = amount
      /\ \A v \in Stakers \ {u} : userInfo'[pid][v].amount = userInfo[pid][v].amount
  BY <1>1
<1> QED BY <1>1, <1>2, KnowsNotified

LEMMA StakeType ==
  ASSUME ChefInv, NEW pid \in PoolIds, NEW u \in Stakers
  PROVE  userInfo[pid][u] \in Stake /\ userInfo[pid][u].amount \in Nat
         /\ userInfo[pid][u].debt \in Int
<1>1. userInfo[pid][u] \in Stake
  BY PidIsKnown DEF ChefInv, StakesTyped
<1> QED BY <1>1 DEF Stake

LEMMA KnowsNext == ChefInv /\ KnowsIfTold /\ [Next]_vars => KnowsIfTold'
<1> SUFFICES ASSUME ChefInv, KnowsIfTold, [Next]_vars PROVE KnowsIfTold'
  OBVIOUS
<1>1. ASSUME NEW u \in Stakers, NEW pid \in PoolIds, UpdatePool(pid) PROVE KnowsIfTold'
  BY <1>1, KnowsKept DEF UpdatePool, rewarderVars
<1>2. ASSUME NEW u \in Stakers, NEW pid \in PoolIds, Harvest(u, pid) PROVE KnowsIfTold'
  <2> DEFINE user == userInfo[pid][u]
             stake == [user EXCEPT !.debt = Worth(user.amount, Updated(pid))]
  <2>1. user \in Stake /\ user.amount \in Nat
    BY StakeType
  <2>2. userInfo' = [userInfo EXCEPT ![pid][u] = stake]
    BY <1>2 DEF Harvest
  <2>3. stake.amount = user.amount
    BY <2>1 DEF Stake
  <2> HIDE DEF stake
  <2>4. Notifies(pid, u, user.amount)
    BY <1>2 DEF Harvest
  <2> QED BY <2>1, <2>2, <2>3, <2>4, KnowsStake
<1>3. ASSUME NEW u \in Stakers, NEW pid \in PoolIds, EmergencyWithdraw(u, pid)
      PROVE  KnowsIfTold'
  <2> DEFINE stake == [amount |-> 0, debt |-> 0]
  <2>1. userInfo' = [userInfo EXCEPT ![pid][u] = stake] /\ stake.amount = 0
    BY <1>3 DEF EmergencyWithdraw
  <2> HIDE DEF stake
  <2>2. Notifies(pid, u, 0) /\ 0 \in Nat
    BY <1>3 DEF EmergencyWithdraw
  <2> QED BY <2>1, <2>2, KnowsStake
<1>4. ASSUME NEW u \in Stakers, NEW pid \in PoolIds, NEW amount \in LPAmounts, NEW to \in Stakers,
             Deposit(u, pid, amount, to)
      PROVE  KnowsIfTold'
  <2> DEFINE user == userInfo[pid][to]
             stake == [amount |-> user.amount + amount,
                       debt |-> user.debt + Worth(amount, Updated(pid))]
  <2>1. user.amount + amount \in Nat
    <3>1. user.amount \in Nat
      BY StakeType
    <3>2. amount \in Nat
      BY MiniChefAssumption
    <3> QED BY <3>1, <3>2
  <2>2. userInfo' = [userInfo EXCEPT ![pid][to] = stake] /\ stake.amount = user.amount + amount
    BY <1>4, PidIsKnown DEF Deposit, ChefInv, StakesTyped
  <2> HIDE DEF stake
  <2>3. Notifies(pid, to, user.amount + amount)
    BY <1>4 DEF Deposit
  <2> QED BY <2>1, <2>2, <2>3, KnowsStake
<1>5. ASSUME NEW u \in Stakers, NEW pid \in PoolIds, NEW amount \in LPAmounts,
             Withdraw(u, pid, amount) \/ WithdrawAndHarvest(u, pid, amount)
      PROVE  KnowsIfTold'
  <2> DEFINE user == userInfo[pid][u]
             left == user.amount - amount
  <2>1. left \in Nat
    BY <1>5, StakeType, MiniChefAssumption DEF Withdraw, WithdrawAndHarvest
  <2>2. PICK debt : userInfo' = [userInfo EXCEPT ![pid][u] = [amount |-> left, debt |-> debt]]
    BY <1>5, PidIsKnown DEF Withdraw, WithdrawAndHarvest, ChefInv, StakesTyped
  <2> DEFINE stake == [amount |-> left, debt |-> debt]
  <2>3. userInfo' = [userInfo EXCEPT ![pid][u] = stake] /\ stake.amount = left
    BY <2>2
  <2> HIDE DEF stake
  <2>4. Notifies(pid, u, left)
    BY <1>5 DEF Withdraw, WithdrawAndHarvest
  <2> HIDE DEF left
  <2> QED BY <2>1, <2>3, <2>4, KnowsStake
<1>6. ASSUME NEW u \in Stakers, NEW pid \in PoolIds, NEW amount \in LPGifts, SendLP(u, pid, amount)
      PROVE  KnowsIfTold'
  BY <1>6, KnowsKept DEF SendLP, rewarderVars
<1>7. ASSUME NEW points \in AllocPoints, NEW rewarder \in Delegates, Add(points, rewarder)
      PROVE  KnowsIfTold'
  BY <1>7, KnowsKept DEF Add, rewarderVars
<1>8. ASSUME NEW pid \in PoolIds, NEW points \in AllocPoints, NEW rewarder \in Delegates,
             NEW overwrite \in BOOLEAN, Set(pid, points, rewarder, overwrite)
      PROVE  KnowsIfTold'
  BY <1>8, KnowsKept DEF Set, rewarderVars
<1>9. CASE \E rate \in SaddleRates : SetSaddlePerSecond(rate)
  BY <1>9, KnowsKept DEF SetSaddlePerSecond, rewarderVars
<1>10. CASE RewarderNext
  BY <1>10, KnowsKept
  DEF RewarderNext, chefVars, UpdateRewarder, SetRewardPerSecond, FundRewarder
<1>11. CASE Tick \/ UNCHANGED vars
  BY <1>11, KnowsKept DEF Tick, vars, chefVars, rewarderVars
<1>12. ASSUME NEW u \in Stakers, StakerNext(u) PROVE KnowsIfTold'
  BY <1>1, <1>2, <1>3, <1>4, <1>5, <1>6, <1>12 DEF StakerNext
<1> QED BY <1>7, <1>8, <1>9, <1>10, <1>11, <1>12 DEF Next, OwnerNext

(* What a step may do within a block.                                      *)
NobodyEarns ==
  \A u \in Stakers :
    /\ \A pid \in PoolIds : Entitled(pid, u)' <= Entitled(pid, u) + 1
    /\ \/ RewardEntitled(u)' <= RewardEntitled(u) + 1
       \/ LeavesUntold
       \/ untold /\ lpHeld[RewarderPid] = 0

LEMMA EntitledType ==
  ASSUME ChefInv, NEW pid \in PoolIds, NEW u \in Stakers
  PROVE  Entitled(pid, u) \in Int /\ Worth(userInfo[pid][u].amount, Updated(pid)) \in Nat
<1>1. saddleEarned[pid][u] \in Nat
  BY PidIsKnown DEF ChefInv, PaidTyped
<1>2. Worth(userInfo[pid][u].amount, Updated(pid)) \in Nat
  BY StakeType, UpdatedType, WorthType
<1> QED BY <1>1, <1>2, PendingType DEF Entitled

(* A pool that was updated in this block has its reward per share.         *)
LEMMA UpdatedOnce ==
  ASSUME ChefInv, NEW pid \in PoolIds, Updates(pid), UNCHANGED now
  PROVE  /\ PoolIds' = PoolIds
         /\ Updated(pid)'.acc = Updated(pid).acc
         /\ \A p \in PoolIds \ {pid} : poolInfo'[p] = poolInfo[p]
<1>1. /\ Updated(pid) \in Pool /\ Updated(pid).last = now
      /\ pid \in DOMAIN poolInfo /\ poolInfo \in Seq(Pool) /\ now \in Nat
  BY PidIsKnown, UpdatedType DEF ChefInv, PoolsTyped
<1>2. poolInfo' = [poolInfo EXCEPT ![pid] = Updated(pid)]
  BY DEF Updates
<1>3. /\ Len(poolInfo') = Len(poolInfo)
      /\ \A p \in 1 .. Len(poolInfo) : poolInfo'[p] = IF p = pid THEN Updated(pid) ELSE poolInfo[p]
  BY <1>1, <1>2
<1>4. poolInfo'[pid] = Updated(pid) /\ ~Due(pid)'
  BY <1>1, <1>3 DEF Due
<1>5. Updated(pid)' = [poolInfo'[pid] EXCEPT !.acc = @, !.last = now']
  BY <1>4 DEF Updated
<1>6. Updated(pid)'.acc = poolInfo'[pid].acc
  BY <1>1, <1>4, <1>5 DEF Pool
<1> QED BY <1>3, <1>4, <1>6 DEF PoolIds

(* An account whose stake and payments an operation leaves alone, in a     *)
(* pool whose reward per share it leaves alone.                            *)
LEMMA EntitledKept ==
  ASSUME NEW pid, NEW u, Updated(pid)'.acc = Updated(pid).acc,
         userInfo'[pid][u] = userInfo[pid][u], saddleEarned'[pid][u] = saddleEarned[pid][u]
  PROVE  Entitled(pid, u)' = Entitled(pid, u)
BY DEF Entitled, PendingSaddle, Worth

LEMMA OtherPoolKept ==
  ASSUME NEW pid, poolInfo'[pid] = poolInfo[pid], lpHeld'[pid] = lpHeld[pid],
         UNCHANGED <<now, totalAllocPoint, saddlePerSecond>>
  PROVE  Updated(pid)' = Updated(pid)
BY DEF Updated, Due, SaddleReward

(* An operation on u's stake in a pool that updates the pool first: nobody *)
(* gets more, if u does not.                                               *)
LEMMA OperationEarns ==
  ASSUME ChefInv, NEW pid \in PoolIds, NEW u \in Stakers, NEW stake, Updates(pid),
         UNCHANGED <<now, totalAllocPoint, saddlePerSecond>>,
         \A p \in Pids \ {pid} : lpHeld'[p] = lpHeld[p],
         userInfo' = [userInfo EXCEPT ![pid][u] = stake],
         \A p \in Pids, v \in Stakers : <<p, v>> # <<pid, u>> =>
            saddleEarned'[p][v] = saddleEarned[p][v],
         Entitled(pid, u)' <= Entitled(pid, u) + 1,
         NEW v \in Stakers, NEW p \in PoolIds
  PROVE  Entitled(p, v)' <= Entitled(p, v) + 1
<1>1. p \in Pids /\ pid \in Pids
  BY PidIsKnown
<1>2. Entitled(p, v) \in Int
  BY EntitledType
<1>3. /\ \A w \in Stakers \ {u} : userInfo'[pid][w] = userInfo[pid][w]
      /\ \A q \in Pids \ {pid} : userInfo'[q] = userInfo[q]
  BY StakeSet
<1>4. CASE p # pid
  <2>1. Updated(p)' = Updated(p)
    BY <1>1, <1>4, UpdatedOnce, OtherPoolKept
  <2>2. Entitled(p, v)' = Entitled(p, v)
    BY <1>1, <1>3, <1>4, <2>1, EntitledKept
  <2> QED BY <1>2, <2>2
<1>5. CASE p = pid /\ v # u
  <2>1. Entitled(p, v)' = Entitled(p, v)
    BY <1>1, <1>3, <1>5, UpdatedOnce, EntitledKept
  <2> QED BY <1>2, <2>1
<1> QED BY <1>4, <1>5

(* The rewarder: what it owes and has paid is unchanged by a report.       *)
LEMMA RewardEntitledType ==
  ASSUME ChefInv, NEW u \in Stakers PROVE RewardEntitled(u) \in Int
<1> DEFINE pool == RewarderUpdated(lpHeld[RewarderPid])
<1>1. pool \in [acc : Nat, last : Nat]
  BY RewarderUpdatedType, MiniChefAssumption DEF ChefInv, StakesTyped
<1> HIDE DEF pool
<1>2. rewarderUser[u].amount \in Nat /\ rewarderUser[u].debt \in Nat /\ rewardEarned[u] \in Nat
  BY DEF ChefInv, RewarderTyped
<1>3. rewarderUser[u].amount * pool.acc \in Nat
  BY <1>1, <1>2
<1>4. (rewarderUser[u].amount * pool.acc) \div ACC_TOKEN_PRECISION \in Nat
  BY <1>3, DivDef, RewarderAssumption
<1>5. PendingToken(u, pool) \in Int
  BY <1>2, <1>4 DEF PendingToken
<1> QED BY <1>2, <1>5 DEF RewardEntitled, pool

(* What it owes and has paid when its pool is up to date.                  *)
Owed(u) == rewardEarned[u] + PendingToken(u, rewarderPool)

LEMMA OwedNow ==
  ASSUME now' <= rewarderPool'.last, NEW u PROVE RewardEntitled(u)' = Owed(u)'
BY DEF RewardEntitled, RewarderUpdated, Owed

LEMMA ReportPays ==
  ASSUME ChefInv, NEW supply \in Nat, NEW amount \in Nat, NEW u \in Stakers,
         OnSaddleReward(u, amount, supply), UNCHANGED now, NEW v \in Stakers
  PROVE  /\ now' <= rewarderPool'.last
         /\ Owed(v)' = rewardEarned[v] + PendingToken(v, RewarderUpdated(supply))
<1> DEFINE pool    == RewarderUpdated(supply)
           pending == PendingToken(u, pool)
           debt    == (amount * pool.acc) \div ACC_TOKEN_PRECISION
<1>1. pool \in [acc : Nat, last : Nat]
  BY RewarderUpdatedType DEF ChefInv
<1>2. now <= pool.last
  BY DEF RewarderUpdated, ChefInv, RewarderTyped
<1>3. /\ 0 <= pending /\ pending <= rewardHeld
      /\ rewarderPool' = pool
      /\ rewarderUser' = [rewarderUser EXCEPT ![u] = [amount |-> amount, debt |-> debt]]
      /\ rewardEarned' = [rewardEarned EXCEPT ![u] = @ + pending]
  BY DEF OnSaddleReward
<1>4. debt \in Nat
  <2>1. amount * pool.acc \in Nat
    BY <1>1
  <2> QED BY <2>1, DivDef, RewarderAssumption
<1> HIDE DEF pool, pending, debt
<1>5. /\ rewarderUser \in [Stakers -> [amount : Nat, debt : Nat]]
      /\ rewardEarned \in [Stakers -> Nat]
  BY DEF ChefInv, RewarderTyped
<1>6. CASE v = u
  <2>1. rewarderUser'[u] = [amount |-> amount, debt |-> debt] /\ rewardEarned'[u] = rewardEarned[u] + pending
    BY <1>3, <1>5
  <2>2. PendingToken(u, rewarderPool)' = 0
    <3>1. PendingToken(u, rewarderPool)'
            = IF amount = 0 THEN 0 ELSE (amount * pool.acc) \div ACC_TOKEN_PRECISION - debt
      BY <1>3, <2>1 DEF PendingToken
    <3> QED BY <1>4, <3>1 DEF debt
  <2>3. pending \in Int
    <3>1. rewarderUser[u].amount \in Nat /\ rewarderUser[u].debt \in Nat
      BY <1>5
    <3>2. rewarderUser[u].amount * pool.acc \in Nat
      BY <1>1, <3>1
    <3>3. (rewarderUser[u].amount * pool.acc) \div ACC_TOKEN_PRECISION \in Nat
      BY <3>2, DivDef, RewarderAssumption
    <3> QED BY <3>1, <3>3 DEF pending, PendingToken
  <2>4. Owed(u)' = rewardEarned[u] + pending
    <3>1. Owed(u)' = rewardEarned'[u] + PendingToken(u, rewarderPool)'
      BY DEF Owed
    <3> QED BY <1>5, <2>1, <2>2, <2>3, <3>1
  <2> QED BY <1>2, <1>3, <1>6, <2>4 DEF pending, pool
<1>7. CASE v # u
  <2>1. rewarderUser'[v] = rewarderUser[v] /\ rewardEarned'[v] = rewardEarned[v]
    BY <1>3, <1>5, <1>7
  <2>2. Owed(v)' = rewardEarned[v] + PendingToken(v, pool)
    BY <1>3, <2>1 DEF Owed, PendingToken
  <2> QED BY <1>2, <1>3, <2>2 DEF pool
<1> QED BY <1>6, <1>7

(* A rewarder that is not asked: it owes the same at the same supply.      *)
LEMMA NotAsked ==
  ASSUME UNCHANGED <<now, rewarderVars>>, lpHeld'[RewarderPid] = lpHeld[RewarderPid], NEW v
  PROVE  RewardEntitled(v)' = RewardEntitled(v)
BY DEF rewarderVars, RewardEntitled, PendingToken, RewarderUpdated

(* A rewarder that knows of no stake.                                      *)
LEMMA KnowsNobody ==
  ASSUME UNCHANGED rewarderVars, NEW v, rewarderUser[v].amount = 0
  PROVE  RewardEntitled(v)' = RewardEntitled(v)
BY DEF rewarderVars, RewardEntitled, PendingToken

(* Where nothing is held nobody has a stake.                               *)
LEMMA NobodyStakes ==
  ASSUME ChefInv, NEW pid \in Pids, lpHeld[pid] = 0, NEW u \in Stakers
  PROVE  userInfo[pid][u].amount = 0
<1>1. \A v \in Stakers : Stakes(pid)[v] \in Nat /\ Stakes(pid)[v] = userInfo[pid][v].amount
  BY DEF ChefInv, StakesTyped, Stake, Stakes
<1>2. Stakes(pid)[u] <= SumFunctionOnSet(Stakes(pid), Stakers)
  BY <1>1, SumPart, MiniChefAssumption
<1>3. 0 >= SumFunctionOnSet(Stakes(pid), Stakers)
  BY StakesSum DEF ChefInv
<1>4. SumFunctionOnSet(Stakes(pid), Stakers) \in Nat
  BY <1>1, SumNat, MiniChefAssumption
<1> QED BY <1>1, <1>2, <1>3, <1>4

LEMMA WorthMonotone ==
  ASSUME NEW a \in Nat, NEW x \in Nat, NEW y \in Nat, x <= y, NEW m \in Nat \ {0}
  PROVE  (a * x) \div m \in Nat /\ (a * y) \div m \in Nat /\ (a * x) \div m <= (a * y) \div m
<1>1. a * x \in Nat /\ a * y \in Nat /\ a * x <= a * y /\ m <= m
  OBVIOUS
<1> QED BY <1>1, DivMonotone, DivDef

(* More tokens are held, and the rewarder is not asked: the others' shares *)
(* of what it makes are no larger.                                         *)
LEMMA HeldMore ==
  ASSUME ChefInv, KnowsIfTold, UNCHANGED <<now, rewarderVars>>, NEW v \in Stakers,
         lpHeld'[RewarderPid] \in Nat, lpHeld'[RewarderPid] >= lpHeld[RewarderPid]
  PROVE  \/ RewardEntitled(v)' <= RewardEntitled(v) + 1
         \/ untold /\ lpHeld[RewarderPid] = 0
<1> DEFINE user == rewarderUser[v]
           old  == RewarderUpdated(lpHeld[RewarderPid])
           new  == RewarderUpdated(lpHeld'[RewarderPid])
<1>1. /\ user.amount \in Nat /\ user.debt \in Nat /\ rewardEarned[v] \in Nat
      /\ RewarderPid \in Pids /\ lpHeld[RewarderPid] \in Nat
  BY MiniChefAssumption DEF ChefInv, StakesTyped, RewarderTyped
<1>2. RewardEntitled(v)' = rewardEarned[v] + PendingToken(v, new)
  BY DEF RewardEntitled, PendingToken, RewarderUpdated, rewarderVars
<1>3. RewardEntitled(v) = rewardEarned[v] + PendingToken(v, old)
  BY DEF RewardEntitled
<1>4. old.acc \in Nat /\ new.acc \in Nat
  BY <1>1, RewarderUpdatedType DEF ChefInv
<1>5. CASE user.amount = 0
  BY <1>5, KnowsNobody, RewardEntitledType
<1>6. CASE user.amount # 0 /\ ~(untold /\ lpHeld[RewarderPid] = 0)
  <2>1. lpHeld[RewarderPid] > 0
    <3>1. ASSUME ~untold, lpHeld[RewarderPid] = 0 PROVE FALSE
      <4>1. userInfo[RewarderPid][v].amount = 0
        BY <1>1, <3>1, NobodyStakes
      <4> QED BY <1>1, <1>6, <3>1, <4>1 DEF KnowsIfTold, RewarderKnows
    <3> QED BY <1>1, <1>6, <3>1
  <2>2. new.acc <= old.acc
    <3> DEFINE reward == ((now - rewarderPool.last) * rewardPerSecond) * ACC_TOKEN_PRECISION
    <3>1. CASE now <= rewarderPool.last
      BY <3>1, <1>4 DEF RewarderUpdated
    <3>2. CASE ~(now <= rewarderPool.last)
      <4>1. now - rewarderPool.last \in Nat /\ rewardPerSecond \in Nat /\ rewarderPool.acc \in Nat
        BY <3>2 DEF ChefInv, RewarderTyped
      <4>2. (now - rewarderPool.last) * rewardPerSecond \in Nat
        BY <4>1
      <4>3. reward \in Nat
        BY <4>2, RewarderAssumption
      <4> HIDE DEF reward
      <4>4. lpHeld[RewarderPid] \in Nat \ {0} /\ lpHeld'[RewarderPid] \in Nat \ {0}
            /\ lpHeld[RewarderPid] <= lpHeld'[RewarderPid]
        BY <1>1, <2>1
      <4>5. /\ reward \div lpHeld'[RewarderPid] <= reward \div lpHeld[RewarderPid]
            /\ reward \div lpHeld'[RewarderPid] \in Nat /\ reward \div lpHeld[RewarderPid] \in Nat
        <5>1. reward <= reward /\ lpHeld'[RewarderPid] \in Nat
          BY <4>3, <4>4
        <5>2. reward \div lpHeld'[RewarderPid] <= reward \div lpHeld[RewarderPid]
          BY <4>3, <4>4, <5>1, DivMonotone
        <5> QED BY <4>3, <4>4, <5>2, DivDef
      <4>6. /\ old.acc = rewarderPool.acc + reward \div lpHeld[RewarderPid]
            /\ new.acc = rewarderPool.acc + reward \div lpHeld'[RewarderPid]
        BY <3>2, <4>4 DEF RewarderUpdated, reward
      <4> QED BY <4>1, <4>5, <4>6
    <3> QED BY <3>1, <3>2
  <2> HIDE DEF old, new
  <2>3. /\ (user.amount * new.acc) \div ACC_TOKEN_PRECISION
             <= (user.amount * old.acc) \div ACC_TOKEN_PRECISION
        /\ (user.amount * new.acc) \div ACC_TOKEN_PRECISION \in Nat
        /\ (user.amount * old.acc) \div ACC_TOKEN_PRECISION \in Nat
    BY <1>1, <1>4, <2>2, WorthMonotone, RewarderAssumption
  <2> QED BY <1>1, <1>2, <1>3, <1>6, <2>3 DEF PendingToken
<1> QED BY <1>5, <1>6

LEMMA NotifiedPays ==
  ASSUME ChefInv, ChefInv', KnowsIfTold, NEW pid \in PoolIds, NEW u \in Stakers,
         NEW amount \in Nat, Notifies(pid, u, amount), UNCHANGED now,
         \A p \in Pids \ {pid} : lpHeld'[p] = lpHeld[p],
         NEW v \in Stakers
  PROVE  \/ RewardEntitled(v)' <= RewardEntitled(v) + 1
         \/ LeavesUntold
         \/ untold /\ lpHeld[RewarderPid] = 0
<1>1. CASE poolInfo[pid].rewarder = "simple"
  <2>1. pid = RewarderPid /\ OnSaddleReward(u, amount, lpHeld[RewarderPid])
        /\ lpHeld[RewarderPid] \in Nat
    BY <1>1, PidIsKnown DEF Notifies, ChefInv, StakesTyped
  <2>2. RewardEntitled(v)' = RewardEntitled(v)
    BY <2>1, ReportPays, OwedNow DEF RewardEntitled
  <2> QED BY <2>2, RewardEntitledType
<1>2. CASE poolInfo[pid].rewarder # "simple" /\ pid = RewarderPid
  <2>1. UNCHANGED <<now, rewarderVars>>
    BY <1>2 DEF Notifies
  <2>2. lpHeld[RewarderPid] \in Nat /\ lpHeld'[RewarderPid] \in Nat
    BY MiniChefAssumption DEF ChefInv, StakesTyped
  <2>3. CASE lpHeld'[RewarderPid] < lpHeld[RewarderPid]
    BY <1>2, <2>3 DEF LeavesUntold
  <2>4. CASE lpHeld'[RewarderPid] >= lpHeld[RewarderPid]
    BY <2>1, <2>2, <2>4, HeldMore
  <2> QED BY <2>2, <2>3, <2>4
<1>3. CASE poolInfo[pid].rewarder # "simple" /\ pid # RewarderPid
  <2>1. lpHeld'[RewarderPid] = lpHeld[RewarderPid] /\ UNCHANGED <<now, rewarderVars>>
    BY <1>3, MiniChefAssumption DEF Notifies
  <2>2. RewardEntitled(v)' = RewardEntitled(v)
    BY <2>1, NotAsked
  <2> QED BY <2>2, RewardEntitledType
<1> QED BY <1>1, <1>2, <1>3

-----------------------------------------------------------------------------
(* What an operation on a stake does to what it has earned.                *)
LEMMA WorthSum ==
  ASSUME NEW a \in Nat, NEW b \in Nat, NEW pool \in Pool
  PROVE  /\ Worth(a, pool) + Worth(b, pool) <= Worth(a + b, pool)
         /\ Worth(a + b, pool) <= Worth(a, pool) + Worth(b, pool) + 1
<1>1. pool.acc \in Nat
  BY DEF Pool
<1>2. a * pool.acc \in Nat /\ b * pool.acc \in Nat /\ (a + b) * pool.acc = a * pool.acc + b * pool.acc
  BY <1>1
<1> QED BY <1>2, DivSum, MiniChefAssumption DEF Worth

LEMMA EntitledAfter ==
  ASSUME ChefInv, NEW pid \in PoolIds, NEW u \in Stakers, NEW stake, Updates(pid), UNCHANGED now,
         userInfo' = [userInfo EXCEPT ![pid][u] = stake]
  PROVE  Entitled(pid, u)'
           = saddleEarned'[pid][u] + (Worth(stake.amount, Updated(pid)) - stake.debt)
<1>1. userInfo'[pid][u] = stake
  BY PidIsKnown DEF ChefInv, StakesTyped
<1>2. Updated(pid)'.acc = Updated(pid).acc
  BY UpdatedOnce
<1> QED BY <1>1, <1>2 DEF Entitled, PendingSaddle, Worth

LEMMA PaidAmounts ==
  ASSUME ChefInv, NEW pid \in PoolIds, NEW u \in Stakers, NEW amount \in Int, Pays(pid, u, amount)
  PROVE  /\ saddleEarned'[pid][u] = saddleEarned[pid][u] + amount
         /\ \A p \in Pids, v \in Stakers : <<p, v>> # <<pid, u>> =>
               saddleEarned'[p][v] = saddleEarned[p][v]
<1>1. pid \in Pids /\ saddleEarned \in [Pids -> [Stakers -> Nat]]
  BY PidIsKnown DEF ChefInv, PaidTyped
<1>2. saddleEarned' = [saddleEarned EXCEPT ![pid][u] = @ + amount]
  BY DEF Pays
<1> QED BY <1>1, <1>2

LEMMA DepositEarns ==
  ASSUME ChefInv, ChefInv', KnowsIfTold, NEW caller \in Stakers, NEW pid \in PoolIds,
         NEW amount \in LPAmounts, NEW to \in Stakers, Deposit(caller, pid, amount, to)
  PROVE  NobodyEarns
<1> DEFINE user  == userInfo[pid][to]
           pool  == Updated(pid)
           stake == [amount |-> user.amount + amount, debt |-> user.debt + Worth(amount, pool)]
<1>1. /\ pid \in Pids /\ amount \in Nat /\ user.amount \in Nat /\ user.debt \in Int
      /\ user.amount + amount \in Nat /\ pool \in Pool /\ saddleEarned[pid][to] \in Nat
  BY PidIsKnown, StakeType, UpdatedType, MiniChefAssumption DEF ChefInv, PaidTyped
<1>2. /\ Updates(pid) /\ Notifies(pid, to, user.amount + amount)
      /\ UNCHANGED <<now, totalAllocPoint, saddlePerSecond, saddleEarned>>
      /\ \A p \in Pids \ {pid} : lpHeld'[p] = lpHeld[p]
  BY <1>1 DEF Deposit, ChefInv, StakesTyped
<1>3. userInfo' = [userInfo EXCEPT ![pid][to] = stake]
  BY <1>1 DEF Deposit, ChefInv, StakesTyped
<1>4. stake.amount = user.amount + amount /\ stake.debt = user.debt + Worth(amount, pool)
  OBVIOUS
<1> HIDE DEF stake
<1>5. Entitled(pid, to)' <= Entitled(pid, to) + 1
  <2>1. Entitled(pid, to)' = saddleEarned[pid][to]
          + (Worth(user.amount + amount, pool) - (user.debt + Worth(amount, pool)))
    <3>1. Entitled(pid, to)' = saddleEarned'[pid][to] + (Worth(stake.amount, pool) - stake.debt)
      BY <1>2, <1>3, EntitledAfter
    <3> QED BY <1>2, <1>4, <3>1
  <2>2. Entitled(pid, to) = saddleEarned[pid][to] + (Worth(user.amount, pool) - user.debt)
    BY DEF Entitled, PendingSaddle
  <2>3. Worth(user.amount + amount, pool) <= Worth(user.amount, pool) + Worth(amount, pool) + 1
    BY <1>1, WorthSum
  <2>4. /\ Worth(user.amount + amount, pool) \in Nat /\ Worth(user.amount, pool) \in Nat
        /\ Worth(amount, pool) \in Nat
    BY <1>1, WorthType
  <2> QED BY <1>1, <2>1, <2>2, <2>3, <2>4
<1>6. ASSUME NEW v \in Stakers, NEW p \in PoolIds PROVE Entitled(p, v)' <= Entitled(p, v) + 1
  BY <1>2, <1>3, <1>5, OperationEarns
<1>7. ASSUME NEW v \in Stakers
      PROVE  \/ RewardEntitled(v)' <= RewardEntitled(v) + 1
             \/ LeavesUntold
             \/ untold /\ lpHeld[RewarderPid] = 0
  BY <1>1, <1>2, NotifiedPays
<1>8. PoolIds' = PoolIds
  BY <1>2, UpdatedOnce
<1> QED BY <1>6, <1>7, <1>8 DEF NobodyEarns

LEMMA WithdrawEarns ==
  ASSUME ChefInv, ChefInv', KnowsIfTold, NEW u \in Stakers, NEW pid \in PoolIds, NEW amount \in LPAmounts,
         Withdraw(u, pid, amount)
  PROVE  NobodyEarns
<1> DEFINE user  == userInfo[pid][u]
           pool  == Updated(pid)
           left  == user.amount - amount
           stake == [amount |-> left, debt |-> user.debt - Worth(amount, pool)]
<1>1. /\ pid \in Pids /\ amount \in Nat /\ user.amount \in Nat /\ user.debt \in Int
      /\ left \in Nat /\ pool \in Pool /\ saddleEarned[pid][u] \in Nat /\ left + amount = user.amount
  BY PidIsKnown, StakeType, UpdatedType, MiniChefAssumption DEF ChefInv, PaidTyped, Withdraw
<1>2. /\ Updates(pid) /\ Notifies(pid, u, left)
      /\ UNCHANGED <<now, totalAllocPoint, saddlePerSecond, saddleEarned>>
      /\ \A p \in Pids \ {pid} : lpHeld'[p] = lpHeld[p]
  BY <1>1 DEF Withdraw, Returns, ChefInv, StakesTyped
<1>3. userInfo' = [userInfo EXCEPT ![pid][u] = stake]
  BY <1>1 DEF Withdraw, ChefInv, StakesTyped
<1>4. stake.amount = left /\ stake.debt = user.debt - Worth(amount, pool)
  OBVIOUS
<1> HIDE DEF stake, left
<1>5. Entitled(pid, u)' <= Entitled(pid, u) + 1
  <2>1. Entitled(pid, u)'
          = saddleEarned[pid][u] + (Worth(left, pool) - (user.debt - Worth(amount, pool)))
    BY <1>2, <1>3, <1>4, EntitledAfter
  <2>2. Entitled(pid, u) = saddleEarned[pid][u] + (Worth(user.amount, pool) - user.debt)
    BY DEF Entitled, PendingSaddle
  <2>3. Worth(left, pool) + Worth(amount, pool) <= Worth(user.amount, pool)
    BY <1>1, WorthSum
  <2>4. /\ Worth(left, pool) \in Nat /\ Worth(user.amount, pool) \in Nat
        /\ Worth(amount, pool) \in Nat
    BY <1>1, WorthType
  <2> QED BY <1>1, <2>1, <2>2, <2>3, <2>4
<1>6. ASSUME NEW v \in Stakers, NEW p \in PoolIds PROVE Entitled(p, v)' <= Entitled(p, v) + 1
  BY <1>2, <1>3, <1>5, OperationEarns
<1>7. ASSUME NEW v \in Stakers
      PROVE  \/ RewardEntitled(v)' <= RewardEntitled(v) + 1
             \/ LeavesUntold
             \/ untold /\ lpHeld[RewarderPid] = 0
  BY <1>1, <1>2, NotifiedPays
<1>8. PoolIds' = PoolIds
  BY <1>2, UpdatedOnce
<1> QED BY <1>6, <1>7, <1>8 DEF NobodyEarns

LEMMA WithdrawAndHarvestEarns ==
  ASSUME ChefInv, ChefInv', KnowsIfTold, NEW u \in Stakers, NEW pid \in PoolIds, NEW amount \in LPAmounts,
         WithdrawAndHarvest(u, pid, amount)
  PROVE  NobodyEarns
<1> DEFINE user  == userInfo[pid][u]
           pool  == Updated(pid)
           left  == user.amount - amount
           stake == [amount |-> left, debt |-> Worth(user.amount, pool) - Worth(amount, pool)]
<1>1. /\ pid \in Pids /\ amount \in Nat /\ user.amount \in Nat /\ user.debt \in Int
      /\ left \in Nat /\ pool \in Pool /\ saddleEarned[pid][u] \in Nat /\ left + amount = user.amount
  BY PidIsKnown, StakeType, UpdatedType, MiniChefAssumption
  DEF ChefInv, PaidTyped, WithdrawAndHarvest
<1>2. /\ Updates(pid) /\ Notifies(pid, u, left)
      /\ UNCHANGED <<now, totalAllocPoint, saddlePerSecond>>
      /\ \A p \in Pids \ {pid} : lpHeld'[p] = lpHeld[p]
      /\ Pays(pid, u, PendingSaddle(pid, u))
  BY <1>1 DEF WithdrawAndHarvest, Returns, ChefInv, StakesTyped
<1>3. userInfo' = [userInfo EXCEPT ![pid][u] = stake]
  BY <1>1 DEF WithdrawAndHarvest, ChefInv, StakesTyped
<1>4. stake.amount = left /\ stake.debt = Worth(user.amount, pool) - Worth(amount, pool)
  OBVIOUS
<1> HIDE DEF stake, left
<1>5. /\ saddleEarned'[pid][u] = saddleEarned[pid][u] + PendingSaddle(pid, u)
      /\ \A p \in Pids, v \in Stakers : <<p, v>> # <<pid, u>> =>
            saddleEarned'[p][v] = saddleEarned[p][v]
  BY <1>2, PendingType, PaidAmounts
<1>6. Entitled(pid, u)' <= Entitled(pid, u) + 1
  <2>1. Entitled(pid, u)' = saddleEarned'[pid][u]
          + (Worth(left, pool) - (Worth(user.amount, pool) - Worth(amount, pool)))
    BY <1>2, <1>3, <1>4, EntitledAfter
  <2>2. Entitled(pid, u) = saddleEarned[pid][u] + PendingSaddle(pid, u)
    BY DEF Entitled
  <2>3. Worth(left, pool) + Worth(amount, pool) <= Worth(user.amount, pool)
    BY <1>1, WorthSum
  <2>4. /\ Worth(left, pool) \in Nat /\ Worth(user.amount, pool) \in Nat
        /\ Worth(amount, pool) \in Nat /\ PendingSaddle(pid, u) \in Int
    BY <1>1, WorthType, PendingType
  <2> QED BY <1>1, <1>5, <2>1, <2>2, <2>3, <2>4
<1>7. ASSUME NEW v \in Stakers, NEW p \in PoolIds PROVE Entitled(p, v)' <= Entitled(p, v) + 1
  BY <1>2, <1>3, <1>5, <1>6, OperationEarns
<1>8. ASSUME NEW v \in Stakers
      PROVE  \/ RewardEntitled(v)' <= RewardEntitled(v) + 1
             \/ LeavesUntold
             \/ untold /\ lpHeld[RewarderPid] = 0
  BY <1>1, <1>2, NotifiedPays
<1>9. PoolIds' = PoolIds
  BY <1>2, UpdatedOnce
<1> QED BY <1>7, <1>8, <1>9 DEF NobodyEarns

LEMMA HarvestEarns ==
  ASSUME ChefInv, ChefInv', KnowsIfTold, NEW u \in Stakers, NEW pid \in PoolIds, Harvest(u, pid)
  PROVE  NobodyEarns
<1> DEFINE user  == userInfo[pid][u]
           pool  == Updated(pid)
           stake == [user EXCEPT !.debt = Worth(user.amount, pool)]
<1>1. /\ pid \in Pids /\ user \in Stake /\ user.amount \in Nat
      /\ pool \in Pool /\ saddleEarned[pid][u] \in Nat
  BY PidIsKnown, StakeType, UpdatedType DEF ChefInv, PaidTyped
<1>2. /\ Updates(pid) /\ Notifies(pid, u, user.amount)
      /\ UNCHANGED <<now, totalAllocPoint, saddlePerSecond, lpHeld>>
      /\ Pays(pid, u, PendingSaddle(pid, u))
  BY DEF Harvest
<1>3. userInfo' = [userInfo EXCEPT ![pid][u] = stake]
  BY <1>1 DEF Harvest, ChefInv, StakesTyped
<1>4. stake.amount = user.amount /\ stake.debt = Worth(user.amount, pool)
  BY <1>1 DEF Stake
<1> HIDE DEF stake
<1>5. /\ saddleEarned'[pid][u] = saddleEarned[pid][u] + PendingSaddle(pid, u)
      /\ \A p \in Pids, v \in Stakers : <<p, v>> # <<pid, u>> =>
            saddleEarned'[p][v] = saddleEarned[p][v]
  BY <1>2, PendingType, PaidAmounts
<1>6. Entitled(pid, u)' <= Entitled(pid, u) + 1
  <2>1. Entitled(pid, u)'
          = saddleEarned'[pid][u] + (Worth(user.amount, pool) - Worth(user.amount, pool))
    BY <1>2, <1>3, <1>4, EntitledAfter
  <2>2. Entitled(pid, u) = saddleEarned[pid][u] + PendingSaddle(pid, u)
    BY DEF Entitled
  <2>3. Worth(user.amount, pool) \in Nat /\ PendingSaddle(pid, u) \in Int
    BY <1>1, WorthType, PendingType
  <2> QED BY <1>1, <1>5, <2>1, <2>2, <2>3
<1>7. ASSUME NEW v \in Stakers, NEW p \in PoolIds PROVE Entitled(p, v)' <= Entitled(p, v) + 1
  BY <1>2, <1>3, <1>5, <1>6, OperationEarns
<1>8. ASSUME NEW v \in Stakers
      PROVE  \/ RewardEntitled(v)' <= RewardEntitled(v) + 1
             \/ LeavesUntold
             \/ untold /\ lpHeld[RewarderPid] = 0
  BY <1>1, <1>2, NotifiedPays
<1>9. PoolIds' = PoolIds
  BY <1>2, UpdatedOnce
<1> QED BY <1>7, <1>8, <1>9 DEF NobodyEarns

LEMMA UpdatePoolEarns ==
  ASSUME ChefInv, NEW pid \in PoolIds, UpdatePool(pid) PROVE NobodyEarns
<1>1. Updates(pid) /\ UNCHANGED <<now, rewarderVars, userInfo, totalAllocPoint, saddlePerSecond,
                                  lpHeld, saddleEarned>>
  BY DEF UpdatePool
<1>2. PoolIds' = PoolIds
  BY <1>1, UpdatedOnce
<1>3. ASSUME NEW u \in Stakers, NEW p \in PoolIds PROVE Entitled(p, u)' <= Entitled(p, u) + 1
  <2>1. Updated(p)'.acc = Updated(p).acc
    BY <1>1, UpdatedOnce, OtherPoolKept
  <2>2. Entitled(p, u)' = Entitled(p, u)
    BY <1>1, <2>1, EntitledKept
  <2> QED BY <2>2, EntitledType
<1>4. ASSUME NEW u \in Stakers PROVE RewardEntitled(u)' <= RewardEntitled(u) + 1
  <2>1. RewardEntitled(u)' = RewardEntitled(u)
    BY <1>1, NotAsked
  <2> QED BY <2>1, RewardEntitledType
<1> QED BY <1>2, <1>3, <1>4 DEF NobodyEarns

(* Tokens sent to the contract dilute the reward of a pool that has stakes.*)
UpdatedTyped == \A pid \in PoolIds : Updated(pid).acc \in Nat
LEMMA AllUpdated == ChefInv => UpdatedTyped
BY UpdatedType DEF Pool, UpdatedTyped
LEMMA AllUpdatedNext == ChefInv' => UpdatedTyped'
BY AllUpdated, PTL

LEMMA Diluted ==
  ASSUME ChefInv, ChefInv', NEW pid \in PoolIds, lpHeld[pid] > 0, lpHeld'[pid] >= lpHeld[pid],
         UNCHANGED <<now, poolInfo, totalAllocPoint, saddlePerSecond>>
  PROVE  Updated(pid)'.acc <= Updated(pid).acc
<1> DEFINE reward == SaddleReward(pid) * ACC_SADDLE_PRECISION
<1>1. poolInfo[pid] \in Pool /\ lpHeld[pid] \in Nat \ {0} /\ lpHeld'[pid] \in Nat \ {0}
      /\ poolInfo[pid].acc \in Nat
  BY PidIsKnown DEF ChefInv, StakesTyped, Pool
<1>2. Due(pid)' = Due(pid) /\ SaddleReward(pid)' = SaddleReward(pid)
  BY <1>1 DEF Due, SaddleReward
<1>3. reward \in Nat
  BY SaddleRewardType, MiniChefAssumption
<1> HIDE DEF reward
<1>4. /\ Updated(pid).acc = IF Due(pid) THEN poolInfo[pid].acc + reward \div lpHeld[pid]
                                        ELSE poolInfo[pid].acc
      /\ Updated(pid)'.acc = IF Due(pid) THEN poolInfo[pid].acc + reward \div lpHeld'[pid]
                                         ELSE poolInfo[pid].acc
  BY <1>1, <1>2 DEF Updated, Pool, reward
<1>5. reward \div lpHeld'[pid] <= reward \div lpHeld[pid]
  BY <1>1, <1>3, DivMonotone
<1>6. reward \div lpHeld'[pid] \in Nat /\ reward \div lpHeld[pid] \in Nat
  BY <1>1, <1>3, DivDef
<1> QED BY <1>1, <1>4, <1>5, <1>6

LEMMA SendLPEarns ==
  ASSUME ChefInv, ChefInv', KnowsIfTold, NEW u \in Stakers, NEW pid \in PoolIds,
         NEW amount \in LPGifts, SendLP(u, pid, amount)
  PROVE  NobodyEarns
<1>1. /\ pid \in Pids /\ amount \in Nat
      /\ lpHeld'[pid] = lpHeld[pid] + amount
      /\ \A p \in Pids \ {pid} : lpHeld'[p] = lpHeld[p]
      /\ \A p \in Pids : lpHeld[p] \in Nat /\ lpHeld'[p] \in Nat /\ lpHeld'[p] >= lpHeld[p]
  BY PidIsKnown, MiniChefAssumption DEF SendLP, ChefInv, StakesTyped
<1>2. UNCHANGED <<now, rewarderVars, poolInfo, userInfo, totalAllocPoint, saddlePerSecond,
                  saddleEarned>>
  BY DEF SendLP
<1>3. PoolIds' = PoolIds
  BY <1>2 DEF PoolIds
<1>4. ASSUME NEW v \in Stakers, NEW p \in PoolIds PROVE Entitled(p, v)' <= Entitled(p, v) + 1
  <2> DEFINE user == userInfo[p][v]
  <2>1. /\ p \in Pids /\ user.amount \in Nat /\ user.debt \in Int /\ saddleEarned[p][v] \in Nat
        /\ Updated(p).acc \in Nat
    BY PidIsKnown, StakeType, UpdatedType DEF ChefInv, PaidTyped, Pool
  <2>2. Updated(p)'.acc \in Nat
    BY <1>3, AllUpdatedNext DEF UpdatedTyped
  <2>3. Worth(user.amount, Updated(p))' <= Worth(user.amount, Updated(p))
        /\ Worth(user.amount, Updated(p))' \in Nat /\ Worth(user.amount, Updated(p)) \in Nat
    <3>1. /\ Worth(user.amount, Updated(p)) = (user.amount * Updated(p).acc) \div ACC_SADDLE_PRECISION
          /\ Worth(user.amount, Updated(p))'
               = (user.amount * Updated(p)'.acc) \div ACC_SADDLE_PRECISION
      BY <1>2 DEF Worth
    <3>2. CASE lpHeld[p] = 0
      <4>1. user.amount = 0
        BY <2>1, <3>2, NobodyStakes
      <4>2. user.amount * Updated(p).acc = 0 /\ user.amount * Updated(p)'.acc = 0
        BY <2>1, <2>2, <4>1
      <4>3. 0 \div ACC_SADDLE_PRECISION \in Nat
        BY DivDef, MiniChefAssumption
      <4> QED BY <3>1, <4>2, <4>3
    <3>3. CASE lpHeld[p] > 0
      <4>1. Updated(p)'.acc <= Updated(p).acc
        BY <1>1, <1>2, <2>1, <3>3, Diluted
      <4>2. ACC_SADDLE_PRECISION \in Nat \ {0}
        BY MiniChefAssumption
      <4> DEFINE a == user.amount
                 x == Updated(p)'.acc
                 y == Updated(p).acc
      <4>3. a \in Nat /\ x \in Nat /\ y \in Nat /\ x <= y
        BY <2>1, <2>2, <4>1
      <4> HIDE DEF a, x, y
      <4>4. /\ (a * x) \div ACC_SADDLE_PRECISION \in Nat
            /\ (a * y) \div ACC_SADDLE_PRECISION \in Nat
            /\ (a * x) \div ACC_SADDLE_PRECISION <= (a * y) \div ACC_SADDLE_PRECISION
        BY <4>2, <4>3, WorthMonotone
      <4> QED BY <3>1, <4>4 DEF a, x, y
    <3> QED BY <1>1, <2>1, <3>2, <3>3
  <2>4. /\ Entitled(p, v) = saddleEarned[p][v] + (Worth(user.amount, Updated(p)) - user.debt)
        /\ Entitled(p, v)' = saddleEarned[p][v] + (Worth(user.amount, Updated(p))' - user.debt)
    BY <1>2 DEF Entitled, PendingSaddle
  <2> QED BY <2>1, <2>3, <2>4
<1>5. ASSUME NEW v \in Stakers
      PROVE  \/ RewardEntitled(v)' <= RewardEntitled(v) + 1
             \/ untold /\ lpHeld[RewarderPid] = 0
  <2>1. RewarderPid \in Pids
    BY MiniChefAssumption
  <2> QED BY <1>1, <1>2, <2>1, HeldMore
<1> QED BY <1>3, <1>4, <1>5 DEF NobodyEarns

(* Within a block no operation of a staker, by whomever, raises what       *)
(* anybody's stake has earned by more than a rounding unit: in SADDLE, in  *)
(* any pool, and in the rewarder's token.                                  *)
THEOREM OnlyTimeEverEarns == Spec => OnlyTimeEarns
<1> DEFINE Allowed == \/ now' # now
                      \/ OwnerNext \/ RewarderNext
                      \/ \E u \in Stakers, pid \in PoolIds : EmergencyWithdraw(u, pid)
                      \/ NobodyEarns
<1>1. ChefInv /\ ChefInv' /\ KnowsIfTold /\ [Next]_vars => [Allowed]_vars
  <2> SUFFICES ASSUME ChefInv, ChefInv', KnowsIfTold, Next PROVE Allowed
    OBVIOUS
  <2>1. ASSUME NEW u \in Stakers, StakerNext(u) PROVE Allowed
    BY <2>1, UpdatePoolEarns, HarvestEarns, DepositEarns, WithdrawEarns, WithdrawAndHarvestEarns,
       SendLPEarns
    DEF StakerNext
  <2>2. CASE Tick
    BY <2>2 DEF Tick, ChefInv
  <2> QED BY <2>1, <2>2 DEF Next
<1>2. Spec => []KnowsIfTold
  BY ChefInvariant, KnowsInit, KnowsNext, PTL DEF Spec
<1>3. [][Allowed]_vars <=> OnlyTimeEarns
  BY DEF NobodyEarns, OnlyTimeEarns
<1> HIDE DEF Allowed
<1> QED BY <1>1, <1>2, <1>3, ChefInvariant, PTL DEF Spec

-----------------------------------------------------------------------------
(* What is set aside for a pool covers what its stakers have got and can   *)
(* get.  In units of 1/m of a token, behind a stake a with debt d that has *)
(* been paid e there is, when a share has earned acc / m:                  *)
Pos(x) == IF x > 0 THEN x ELSE 0
Backed(a, d, e, acc, m) == Pos(a * acc - m * d) + m * e

LEMMA BackedType ==
  ASSUME NEW a \in Nat, NEW d \in Int, NEW e \in Nat, NEW acc \in Nat, NEW m \in Nat \ {0}
  PROVE  /\ Backed(a, d, e, acc, m) \in Nat
         /\ a * acc \in Nat /\ m * d \in Int /\ m * e \in Nat
<1>1. a * acc \in Nat /\ m * d \in Int /\ m * e \in Nat
  OBVIOUS
<1>2. a * acc - m * d \in Int
  BY <1>1
<1> QED BY <1>1, <1>2 DEF Backed, Pos

(* As a share earns more, so does every stake.                             *)
LEMMA BackedGrows ==
  ASSUME NEW a \in Nat, NEW d \in Int, NEW e \in Nat, NEW acc \in Nat, NEW m \in Nat \ {0},
         NEW x \in Nat
  PROVE  Backed(a, d, e, acc + x, m) <= Backed(a, d, e, acc, m) + x * a
<1> DEFINE p == a * acc
           q == m * d
           r == m * e
           s == x * a
<1>1. a * (acc + x) = p + s
  OBVIOUS
<1>2. p \in Nat /\ q \in Int /\ r \in Nat /\ s \in Nat
  OBVIOUS
<1> HIDE DEF p, q, r, s
<1>3. Pos(p + s - q) + r <= Pos(p - q) + r + s
  BY <1>2 DEF Pos
<1> QED BY <1>1, <1>3 DEF Backed, p, q, r, s

(* What can be paid is behind the stake.                                   *)
LEMMA BackedPays ==
  ASSUME NEW a \in Nat, NEW d \in Int, NEW e \in Nat, NEW acc \in Nat, NEW m \in Nat \ {0}
  PROVE  m * (e + Pos((a * acc) \div m - d)) <= Backed(a, d, e, acc, m)
<1> DEFINE w == (a * acc) \div m
           p == a * acc
<1>1. p \in Nat /\ w \in Nat /\ m * w <= p
  BY DivDef
<1> HIDE DEF w, p
<1>2. m * w \in Nat /\ m * d \in Int /\ m * e \in Nat /\ m * (w - d) = m * w - m * d
  BY <1>1
<1>3. CASE w - d > 0
  <2>1. m * (e + (w - d)) = m * e + (m * w - m * d)
    BY <1>1, <1>2
  <2>2. m * e + (m * w - m * d) <= m * e + (p - m * d)
    BY <1>1, <1>2
  <2>3. m * (w - d) > 0
    BY <1>1, <1>3
  <2>4. p - m * d > 0
    BY <1>1, <1>2, <2>3
  <2> QED BY <1>1, <1>2, <1>3, <2>1, <2>2, <2>4 DEF Pos, Backed, w, p
<1>4. CASE ~(w - d > 0)
  <2>1. Pos(w - d) = 0
    BY <1>4 DEF Pos
  <2>2. Pos(p - m * d) \in Nat
    BY <1>1, <1>2 DEF Pos
  <2> QED BY <1>2, <2>1, <2>2 DEF Backed, w, p
<1> QED BY <1>3, <1>4

(* A deposit's debt is rounded down: less than a unit is gained.           *)
LEMMA BackedDeposit ==
  ASSUME NEW a \in Nat, NEW d \in Int, NEW e \in Nat, NEW acc \in Nat, NEW m \in Nat \ {0},
         NEW b \in Nat
  PROVE  Backed(a + b, d + (b * acc) \div m, e, acc, m) <= Backed(a, d, e, acc, m) + m
<1> DEFINE w == (b * acc) \div m
           p == a * acc
           q == b * acc
<1>1. p \in Nat /\ q \in Nat /\ w \in Nat /\ m * w <= q /\ q < m * w + m
  BY DivDef
<1>2. (a + b) * acc = p + q
  OBVIOUS
<1> HIDE DEF w, p, q
<1>3. m * w \in Nat /\ m * d \in Int /\ m * e \in Nat /\ m * (d + w) = m * d + m * w
  BY <1>1
<1>4. Pos((p + q) - (m * d + m * w)) <= Pos(p - m * d) + m
  BY <1>1, <1>3 DEF Pos
<1>5. Pos((p + q) - (m * d + m * w)) \in Nat /\ Pos(p - m * d) \in Nat
  BY <1>1, <1>3 DEF Pos
<1>6. /\ Backed(a + b, d + w, e, acc, m) = Pos((p + q) - (m * d + m * w)) + m * e
      /\ Backed(a, d, e, acc, m) = Pos(p - m * d) + m * e
  BY <1>2, <1>3 DEF Backed, p
<1> QED BY <1>3, <1>4, <1>5, <1>6 DEF w

(* A withdrawal takes less off the debt than it earned: nothing is gained. *)
LEMMA BackedWithdraw ==
  ASSUME NEW a \in Nat, NEW d \in Int, NEW e \in Nat, NEW acc \in Nat, NEW m \in Nat \ {0},
         NEW b \in Nat, b <= a
  PROVE  Backed(a - b, d - (b * acc) \div m, e, acc, m) <= Backed(a, d, e, acc, m)
<1> DEFINE w == (b * acc) \div m
           p == a * acc
           q == b * acc
<1>1. p \in Nat /\ q \in Nat /\ w \in Nat /\ m * w <= q
  BY DivDef
<1>2. (a - b) * acc = p - q
  OBVIOUS
<1> HIDE DEF w, p, q
<1>3. m * w \in Nat /\ m * d \in Int /\ m * e \in Nat /\ m * (d - w) = m * d - m * w
  BY <1>1
<1>4. Pos((p - q) - (m * d - m * w)) <= Pos(p - m * d)
  BY <1>1, <1>3 DEF Pos
<1>5. Pos((p - q) - (m * d - m * w)) \in Nat /\ Pos(p - m * d) \in Nat
  BY <1>1, <1>3 DEF Pos
<1>6. /\ Backed(a - b, d - w, e, acc, m) = Pos((p - q) - (m * d - m * w)) + m * e
      /\ Backed(a, d, e, acc, m) = Pos(p - m * d) + m * e
  BY <1>2, <1>3 DEF Backed, p
<1> QED BY <1>3, <1>4, <1>5, <1>6 DEF w

(* What is paid leaves no more than a remainder: nothing is gained when    *)
(* the new stake has no more to its credit than that.                      *)
LEMMA BackedSettle ==
  ASSUME NEW a \in Nat, NEW d \in Int, NEW e \in Nat, NEW acc \in Nat, NEW m \in Nat \ {0},
         (a * acc) \div m - d >= 0,
         NEW b \in Nat, NEW f \in Int, NEW k \in Nat,
         b * acc - m * f <= a * acc - m * ((a * acc) \div m) + k
  PROVE  Backed(b, f, e + ((a * acc) \div m - d), acc, m) <= Backed(a, d, e, acc, m) + k
<1> DEFINE w == (a * acc) \div m
           p == a * acc
           q == b * acc
<1>1. p \in Nat /\ q \in Nat /\ w \in Nat /\ m * w <= p
  BY DivDef
<1>2. w - d >= 0 /\ q - m * f <= p - m * w + k
  OBVIOUS
<1> HIDE DEF w, p, q
<1>3. /\ m * w \in Nat /\ m * d \in Int /\ m * e \in Nat /\ m * f \in Int
      /\ m * (e + (w - d)) = m * e + m * w - m * d
      /\ m * (w - d) = m * w - m * d
  BY <1>1
<1>4. m * w - m * d >= 0
  <2>1. w - d \in Nat
    BY <1>1, <1>2
  <2>2. m * (w - d) \in Nat
    BY <2>1
  <2> QED BY <1>3, <2>2
<1>5. Pos(q - m * f) <= p - m * w + k /\ Pos(q - m * f) \in Nat
  BY <1>1, <1>2, <1>3 DEF Pos
<1>6. p - m * d <= Pos(p - m * d) /\ Pos(p - m * d) \in Nat
  BY <1>1, <1>3 DEF Pos
<1>7. /\ Backed(b, f, e + (w - d), acc, m) = Pos(q - m * f) + (m * e + m * w - m * d)
      /\ Backed(a, d, e, acc, m) = Pos(p - m * d) + m * e
  BY <1>3 DEF Backed, p, q
<1>8. Backed(b, f, e + (w - d), acc, m) <= Backed(a, d, e, acc, m) + k
  <2>1. m * e + m * w - m * d = m * e + (m * w - m * d)
    BY <1>3
  <2> DEFINE x == Pos(q - m * f)
             y == Pos(p - m * d)
             mw == m * w
             md == m * d
             me == m * e
  <2>2. /\ x \in Nat /\ y \in Nat /\ mw \in Nat /\ md \in Int /\ me \in Nat
        /\ x <= p - mw + k /\ p - md <= y
    BY <1>3, <1>5, <1>6
  <2> HIDE DEF x, y, mw, md, me
  <2>3. x + (me + (mw - md)) <= y + me + k
    BY <1>1, <2>2
  <2> QED BY <1>7, <2>1, <2>3 DEF x, y, mw, md, me
<1> QED BY <1>8 DEF w

-----------------------------------------------------------------------------
(* A share's growth by x is at most what x makes for all that is held.     *)
LEMMA SumGrows ==
  ASSUME NEW S, IsFiniteSet(S), NEW f, NEW g, NEW stake, NEW x \in Nat, NEW supply \in Nat,
         \A u \in S : /\ f[u] \in Nat /\ g[u] \in Nat /\ stake[u] \in Nat
                      /\ g[u] <= f[u] + x * stake[u],
         supply >= SumFunctionOnSet(stake, S)
  PROVE  SumFunctionOnSet(g, S) <= SumFunctionOnSet(f, S) + x * supply
<1> DEFINE more == [u \in S |-> x * stake[u]]
           all  == [u \in S |-> f[u] + more[u]]
           Sum(h) == SumFunctionOnSet(h, S)
<1>1. \A u \in S : more[u] \in Nat /\ all[u] \in Nat /\ more[u] = x * stake[u]
                   /\ all[u] = f[u] + more[u] /\ g[u] <= all[u]
  OBVIOUS
<1> HIDE DEF more, all
<1>2. Sum(g) <= Sum(all)
  <2>1. \A u \in S : g[u] \in Int /\ all[u] \in Int /\ g[u] <= all[u]
    BY <1>1
  <2> QED BY <2>1, SumMonotone
<1>3. Sum(all) = Sum(f) + Sum(more)
  <2>1. \A u \in S : f[u] \in Int /\ more[u] \in Int /\ all[u] = f[u] + more[u]
    BY <1>1
  <2> QED BY <2>1, SumPlus
<1>4. Sum(more) = x * Sum(stake)
  <2>1. x \in Int /\ \A u \in S : stake[u] \in Int /\ more[u] = x * stake[u]
    BY <1>1
  <2> QED BY <2>1, SumTimes
<1>5. Sum(f) \in Nat /\ Sum(stake) \in Nat /\ Sum(g) \in Nat
  BY SumNat
<1>6. Sum(stake) <= supply
  OBVIOUS
<1> HIDE DEF Sum
<1>7. x * Sum(stake) <= x * supply /\ x * Sum(stake) \in Nat /\ x * supply \in Nat
  BY <1>5, <1>6
<1>8. Sum(g) <= Sum(f) + x * supply
  BY <1>2, <1>3, <1>4, <1>5, <1>7
<1> QED BY <1>8 DEF Sum

BackedAt(pid, acc) ==
  [u \in Stakers |-> Backed(userInfo[pid][u].amount, userInfo[pid][u].debt,
                            saddleEarned[pid][u], acc, ACC_SADDLE_PRECISION)]

(* The inductive invariant: stored shares, debts and payments of a pool    *)
(* amount to no more than was set aside, and nobody is in a pool that has  *)
(* not been added.                                                         *)
PoolCovers(pid) ==
  SumFunctionOnSet(BackedAt(pid, poolInfo[pid].acc), Stakers)
    <= ACC_SADDLE_PRECISION * (saddleCredited[pid] + deposits[pid])

CreditInv ==
  /\ \A pid \in PoolIds : PoolCovers(pid)
  /\ \A pid \in Pids \ PoolIds, u \in Stakers :
       userInfo[pid][u] = [amount |-> 0, debt |-> 0] /\ saddleEarned[pid][u] = 0

LEMMA BackedAtType ==
  ASSUME ChefInv, NEW pid \in Pids, NEW acc \in Nat
  PROVE  \A u \in Stakers :
           /\ BackedAt(pid, acc)[u] \in Nat
           /\ BackedAt(pid, acc)[u] = Backed(userInfo[pid][u].amount, userInfo[pid][u].debt,
                                             saddleEarned[pid][u], acc, ACC_SADDLE_PRECISION)
<1> SUFFICES ASSUME NEW u \in Stakers
             PROVE  Backed(userInfo[pid][u].amount, userInfo[pid][u].debt,
                           saddleEarned[pid][u], acc, ACC_SADDLE_PRECISION) \in Nat
  BY DEF BackedAt
<1>1. /\ userInfo[pid][u].amount \in Nat /\ userInfo[pid][u].debt \in Int
      /\ saddleEarned[pid][u] \in Nat
  BY DEF ChefInv, StakesTyped, Stake, PaidTyped
<1>2. ACC_SADDLE_PRECISION \in Nat \ {0}
  BY MiniChefAssumption
<1> QED BY <1>1, <1>2, BackedType

(* Updated, a pool still covers its stakes: what the shares grow by, times *)
(* the stakes, is no more than the reward that is set aside.               *)
LEMMA UpdatedCredit ==
  ASSUME ChefInv, CreditInv, NEW pid \in PoolIds
  PROVE  SumFunctionOnSet(BackedAt(pid, Updated(pid).acc), Stakers)
           <= ACC_SADDLE_PRECISION * (saddleCredited[pid] + SaddleReward(pid) + deposits[pid])
<1> DEFINE m      == ACC_SADDLE_PRECISION
           old    == poolInfo[pid].acc
           reward == SaddleReward(pid)
           supply == lpHeld[pid]
           x      == (reward * m) \div supply
           Sum(h) == SumFunctionOnSet(h, Stakers)
<1>1. /\ pid \in Pids /\ old \in Nat /\ reward \in Nat /\ m \in Nat \ {0} /\ supply \in Nat
      /\ saddleCredited[pid] \in Nat /\ deposits[pid] \in Nat
  BY PidIsKnown, SaddleRewardType, MiniChefAssumption
  DEF Pool, ChefInv, StakesTyped, PoolsTyped
<1>2. Sum(BackedAt(pid, old)) <= m * (saddleCredited[pid] + deposits[pid])
  BY DEF CreditInv, PoolCovers
<1>3. Sum(BackedAt(pid, old)) \in Nat
  BY <1>1, BackedAtType, SumNat, MiniChefAssumption
<1>4. CASE Due(pid)
  <2>1. supply \in Nat \ {0}
    BY <1>1, <1>4 DEF Due
  <2>2. Updated(pid).acc = old + x
    BY <1>4, PidIsKnown DEF Updated, Pool
  <2>3. reward * m \in Nat
    BY <1>1
  <2>4. x \in Nat /\ supply * x <= reward * m
    BY <2>1, <2>3, DivDef
  <2> HIDE DEF x, reward, supply, m
  <2>5. Sum(BackedAt(pid, old + x)) <= Sum(BackedAt(pid, old)) + x * supply
    <3> DEFINE f == BackedAt(pid, old)
               g == BackedAt(pid, old + x)
               s == Stakes(pid)
    <3>1. ASSUME NEW u \in Stakers
          PROVE  /\ f[u] \in Nat /\ g[u] \in Nat /\ s[u] \in Nat
                 /\ g[u] <= f[u] + x * s[u]
      <4>1. /\ userInfo[pid][u].amount \in Nat /\ userInfo[pid][u].debt \in Int
            /\ saddleEarned[pid][u] \in Nat
        BY <1>1 DEF ChefInv, StakesTyped, Stake, PaidTyped
      <4>2. old + x \in Nat
        BY <1>1, <2>4
      <4>3. /\ f[u] \in Nat /\ g[u] \in Nat
            /\ f[u] = Backed(userInfo[pid][u].amount, userInfo[pid][u].debt,
                             saddleEarned[pid][u], old, m)
            /\ g[u] = Backed(userInfo[pid][u].amount, userInfo[pid][u].debt,
                             saddleEarned[pid][u], old + x, m)
        BY <1>1, <4>2, BackedAtType DEF m
      <4>4. s[u] = userInfo[pid][u].amount
        BY DEF Stakes
      <4> DEFINE a == userInfo[pid][u].amount
                 d == userInfo[pid][u].debt
                 e == saddleEarned[pid][u]
      <4> HIDE DEF f, g, s, old, a, d, e
      <4>5. Backed(a, d, e, old + x, m) <= Backed(a, d, e, old, m) + x * a
        <5>1. a \in Nat /\ d \in Int /\ e \in Nat
          BY <4>1 DEF a, d, e
        <5> QED BY <1>1, <2>4, <5>1, BackedGrows
      <4>6. g[u] <= f[u] + x * s[u]
        BY <4>3, <4>4, <4>5 DEF a, d, e
      <4> QED BY <4>1, <4>3, <4>4, <4>6
    <3>2. supply >= SumFunctionOnSet(s, Stakers)
      BY <1>1, StakesSum DEF ChefInv, supply
    <3> HIDE DEF f, g, s
    <3>3. Sum(g) <= Sum(f) + x * supply
      BY <1>1, <2>4, <3>1, <3>2, SumGrows, MiniChefAssumption
    <3> QED BY <3>3 DEF f, g
  <2>6. Sum(BackedAt(pid, old + x)) \in Nat
    <3>1. old + x \in Nat
      BY <1>1, <2>4
    <3> QED BY <1>1, <3>1, BackedAtType, SumNat, MiniChefAssumption
  <2> DEFINE a == Sum(BackedAt(pid, old))
             b == Sum(BackedAt(pid, old + x))
             c == saddleCredited[pid]
             d == deposits[pid]
  <2>7. /\ a \in Nat /\ b \in Nat /\ c \in Nat /\ d \in Nat
        /\ b <= a + x * supply /\ a <= m * (c + d)
    BY <1>1, <1>2, <1>3, <2>5, <2>6
  <2> HIDE DEF a, b, c, d
  <2>8. /\ m * (c + reward + d) = m * (c + d) + reward * m
        /\ m * (c + d) \in Nat /\ x * supply = supply * x /\ x * supply \in Nat
    BY <1>1, <2>4, <2>7
  <2>9. b <= m * (c + reward + d)
    BY <2>3, <2>4, <2>7, <2>8
  <2> QED BY <2>2, <2>9 DEF b, c, d, m, reward
<1>5. CASE ~Due(pid)
  <2>1. Updated(pid).acc = old
    BY <1>5, PidIsKnown DEF Updated, Pool
  <2>2. reward = 0
    BY <1>5 DEF SaddleReward
  <2>3. saddleCredited[pid] + reward + deposits[pid] = saddleCredited[pid] + deposits[pid]
    BY <1>1, <2>2
  <2> QED BY <1>2, <2>1, <2>3
<1> QED BY <1>4, <1>5

(* Whatever the owner sets and whenever: what the stakers of a pool have   *)
(* got and can harvest is covered.                                         *)
LEMMA CreditCovers == ChefInv /\ CreditInv => EarnedWithinCredit
<1> SUFFICES ASSUME ChefInv, CreditInv, NEW pid \in PoolIds
             PROVE  SumOver(LAMBDA u : Collectable(pid, u))
                      <= saddleCredited[pid] + SaddleReward(pid) + deposits[pid]
  BY DEF EarnedWithinCredit
<1> DEFINE m   == ACC_SADDLE_PRECISION
           acc == Updated(pid).acc
           f   == [u \in Stakers |-> Collectable(pid, u)]
           g   == BackedAt(pid, acc)
           h   == [u \in Stakers |-> m * f[u]]
           all == saddleCredited[pid] + SaddleReward(pid) + deposits[pid]
           Sum(k) == SumFunctionOnSet(k, Stakers)
<1>1. /\ pid \in Pids /\ acc \in Nat /\ m \in Nat \ {0} /\ all \in Nat
  <2>1. pid \in Pids /\ m \in Nat \ {0}
    BY PidIsKnown, MiniChefAssumption
  <2>2. acc \in Nat
    BY UpdatedType DEF Pool
  <2>3. SaddleReward(pid) \in Nat
    BY SaddleRewardType
  <2>4. saddleCredited[pid] \in Nat /\ deposits[pid] \in Nat
    BY <2>1 DEF ChefInv, StakesTyped, PoolsTyped
  <2> QED BY <2>1, <2>2, <2>3, <2>4
<1>2. ASSUME NEW u \in Stakers
      PROVE  f[u] \in Nat /\ g[u] \in Nat /\ m * f[u] <= g[u]
  <2> DEFINE a == userInfo[pid][u].amount
             d == userInfo[pid][u].debt
             e == saddleEarned[pid][u]
  <2>1. a \in Nat /\ d \in Int /\ e \in Nat
    BY <1>1 DEF ChefInv, StakesTyped, Stake, PaidTyped
  <2>2. PendingSaddle(pid, u) = (a * acc) \div m - d
    BY DEF PendingSaddle, Worth
  <2>3. f[u] = e + Pos((a * acc) \div m - d)
    BY <2>2 DEF Collectable, Pos
  <2>4. g[u] \in Nat /\ g[u] = Backed(a, d, e, acc, m)
    BY <1>1, BackedAtType
  <2>5. f[u] \in Nat
    BY <2>1, <2>2, PendingType DEF Collectable
  <2> HIDE DEF a, d, e, acc, f, g, m
  <2>6. m * (e + Pos((a * acc) \div m - d)) <= Backed(a, d, e, acc, m)
    BY <1>1, <2>1, BackedPays
  <2> QED BY <2>3, <2>4, <2>5, <2>6
<1> HIDE DEF f, g, acc
<1>3. \A u \in Stakers : h[u] \in Nat /\ h[u] = m * f[u] /\ h[u] <= g[u]
  BY <1>1, <1>2
<1> HIDE DEF h
<1>4. Sum(h) = m * Sum(f)
  <2>1. m \in Int /\ \A u \in Stakers : f[u] \in Int /\ h[u] = m * f[u]
    BY <1>1, <1>2, <1>3
  <2> HIDE DEF m
  <2> QED BY <2>1, SumTimes, MiniChefAssumption
<1>5. Sum(h) <= Sum(g)
  <2>1. \A u \in Stakers : h[u] \in Int /\ g[u] \in Int /\ h[u] <= g[u]
    BY <1>2, <1>3
  <2> QED BY <2>1, SumMonotone, MiniChefAssumption
<1>6. Sum(g) <= m * all
  BY UpdatedCredit DEF g, acc
<1>7. Sum(f) \in Nat /\ Sum(g) \in Nat /\ Sum(h) \in Nat
  BY <1>2, <1>3, SumNat, MiniChefAssumption
<1>8. SumOver(LAMBDA u : Collectable(pid, u)) = Sum(f)
  BY DEF SumOver, SumFunction, f
<1> HIDE DEF Sum, all, m
<1>9. Sum(f) <= all
  <2>1. m * Sum(f) <= m * all
    <3>1. m * Sum(f) \in Nat /\ m * all \in Nat
      BY <1>1, <1>7
    <3> QED BY <1>4, <1>5, <1>6, <1>7, <3>1
  <2>2. ~(Sum(f) >= all + 1)
    <3>1. SUFFICES ASSUME Sum(f) >= all + 1 PROVE FALSE
      OBVIOUS
    <3>2. m * Sum(f) >= m * (all + 1) /\ m * (all + 1) = m * all + m /\ m * all \in Nat
          /\ m * Sum(f) \in Nat
      BY <1>1, <1>7, <3>1
    <3> QED BY <1>1, <2>1, <3>2
  <2> QED BY <1>1, <1>7, <2>2
<1> QED BY <1>8, <1>9 DEF all

(* A function that differs from another at one index, by k at most.        *)
LEMMA SumOneGrows ==
  ASSUME NEW S, IsFiniteSet(S), NEW f, NEW g, NEW u \in S, NEW k \in Nat,
         \A v \in S : f[v] \in Int /\ g[v] \in Int,
         \A v \in S \ {u} : g[v] = f[v],
         g[u] <= f[u] + k
  PROVE  SumFunctionOnSet(g, S) <= SumFunctionOnSet(f, S) + k
<1> DEFINE R == S \ {u}
<1>1. IsFiniteSet(R)
  BY FS_Subset
<1>2. /\ SumFunctionOnSet(f, S) = f[u] + SumFunctionOnSet(f, R)
      /\ SumFunctionOnSet(g, S) = g[u] + SumFunctionOnSet(g, R)
  BY SumRemove
<1>3. \A v \in R : f[v] \in Int /\ f[v] = g[v]
  OBVIOUS
<1> HIDE DEF R
<1>4. SumFunctionOnSet(f, R) = SumFunctionOnSet(g, R) /\ SumFunctionOnSet(f, R) \in Int
  BY <1>1, <1>3, SumCongruent, SumInt
<1> QED BY <1>2, <1>4

(* A pool that nothing happens to stays covered.                           *)
LEMMA PoolKept ==
  ASSUME NEW pid, poolInfo'[pid].acc = poolInfo[pid].acc, userInfo'[pid] = userInfo[pid],
         saddleEarned'[pid] = saddleEarned[pid], saddleCredited'[pid] = saddleCredited[pid],
         deposits'[pid] = deposits[pid], PoolCovers(pid)
  PROVE  PoolCovers(pid)'
BY DEF PoolCovers, BackedAt

(* An operation on u's stake that updates the pool first and leaves no     *)
(* more than k units behind the stake that were not there.                 *)
LEMMA CreditStep ==
  ASSUME ChefInv, ChefInv', CreditInv, NEW u \in Stakers, NEW pid \in PoolIds, NEW k \in {0, 1},
         NEW stake, Updates(pid),
         userInfo' = [userInfo EXCEPT ![pid][u] = stake],
         \A p \in Pids, v \in Stakers : <<p, v>> # <<pid, u>> =>
            saddleEarned'[p][v] = saddleEarned[p][v],
         \A p \in Pids : deposits'[p] = IF p = pid THEN deposits[p] + k ELSE deposits[p],
         Backed(stake.amount, stake.debt, saddleEarned'[pid][u], Updated(pid).acc,
                ACC_SADDLE_PRECISION)
           <= Backed(userInfo[pid][u].amount, userInfo[pid][u].debt, saddleEarned[pid][u],
                     Updated(pid).acc, ACC_SADDLE_PRECISION) + ACC_SADDLE_PRECISION * k
  PROVE  CreditInv'
<1>1. /\ userInfo'[pid][u] = stake
      /\ \A v \in Stakers \ {u} : userInfo'[pid][v] = userInfo[pid][v]
      /\ \A p \in Pids \ {pid} : userInfo'[p] = userInfo[p]
  BY StakeSet
<1>2. /\ pid \in Pids /\ pid \in DOMAIN poolInfo /\ poolInfo \in Seq(Pool) /\ PoolIds \subseteq Pids
      /\ Updated(pid) \in Pool
  BY PidIsKnown, UpdatedType DEF ChefInv, PoolsTyped
<1>3. poolInfo' = [poolInfo EXCEPT ![pid] = Updated(pid)]
  BY DEF Updates
<1>4. /\ PoolIds' = PoolIds /\ poolInfo'[pid] = Updated(pid)
      /\ \A p \in PoolIds \ {pid} : poolInfo'[p] = poolInfo[p]
  BY <1>2, <1>3 DEF PoolIds
<1>5. saddleCredited \in [Pids -> Nat] /\ deposits \in [Pids -> Nat]
  BY DEF ChefInv, PoolsTyped
<1>6. saddleCredited' = [saddleCredited EXCEPT ![pid] = @ + SaddleReward(pid)]
  BY DEF Updates
<1>7. ASSUME NEW p \in PoolIds \ {pid} PROVE PoolCovers(p)'
  <2>1. p \in Pids /\ p # pid
    BY <1>2
  <2>2. saddleEarned'[p] = saddleEarned[p]
    <3>1. saddleEarned \in [Pids -> [Stakers -> Nat]] /\ saddleEarned' \in [Pids -> [Stakers -> Nat]]
      BY DEF ChefInv, PaidTyped
    <3>2. \A v \in Stakers : saddleEarned'[p][v] = saddleEarned[p][v]
      BY <2>1
    <3>3. saddleEarned[p] \in [Stakers -> Nat] /\ saddleEarned'[p] \in [Stakers -> Nat]
      BY <2>1, <3>1
    <3> QED BY <3>2, <3>3
  <2>3. userInfo'[p] = userInfo[p] /\ poolInfo'[p].acc = poolInfo[p].acc
    BY <1>1, <1>4, <2>1
  <2>4. saddleCredited'[p] = saddleCredited[p] /\ deposits'[p] = deposits[p]
    BY <1>5, <1>6, <2>1
  <2>5. PoolCovers(p)
    BY DEF CreditInv
  <2> QED BY <2>2, <2>3, <2>4, <2>5, PoolKept
<1>8. PoolCovers(pid)'
  <2> DEFINE m   == ACC_SADDLE_PRECISION
             acc == Updated(pid).acc
             f   == BackedAt(pid, acc)
             g   == [v \in Stakers |-> Backed(userInfo'[pid][v].amount, userInfo'[pid][v].debt,
                                              saddleEarned'[pid][v], acc, m)]
             c   == saddleCredited[pid]
             r   == SaddleReward(pid)
             d   == deposits[pid]
             Sum(h) == SumFunctionOnSet(h, Stakers)
  <2>1. m \in Nat \ {0} /\ acc \in Nat
    BY <1>2, MiniChefAssumption DEF Pool
  <2>2. c \in Nat /\ r \in Nat /\ d \in Nat
    BY <1>2, <1>5, SaddleRewardType
  <2>3. saddleCredited'[pid] = c + r /\ deposits'[pid] = d + k
    BY <1>2, <1>5, <1>6
  <2>4. \A v \in Stakers : f[v] \in Nat /\
          f[v] = Backed(userInfo[pid][v].amount, userInfo[pid][v].debt,
                        saddleEarned[pid][v], acc, m)
    BY <1>2, <2>1, BackedAtType
  <2>5. ASSUME NEW v \in Stakers PROVE g[v] \in Nat
    <3>1. /\ userInfo'[pid][v].amount \in Nat /\ userInfo'[pid][v].debt \in Int
          /\ saddleEarned'[pid][v] \in Nat
      BY <1>2 DEF ChefInv, StakesTyped, Stake, PaidTyped
    <3> HIDE DEF acc, m
    <3>2. Backed(userInfo'[pid][v].amount, userInfo'[pid][v].debt, saddleEarned'[pid][v], acc, m)
            \in Nat
      BY <2>1, <3>1, BackedType
    <3> QED BY <3>2
  <2>6. \A v \in Stakers \ {u} : g[v] = f[v]
    <3>1. \A v \in Stakers \ {u} : saddleEarned'[pid][v] = saddleEarned[pid][v]
      BY <1>2
    <3> HIDE DEF acc, m, f
    <3> QED BY <1>1, <2>4, <3>1
  <2>7. g[u] <= f[u] + m * k
    <3>1. g[u] = Backed(stake.amount, stake.debt, saddleEarned'[pid][u], acc, m)
      BY <1>1
    <3> HIDE DEF f, g
    <3> QED BY <2>4, <3>1
  <2>8. PoolCovers(pid)' <=> Sum(g) <= m * ((c + r) + (d + k))
    BY <1>4, <2>3 DEF PoolCovers, BackedAt
  <2>9. Sum(f) <= m * (c + r + d)
    BY UpdatedCredit
  <2> HIDE DEF f, g, acc, m, c, r, d
  <2>10. m * k \in Nat /\ k \in Nat
    BY <2>1
  <2>11. Sum(g) <= Sum(f) + m * k
    <3>1. \A v \in Stakers : f[v] \in Int /\ g[v] \in Int
      BY <2>4, <2>5
    <3> QED BY <2>6, <2>7, <2>10, <3>1, SumOneGrows, MiniChefAssumption
  <2>12. Sum(f) \in Nat /\ Sum(g) \in Nat
    BY <2>4, <2>5, SumNat, MiniChefAssumption
  <2>13. m * ((c + r) + (d + k)) = m * (c + r + d) + m * k /\ m * (c + r + d) \in Nat
    BY <2>1, <2>2, <2>10
  <2> HIDE DEF Sum
  <2> QED BY <2>8, <2>9, <2>10, <2>11, <2>12, <2>13
<1>9. \A p \in Pids \ PoolIds, v \in Stakers :
         userInfo'[p][v] = [amount |-> 0, debt |-> 0] /\ saddleEarned'[p][v] = 0
  BY <1>1 DEF CreditInv
<1> QED BY <1>4, <1>7, <1>8, <1>9 DEF CreditInv

-----------------------------------------------------------------------------
(* What each operation leaves behind the stake it is about.                *)
LEMMA StakeFacts ==
  ASSUME ChefInv, NEW pid \in PoolIds, NEW u \in Stakers
  PROVE  /\ pid \in Pids
         /\ userInfo[pid][u].amount \in Nat /\ userInfo[pid][u].debt \in Int
         /\ saddleEarned[pid][u] \in Nat
         /\ Updated(pid).acc \in Nat /\ ACC_SADDLE_PRECISION \in Nat \ {0}
BY PidIsKnown, StakeType, UpdatedType, MiniChefAssumption DEF ChefInv, PaidTyped, Pool

LEMMA DepositCredit ==
  ASSUME ChefInv, ChefInv', CreditInv, NEW caller \in Stakers, NEW pid \in PoolIds,
         NEW amount \in LPAmounts, NEW to \in Stakers, Deposit(caller, pid, amount, to)
  PROVE  CreditInv'
<1> DEFINE m   == ACC_SADDLE_PRECISION
           acc == Updated(pid).acc
           a   == userInfo[pid][to].amount
           d   == userInfo[pid][to].debt
           e   == saddleEarned[pid][to]
           stake == [amount |-> a + amount, debt |-> d + (amount * acc) \div m]
<1>1. /\ pid \in Pids /\ a \in Nat /\ d \in Int /\ e \in Nat /\ acc \in Nat /\ m \in Nat \ {0}
      /\ amount \in Nat
  BY StakeFacts, MiniChefAssumption
<1>2. Updates(pid) /\ UNCHANGED saddleEarned
  BY DEF Deposit
<1>3. userInfo' = [userInfo EXCEPT ![pid][to] = stake]
  BY <1>1 DEF Deposit, Worth, ChefInv, StakesTyped
<1>4. \A p \in Pids : deposits'[p] = IF p = pid THEN deposits[p] + 1 ELSE deposits[p]
  BY <1>1 DEF Deposit, ChefInv, PoolsTyped
<1>5. stake.amount = a + amount /\ stake.debt = d + (amount * acc) \div m /\ saddleEarned'[pid][to] = e
  BY <1>2
<1> HIDE DEF stake, m, acc, a, d, e
<1>6. Backed(a + amount, d + (amount * acc) \div m, e, acc, m) <= Backed(a, d, e, acc, m) + m
  BY <1>1, BackedDeposit
<1>7. Backed(stake.amount, stake.debt, saddleEarned'[pid][to], acc, m)
        <= Backed(a, d, e, acc, m) + m * 1
  <2>1. m * 1 = m
    BY <1>1
  <2> QED BY <1>5, <1>6, <2>1
<1> QED BY <1>2, <1>3, <1>4, <1>7, CreditStep DEF m, acc, a, d, e

LEMMA WithdrawCredit ==
  ASSUME ChefInv, ChefInv', CreditInv, NEW u \in Stakers, NEW pid \in PoolIds,
         NEW amount \in LPAmounts, Withdraw(u, pid, amount)
  PROVE  CreditInv'
<1> DEFINE m   == ACC_SADDLE_PRECISION
           acc == Updated(pid).acc
           a   == userInfo[pid][u].amount
           d   == userInfo[pid][u].debt
           e   == saddleEarned[pid][u]
           stake == [amount |-> a - amount, debt |-> d - (amount * acc) \div m]
<1>1. /\ pid \in Pids /\ a \in Nat /\ d \in Int /\ e \in Nat /\ acc \in Nat /\ m \in Nat \ {0}
      /\ amount \in Nat
  BY StakeFacts, MiniChefAssumption
<1>2. Updates(pid) /\ UNCHANGED <<saddleEarned, deposits>> /\ amount <= a
  BY DEF Withdraw
<1>3. userInfo' = [userInfo EXCEPT ![pid][u] = stake]
  BY <1>1 DEF Withdraw, Worth, ChefInv, StakesTyped
<1>4. \A p \in Pids : deposits'[p] = IF p = pid THEN deposits[p] + 0 ELSE deposits[p]
  BY <1>2 DEF ChefInv, PoolsTyped
<1>5. stake.amount = a - amount /\ stake.debt = d - (amount * acc) \div m /\ saddleEarned'[pid][u] = e
  BY <1>2
<1> HIDE DEF stake, m, acc, a, d, e
<1>6. Backed(a - amount, d - (amount * acc) \div m, e, acc, m) <= Backed(a, d, e, acc, m)
  BY <1>1, <1>2, BackedWithdraw
<1>7. Backed(stake.amount, stake.debt, saddleEarned'[pid][u], acc, m)
        <= Backed(a, d, e, acc, m) + m * 0
  <2>1. m * 0 = 0 /\ Backed(a, d, e, acc, m) \in Nat
    BY <1>1, BackedType
  <2> QED BY <1>5, <1>6, <2>1
<1> QED BY <1>2, <1>3, <1>4, <1>7, CreditStep DEF m, acc, a, d, e

(* A harvest, with or without a withdrawal: what is paid is what a stake   *)
(* has to its credit but for a remainder; what is left has no more.        *)
LEMMA SettledCredit ==
  ASSUME ChefInv, ChefInv', CreditInv, NEW u \in Stakers, NEW pid \in PoolIds,
         NEW stake, NEW left \in Nat, NEW debt \in Int,
         Updates(pid), UNCHANGED deposits, Pays(pid, u, PendingSaddle(pid, u)),
         userInfo' = [userInfo EXCEPT ![pid][u] = stake],
         stake.amount = left, stake.debt = debt,
         left * Updated(pid).acc - ACC_SADDLE_PRECISION * debt
           <= userInfo[pid][u].amount * Updated(pid).acc
                - ACC_SADDLE_PRECISION * Worth(userInfo[pid][u].amount, Updated(pid))
  PROVE  CreditInv'
<1> DEFINE m   == ACC_SADDLE_PRECISION
           acc == Updated(pid).acc
           a   == userInfo[pid][u].amount
           d   == userInfo[pid][u].debt
           e   == saddleEarned[pid][u]
           pending == PendingSaddle(pid, u)
<1>1. /\ pid \in Pids /\ a \in Nat /\ d \in Int /\ e \in Nat /\ acc \in Nat /\ m \in Nat \ {0}
  BY StakeFacts
<1>2. pending \in Int /\ pending = (a * acc) \div m - d
  BY PendingType DEF PendingSaddle, Worth
<1>3. /\ saddleEarned'[pid][u] = e + pending
      /\ \A p \in Pids, v \in Stakers : <<p, v>> # <<pid, u>> =>
            saddleEarned'[p][v] = saddleEarned[p][v]
  BY <1>2, PaidAmounts
<1>4. pending >= 0
  BY <1>2 DEF Pays
<1>5. \A p \in Pids : deposits'[p] = IF p = pid THEN deposits[p] + 0 ELSE deposits[p]
  BY DEF ChefInv, PoolsTyped
<1>6. left * acc - m * debt <= a * acc - m * ((a * acc) \div m)
  BY DEF Worth
<1> HIDE DEF m, acc, a, d, e, pending
<1>7. Backed(left, debt, e + ((a * acc) \div m - d), acc, m) <= Backed(a, d, e, acc, m) + 0
  <2>1. left * acc - m * debt <= a * acc - m * ((a * acc) \div m) + 0
    <3>1. a * acc \in Nat /\ (a * acc) \div m \in Nat
      BY <1>1, DivDef
    <3>2. left * acc \in Nat /\ m * debt \in Int /\ m * ((a * acc) \div m) \in Nat
      BY <1>1, <3>1
    <3> QED BY <1>6, <3>1, <3>2
  <2>2. (a * acc) \div m - d >= 0
    BY <1>2, <1>4
  <2> QED BY <1>1, <2>1, <2>2, BackedSettle
<1>8. Backed(stake.amount, stake.debt, saddleEarned'[pid][u], acc, m)
        <= Backed(a, d, e, acc, m) + m * 0
  <2>1. m * 0 = 0
    BY <1>1
  <2> QED BY <1>2, <1>3, <1>7, <2>1
<1> QED BY <1>3, <1>5, <1>8, CreditStep DEF m, acc, a, d, e

LEMMA HarvestCredit ==
  ASSUME ChefInv, ChefInv', CreditInv, NEW u \in Stakers, NEW pid \in PoolIds, Harvest(u, pid)
  PROVE  CreditInv'
<1> DEFINE user  == userInfo[pid][u]
           pool  == Updated(pid)
           stake == [user EXCEPT !.debt = Worth(user.amount, pool)]
<1>1. /\ pid \in Pids /\ user \in Stake /\ user.amount \in Nat /\ pool \in Pool
      /\ pool.acc \in Nat /\ ACC_SADDLE_PRECISION \in Nat \ {0}
  BY PidIsKnown, StakeType, UpdatedType, StakeFacts
<1>2. Updates(pid) /\ UNCHANGED deposits /\ Pays(pid, u, PendingSaddle(pid, u))
  BY DEF Harvest
<1>3. userInfo' = [userInfo EXCEPT ![pid][u] = stake]
  BY <1>1 DEF Harvest, ChefInv, StakesTyped
<1>4. stake.amount = user.amount /\ stake.debt = Worth(user.amount, pool)
  BY <1>1 DEF Stake
<1>5. Worth(user.amount, pool) \in Int
  BY <1>1, WorthType
<1> HIDE DEF stake, user, pool
<1>6. user.amount * pool.acc - ACC_SADDLE_PRECISION * Worth(user.amount, pool)
        <= user.amount * pool.acc - ACC_SADDLE_PRECISION * Worth(user.amount, pool)
  <2>1. user.amount * pool.acc \in Int /\ ACC_SADDLE_PRECISION * Worth(user.amount, pool) \in Int
    BY <1>1, <1>5
  <2> QED BY <2>1
<1> QED BY <1>1, <1>2, <1>3, <1>4, <1>5, <1>6, SettledCredit DEF user, pool

LEMMA WithdrawAndHarvestCredit ==
  ASSUME ChefInv, ChefInv', CreditInv, NEW u \in Stakers, NEW pid \in PoolIds,
         NEW amount \in LPAmounts, WithdrawAndHarvest(u, pid, amount)
  PROVE  CreditInv'
<1> DEFINE user  == userInfo[pid][u]
           pool  == Updated(pid)
           acc   == pool.acc
           m     == ACC_SADDLE_PRECISION
           a     == user.amount
           left  == a - amount
           debt  == Worth(a, pool) - Worth(amount, pool)
           stake == [amount |-> left, debt |-> debt]
<1>1. /\ pid \in Pids /\ amount \in Nat /\ a \in Nat /\ pool \in Pool /\ left \in Nat
      /\ acc \in Nat /\ m \in Nat \ {0}
  BY PidIsKnown, StakeType, UpdatedType, StakeFacts, MiniChefAssumption DEF WithdrawAndHarvest
<1>2. Updates(pid) /\ UNCHANGED deposits /\ Pays(pid, u, PendingSaddle(pid, u))
  BY DEF WithdrawAndHarvest
<1>3. userInfo' = [userInfo EXCEPT ![pid][u] = stake]
  BY <1>1 DEF WithdrawAndHarvest, ChefInv, StakesTyped
<1>4. stake.amount = left /\ stake.debt = debt
  OBVIOUS
<1>5. Worth(a, pool) \in Nat /\ Worth(amount, pool) \in Nat /\ debt \in Int
  BY <1>1, WorthType
<1>6. left * acc - m * debt <= a * acc - m * Worth(a, pool)
  <2> DEFINE v == Worth(a, pool)
             w == Worth(amount, pool)
  <2>1. m * w <= amount * acc /\ amount * acc \in Nat
    <3>1. amount * acc \in Nat
      BY <1>1
    <3> QED BY <1>1, <3>1, DivDef DEF Worth
  <2>2. v \in Nat /\ w \in Nat
    BY <1>5
  <2> HIDE DEF v, w, acc, m, a
  <2>3. /\ (a - amount) * acc = a * acc - amount * acc
        /\ m * (v - w) = m * v - m * w
        /\ m * v \in Nat /\ m * w \in Nat /\ a * acc \in Nat
    BY <1>1, <2>2
  <2> QED BY <2>1, <2>3 DEF v, w
<1> HIDE DEF stake, left, debt
<1> QED BY <1>1, <1>2, <1>3, <1>4, <1>5, <1>6, SettledCredit

LEMMA UpdatePoolCredit ==
  ASSUME ChefInv, ChefInv', CreditInv, NEW u \in Stakers, NEW pid \in PoolIds, UpdatePool(pid)
  PROVE  CreditInv'
<1> DEFINE m   == ACC_SADDLE_PRECISION
           acc == Updated(pid).acc
           stake == userInfo[pid][u]
           e   == saddleEarned[pid][u]
<1>1. /\ pid \in Pids /\ stake.amount \in Nat /\ stake.debt \in Int /\ e \in Nat /\ acc \in Nat
      /\ m \in Nat \ {0}
  BY StakeFacts
<1>2. Updates(pid) /\ UNCHANGED <<userInfo, saddleEarned, deposits>>
  BY DEF UpdatePool
<1>3. userInfo' = [userInfo EXCEPT ![pid][u] = stake]
  BY <1>1, <1>2 DEF ChefInv, StakesTyped
<1>4. \A p \in Pids : deposits'[p] = IF p = pid THEN deposits[p] + 0 ELSE deposits[p]
  BY <1>2 DEF ChefInv, PoolsTyped
<1> HIDE DEF m, acc, stake, e
<1>5. Backed(stake.amount, stake.debt, e, acc, m)
        <= Backed(stake.amount, stake.debt, e, acc, m) + m * 0
  <2>1. m * 0 = 0
    BY <1>1
  <2>2. Backed(stake.amount, stake.debt, e, acc, m) \in Nat
    BY <1>1, BackedType
  <2> QED BY <2>1, <2>2
<1>6. saddleEarned'[pid][u] = e
  BY <1>2 DEF e
<1> QED BY <1>2, <1>3, <1>4, <1>5, <1>6, CreditStep DEF m, acc, stake, e

(* Who abandons a stake leaves what is behind it to the others.            *)
LEMMA EmergencyWithdrawCredit ==
  ASSUME ChefInv, ChefInv', CreditInv, NEW u \in Stakers, NEW pid \in PoolIds,
         EmergencyWithdraw(u, pid)
  PROVE  CreditInv'
<1> DEFINE m   == ACC_SADDLE_PRECISION
           acc == poolInfo[pid].acc
           f   == BackedAt(pid, acc)
           g   == [v \in Stakers |-> Backed(userInfo'[pid][v].amount, userInfo'[pid][v].debt,
                                            saddleEarned[pid][v], acc, m)]
           Sum(h) == SumFunctionOnSet(h, Stakers)
<1>1. UNCHANGED <<poolInfo, saddleEarned, saddleCredited, deposits>> /\ PoolIds' = PoolIds
  BY DEF EmergencyWithdraw, PoolIds
<1>2. userInfo' = [userInfo EXCEPT ![pid][u] = [amount |-> 0, debt |-> 0]]
  BY DEF EmergencyWithdraw
<1>3. /\ userInfo'[pid][u] = [amount |-> 0, debt |-> 0]
      /\ \A v \in Stakers \ {u} : userInfo'[pid][v] = userInfo[pid][v]
      /\ \A p \in Pids \ {pid} : userInfo'[p] = userInfo[p]
  BY <1>2, StakeSet
<1>4. pid \in Pids /\ acc \in Nat /\ m \in Nat \ {0} /\ PoolIds \subseteq Pids
  BY PidIsKnown, MiniChefAssumption DEF Pool
<1>5. ASSUME NEW p \in PoolIds \ {pid} PROVE PoolCovers(p)'
  BY <1>1, <1>3, <1>4, PoolKept DEF CreditInv
<1>6. PoolCovers(pid)'
  <2>1. PoolCovers(pid)' <=> Sum(g) <= m * (saddleCredited[pid] + deposits[pid])
    BY <1>1 DEF PoolCovers, BackedAt
  <2>2. Sum(f) <= m * (saddleCredited[pid] + deposits[pid])
    BY DEF CreditInv, PoolCovers
  <2>3. \A v \in Stakers : f[v] \in Nat /\
          f[v] = Backed(userInfo[pid][v].amount, userInfo[pid][v].debt,
                        saddleEarned[pid][v], acc, m)
    BY <1>4, BackedAtType
  <2>4. ASSUME NEW v \in Stakers PROVE g[v] \in Nat /\ g[v] <= f[v]
    <3> DEFINE e == saddleEarned[pid][v]
               a == userInfo[pid][v].amount
               d == userInfo[pid][v].debt
    <3>1. e \in Nat /\ a \in Nat /\ d \in Int
      BY StakeFacts
    <3>2. CASE v = u
      <4>1. g[v] = Backed(0, 0, e, acc, m)
        BY <1>3, <3>2
      <4>2. f[v] = Backed(a, d, e, acc, m)
        BY <2>3
      <4> HIDE DEF f, g, e, a, d, acc, m
      <4>3. 0 * acc = 0 /\ m * 0 = 0 /\ m * e \in Nat /\ a * acc \in Nat /\ m * d \in Int
        BY <1>4, <3>1
      <4>4. Backed(0, 0, e, acc, m) = m * e
        BY <4>3 DEF Backed, Pos
      <4>5. Pos(a * acc - m * d) \in Nat
        BY <4>3 DEF Pos
      <4>6. Backed(a, d, e, acc, m) >= m * e
        BY <4>3, <4>5 DEF Backed
      <4> QED BY <4>1, <4>2, <4>3, <4>4, <4>6
    <3>3. CASE v # u
      <4>1. userInfo'[pid][v] = userInfo[pid][v]
        BY <1>3, <3>3
      <4>2. g[v] = f[v]
        BY <2>3, <4>1
      <4> HIDE DEF f, g
      <4> QED BY <2>3, <4>2
    <3> QED BY <3>2, <3>3
  <2> HIDE DEF f, g
  <2>5. Sum(g) <= Sum(f)
    <3>1. \A v \in Stakers : g[v] \in Int /\ f[v] \in Int /\ g[v] <= f[v]
      BY <2>3, <2>4
    <3> QED BY <3>1, SumMonotone, MiniChefAssumption
  <2>6. Sum(g) \in Nat /\ Sum(f) \in Nat
    BY <2>3, <2>4, SumNat, MiniChefAssumption
  <2>7. m * (saddleCredited[pid] + deposits[pid]) \in Nat
    BY <1>4 DEF ChefInv, PoolsTyped
  <2> QED BY <2>1, <2>2, <2>5, <2>6, <2>7
<1>7. \A p \in Pids \ PoolIds, v \in Stakers :
         userInfo'[p][v] = [amount |-> 0, debt |-> 0] /\ saddleEarned'[p][v] = 0
  BY <1>1, <1>3 DEF CreditInv
<1> QED BY <1>1, <1>5, <1>6, <1>7 DEF CreditInv

(* Nothing happens to a stake, and no pool is updated.                     *)
LEMMA CreditKept ==
  ASSUME CreditInv, UNCHANGED <<userInfo, saddleEarned, saddleCredited, deposits>>,
         PoolIds' = PoolIds, \A pid \in PoolIds : poolInfo'[pid].acc = poolInfo[pid].acc
  PROVE  CreditInv'
<1>1. \A pid \in PoolIds : PoolCovers(pid)'
  BY PoolKept DEF CreditInv
<1> QED BY <1>1 DEF CreditInv

(* A pool begins with nothing.                                             *)
LEMMA AddCredit ==
  ASSUME ChefInv, CreditInv, NEW points \in AllocPoints, NEW rewarder \in Delegates,
         Add(points, rewarder)
  PROVE  CreditInv'
<1> DEFINE m == ACC_SADDLE_PRECISION
<1> PICK n : n = Len(poolInfo) + 1
  OBVIOUS
<1>1. UNCHANGED <<userInfo, saddleEarned, saddleCredited, deposits>>
  BY DEF Add
<1>2. poolInfo \in Seq(Pool) /\ Len(poolInfo) < MaxPools /\ Len(poolInfo) \in Nat
  BY DEF Add, ChefInv, PoolsTyped
<1>3. poolInfo' = Append(poolInfo, [acc |-> 0, last |-> now, alloc |-> points,
                                    rewarder |-> rewarder])
  BY DEF Add
<1>4. /\ PoolIds' = PoolIds \cup {n} /\ n \in Pids \ PoolIds /\ poolInfo'[n].acc = 0
      /\ \A p \in PoolIds : poolInfo'[p] = poolInfo[p]
  BY <1>2, <1>3, MiniChefAssumption DEF PoolIds, Pids
<1>5. \A p \in PoolIds : PoolCovers(p)'
  BY <1>1, <1>4, PoolKept DEF CreditInv
<1>6. PoolCovers(n)'
  <2> DEFINE g == [v \in Stakers |-> Backed(userInfo[n][v].amount, userInfo[n][v].debt,
                                            saddleEarned[n][v], 0, m)]
  <2>1. PoolCovers(n)' <=> SumFunctionOnSet(g, Stakers) <= m * (saddleCredited[n] + deposits[n])
    <3>1. BackedAt(n, poolInfo[n].acc)' = [v \in Stakers |->
            Backed(userInfo'[n][v].amount, userInfo'[n][v].debt, saddleEarned'[n][v],
                   poolInfo'[n].acc, m)]
      BY <1>1, <1>2 DEF BackedAt
    <3>2. BackedAt(n, poolInfo[n].acc)' = g
      BY <1>1, <1>4, <3>1
    <3> HIDE DEF g
    <3> QED BY <1>1, <1>2, <3>2 DEF PoolCovers
  <2>2. \A v \in Stakers : g[v] = 0
    <3>1. m * 0 = 0 /\ 0 * 0 = 0
      BY MiniChefAssumption
    <3>2. \A v \in Stakers : userInfo[n][v].amount = 0 /\ userInfo[n][v].debt = 0
                             /\ saddleEarned[n][v] = 0
      BY <1>4 DEF CreditInv
    <3>3. Backed(0, 0, 0, 0, m) = 0
      BY <3>1 DEF Backed, Pos
    <3> QED BY <3>2, <3>3
  <2> HIDE DEF g
  <2>3. SumFunctionOnSet(g, Stakers) = 0
    BY <2>2, SumZero, MiniChefAssumption
  <2>4. m * (saddleCredited[n] + deposits[n]) \in Nat
    BY <1>4, MiniChefAssumption DEF ChefInv, PoolsTyped
  <2> QED BY <2>1, <2>3, <2>4
<1>7. \A p \in Pids \ PoolIds', v \in Stakers :
         userInfo'[p][v] = [amount |-> 0, debt |-> 0] /\ saddleEarned'[p][v] = 0
  BY <1>1, <1>4 DEF CreditInv
<1> QED BY <1>4, <1>5, <1>6, <1>7 DEF CreditInv

LEMMA CreditInit == Init => CreditInv
<1> SUFFICES ASSUME Init PROVE CreditInv
  OBVIOUS
<1>1. PoolIds = {}
  <2>1. poolInfo = <<>>
    BY DEF Init
  <2>2. Len(<<>>) = 0
    OBVIOUS
  <2> QED BY <2>1, <2>2 DEF PoolIds
<1>2. \A pid \in Pids, u \in Stakers :
         userInfo[pid][u] = [amount |-> 0, debt |-> 0] /\ saddleEarned[pid][u] = 0
  BY DEF Init
<1> QED BY <1>1, <1>2 DEF CreditInv

LEMMA CreditNext == ChefInv /\ ChefInv' /\ CreditInv /\ [Next]_vars => CreditInv'
<1> SUFFICES ASSUME ChefInv, ChefInv', CreditInv, [Next]_vars PROVE CreditInv'
  OBVIOUS
<1>1. ASSUME NEW u \in Stakers, StakerNext(u) PROVE CreditInv'
  <2>1. PICK pid \in PoolIds :
          \/ UpdatePool(pid)
          \/ Harvest(u, pid)
          \/ EmergencyWithdraw(u, pid)
          \/ \E amount \in LPAmounts :
               \/ \E to \in Stakers : Deposit(u, pid, amount, to)
               \/ Withdraw(u, pid, amount)
               \/ WithdrawAndHarvest(u, pid, amount)
          \/ \E amount \in LPGifts : SendLP(u, pid, amount)
    BY <1>1 DEF StakerNext
  <2>2. CASE \E amount \in LPGifts : SendLP(u, pid, amount)
    BY <2>2, CreditKept DEF SendLP, PoolIds
  <2> QED BY <2>1, <2>2, UpdatePoolCredit, HarvestCredit, EmergencyWithdrawCredit, DepositCredit,
             WithdrawCredit, WithdrawAndHarvestCredit
<1>2. ASSUME NEW pid \in PoolIds, NEW points \in AllocPoints, NEW rewarder \in Delegates,
             NEW overwrite \in BOOLEAN, Set(pid, points, rewarder, overwrite)
      PROVE  CreditInv'
  <2>1. poolInfo[pid] \in Pool /\ pid \in DOMAIN poolInfo /\ poolInfo \in Seq(Pool)
    BY PidIsKnown DEF ChefInv, PoolsTyped
  <2>2. poolInfo' = [poolInfo EXCEPT ![pid].alloc = points,
                                     ![pid].rewarder = IF overwrite THEN rewarder ELSE @]
    BY <1>2 DEF Set
  <2>3. PoolIds' = PoolIds /\ \A p \in PoolIds : poolInfo'[p].acc = poolInfo[p].acc
    BY <2>1, <2>2 DEF PoolIds, Pool
  <2> QED BY <1>2, <2>3, CreditKept DEF Set
<1>3. CASE \E rate \in SaddleRates : SetSaddlePerSecond(rate)
  BY <1>3, CreditKept DEF SetSaddlePerSecond, PoolIds
<1>4. CASE RewarderNext
  BY <1>4, CreditKept DEF RewarderNext, chefVars, PoolIds
<1>5. CASE Tick \/ UNCHANGED vars
  BY <1>5, CreditKept DEF Tick, vars, chefVars, PoolIds
<1> QED BY <1>1, <1>2, <1>3, <1>4, <1>5, AddCredit DEF Next, OwnerNext

THEOREM CreditInvariant == Spec => []CreditInv
BY ChefInvariant, CreditInit, CreditNext, PTL DEF Spec

(* Whatever stakers and owner do and in whichever order, what the stakers  *)
(* of a pool have got and can harvest is no more than updatePool has set   *)
(* aside for it, but for one unit of rounding per deposit.                 *)
THEOREM EarnedAlwaysCovered == Spec => []EarnedWithinCredit
BY ChefInvariant, CreditInvariant, CreditCovers, PTL

-----------------------------------------------------------------------------
(* The rewarder pays for the time since it was first attached, as long as  *)
(* every stake that shrank was reported to it.                             *)
LEMMA MaxOfNaturals ==
  ASSUME NEW S, IsFiniteSet(S), S \subseteq Nat, S # {}
  PROVE  Max(S) \in S /\ \A x \in S : x <= Max(S)
<1> DEFINE Good == {T \in SUBSET S : T # {} => \E x \in T : \A y \in T : x >= y}
<1>1. ASSUME NEW T \in SUBSET S, T # {}, \A x \in T : T \ {x} \in Good PROVE T \in Good
  <2>1. PICK x \in T : TRUE
    BY <1>1
  <2>2. CASE T \ {x} = {}
    <3>1. \A y \in T : y = x /\ x \in Nat
      BY <2>1, <2>2
    <3> QED BY <2>1, <3>1
  <2>3. CASE T \ {x} # {}
    <3>1. PICK z \in T \ {x} : \A y \in T \ {x} : z >= y
      BY <1>1, <2>1, <2>3
    <3>2. x \in Nat /\ z \in Nat /\ \A y \in T : y \in Nat
      BY <2>1, <3>1
    <3>3. CASE x >= z
      <4>1. \A y \in T : x >= y
        BY <3>1, <3>2, <3>3
      <4> QED BY <2>1, <4>1
    <3>4. CASE ~(x >= z)
      <4>1. \A y \in T : z >= y
        BY <3>1, <3>2, <3>4
      <4> QED BY <3>1, <4>1
    <3> QED BY <3>3, <3>4
  <2> QED BY <2>2, <2>3
<1>2. {} \in Good
  OBVIOUS
<1> HIDE DEF Good
<1>3. S \in Good
  BY <1>1, <1>2, SubsetInduction
<1>4. \E x \in S : \A y \in S : x >= y
  BY <1>3 DEF Good
<1>5. Max(S) \in S /\ \A y \in S : Max(S) >= y
  BY <1>4 DEF Max
<1> QED BY <1>5

RewardBacked(acc) ==
  [u \in Stakers |-> Backed(rewarderUser[u].amount, rewarderUser[u].debt, rewardEarned[u], acc,
                            ACC_TOKEN_PRECISION)]

(* What the rewarder may have earned for the stakers until t.              *)
Earning(t) ==
  IF attachedAt = 0 \/ t < attachedAt THEN 0 ELSE Max(RewardRates) * (t - attachedAt)

RewardCovers ==
  SumFunctionOnSet(RewardBacked(rewarderPool.acc), Stakers)
    <= ACC_TOKEN_PRECISION * (Earning(rewarderPool.last) + reports)

HasRewarder == RewarderPid \in PoolIds /\ poolInfo[RewarderPid].rewarder = "simple"

(* The inductive invariant: until the first update after the rewarder was  *)
(* attached it knows of no stake, so that what its clock, still at zero,   *)
(* or an update before it was attached adds to the reward per share is     *)
(* nobody's.                                                               *)
RewardInv ==
  /\ now # 0 /\ attachedAt <= now /\ rewarderPool.last <= now
  /\ rewardPerSecond \in RewardRates
  /\ HasRewarder => attachedAt # 0
  /\ attachedAt = 0 \/ rewarderPool.last < attachedAt =>
       \A u \in Stakers : rewarderUser[u].amount = 0
  /\ untold \/ RewardCovers

LEMMA RewardTypes ==
  ASSUME ChefInv
  PROVE  /\ now \in Nat /\ attachedAt \in Nat /\ reports \in Nat /\ rewardPerSecond \in Nat
         /\ rewarderPool.acc \in Nat /\ rewarderPool.last \in Nat
         /\ rewarderUser \in [Stakers -> [amount : Nat, debt : Nat]]
         /\ rewardEarned \in [Stakers -> Nat]
         /\ \A u \in Stakers : /\ rewarderUser[u].amount \in Nat /\ rewarderUser[u].debt \in Nat
                               /\ rewardEarned[u] \in Nat
         /\ ACC_TOKEN_PRECISION \in Nat \ {0}
         /\ RewarderPid \in Pids /\ lpHeld[RewarderPid] \in Nat
BY RewarderAssumption, MiniChefAssumption DEF ChefInv, RewarderTyped, PoolsTyped, StakesTyped

LEMMA RewardBackedType ==
  ASSUME ChefInv, NEW acc \in Nat
  PROVE  \A u \in Stakers :
           /\ RewardBacked(acc)[u] \in Nat
           /\ RewardBacked(acc)[u] = Backed(rewarderUser[u].amount, rewarderUser[u].debt,
                                            rewardEarned[u], acc, ACC_TOKEN_PRECISION)
<1> SUFFICES ASSUME NEW u \in Stakers
             PROVE  Backed(rewarderUser[u].amount, rewarderUser[u].debt, rewardEarned[u], acc,
                           ACC_TOKEN_PRECISION) \in Nat
  BY DEF RewardBacked
<1>1. /\ rewarderUser[u].amount \in Nat /\ rewarderUser[u].debt \in Int
      /\ rewardEarned[u] \in Nat /\ ACC_TOKEN_PRECISION \in Nat \ {0}
  BY RewardTypes
<1> QED BY <1>1, BackedType

(* The stakes it knows of are held.                                        *)
LEMMA KnownStakesHeld ==
  ASSUME ChefInv, RewarderKnows
  PROVE  lpHeld[RewarderPid]
           >= SumFunctionOnSet([u \in Stakers |-> rewarderUser[u].amount], Stakers)
<1> DEFINE s == [u \in Stakers |-> rewarderUser[u].amount]
           t == Stakes(RewarderPid)
<1>1. RewarderPid \in Pids /\ lpHeld[RewarderPid] \in Nat
  BY RewardTypes
<1>2. ASSUME NEW u \in Stakers PROVE s[u] \in Nat /\ t[u] \in Nat /\ s[u] <= t[u]
  <2>1. rewarderUser[u].amount \in Nat
    BY RewardTypes
  <2>2. userInfo[RewarderPid][u].amount \in Nat
    BY <1>1 DEF ChefInv, StakesTyped, Stake
  <2>3. rewarderUser[u].amount <= userInfo[RewarderPid][u].amount
    BY DEF RewarderKnows
  <2> QED BY <2>1, <2>2, <2>3 DEF Stakes
<1>3. lpHeld[RewarderPid] >= SumFunctionOnSet(t, Stakers)
  BY <1>1, StakesSum DEF ChefInv
<1> HIDE DEF s, t
<1>4. SumFunctionOnSet(s, Stakers) <= SumFunctionOnSet(t, Stakers)
  <2>1. \A u \in Stakers : s[u] \in Int /\ t[u] \in Int /\ s[u] <= t[u]
    BY <1>2
  <2> QED BY <2>1, SumMonotone, MiniChefAssumption
<1>5. SumFunctionOnSet(s, Stakers) \in Nat /\ SumFunctionOnSet(t, Stakers) \in Nat
  BY <1>2, SumNat, MiniChefAssumption
<1>6. SumFunctionOnSet(s, Stakers) <= lpHeld[RewarderPid]
  BY <1>1, <1>3, <1>4, <1>5
<1> QED BY <1>1, <1>5, <1>6 DEF s

LEMMA EarningType ==
  ASSUME ChefInv, RewardInv, NEW t \in Nat
  PROVE  Earning(t) \in Nat /\ Max(RewardRates) \in Nat /\ rewardPerSecond <= Max(RewardRates)
<1>1. /\ RewardRates # {} /\ rewardPerSecond \in RewardRates
      /\ RewardRates \subseteq Nat /\ IsFiniteSet(RewardRates)
  BY RewarderAssumption DEF RewardInv
<1>2. Max(RewardRates) \in RewardRates /\ rewardPerSecond <= Max(RewardRates)
  BY <1>1, MaxOfNaturals
<1>3. Max(RewardRates) \in Nat /\ attachedAt \in Nat
  BY <1>1, <1>2, RewardTypes
<1>4. ~(t < attachedAt) => t - attachedAt \in Nat
  BY <1>3
<1>5. ~(t < attachedAt) => Max(RewardRates) * (t - attachedAt) \in Nat
  BY <1>3, <1>4
<1> QED BY <1>2, <1>3, <1>5 DEF Earning

LEMMA UpdatedLast ==
  ASSUME ChefInv, RewardInv
  PROVE  /\ RewarderUpdated(lpHeld[RewarderPid]).last = now
         /\ RewarderUpdated(lpHeld[RewarderPid]).acc \in Nat
<1>1. RewarderUpdated(lpHeld[RewarderPid]) \in [acc : Nat, last : Nat]
  BY RewardTypes, RewarderUpdatedType DEF ChefInv
<1> QED BY <1>1, RewardTypes DEF RewarderUpdated, RewardInv

(* Brought up to date, the rewarder still covers the stakes it knows of.   *)
LEMMA UpdatedRewarderCovers ==
  ASSUME ChefInv, RewarderKnows, RewardInv, ~untold
  PROVE  LET pool == RewarderUpdated(lpHeld[RewarderPid])
         IN  /\ pool.last = now /\ pool.acc \in Nat
             /\ SumFunctionOnSet(RewardBacked(pool.acc), Stakers)
                  <= ACC_TOKEN_PRECISION * (Earning(now) + reports)
<1> DEFINE pool   == RewarderUpdated(lpHeld[RewarderPid])
           supply == lpHeld[RewarderPid]
           old    == rewarderPool.acc
           last   == rewarderPool.last
           P      == ACC_TOKEN_PRECISION
           Sum(h) == SumFunctionOnSet(h, Stakers)
<1>1. /\ now \in Nat /\ last \in Nat /\ old \in Nat /\ supply \in Nat /\ P \in Nat \ {0}
      /\ reports \in Nat /\ rewardPerSecond \in Nat /\ attachedAt \in Nat
  BY RewardTypes
<1>2. /\ last <= now /\ attachedAt <= now
      /\ Sum(RewardBacked(old)) <= P * (Earning(last) + reports)
  BY DEF RewardInv, RewardCovers
<1>3. Sum(RewardBacked(old)) \in Nat
  BY <1>1, RewardBackedType, SumNat, MiniChefAssumption
<1>4. CASE now <= last
  <2>1. last = now
    BY <1>1, <1>2, <1>4
  <2>2. pool = rewarderPool
    BY <1>4 DEF RewarderUpdated
  <2> QED BY <1>1, <1>2, <2>1, <2>2
<1>5. CASE ~(now <= last)
  <2> DEFINE time   == now - last
             reward == time * rewardPerSecond
             x      == IF supply = 0 THEN 0 ELSE (reward * P) \div supply
  <2>1. time \in Nat
    BY <1>1, <1>5
  <2>2. reward \in Nat
    BY <1>1, <2>1
  <2>3. reward * P \in Nat
    BY <1>1, <2>2
  <2>4. pool.last = now /\ pool.acc = old + x
    BY <1>1, <1>5 DEF RewarderUpdated
  <2>5. x \in Nat /\ x * supply <= reward * P
    <3>1. CASE supply = 0
      BY <2>3, <3>1
    <3>2. CASE supply # 0
      <4>1. supply \in Nat \ {0}
        BY <1>1, <3>2
      <4> HIDE DEF supply, P, reward
      <4>2. x = (reward * P) \div supply
        BY <3>2
      <4>3. x \in Nat /\ supply * x <= reward * P
        BY <2>3, <4>1, <4>2, DivDef
      <4> HIDE DEF x
      <4>4. x * supply = supply * x
        BY <4>1, <4>3
      <4> QED BY <4>3, <4>4
    <3> QED BY <3>1, <3>2
  <2> HIDE DEF x, supply, P, old, pool, time, reward
  <2>6. old + x \in Nat
    BY <1>1, <2>5
  <2> DEFINE f == RewardBacked(old)
             g == RewardBacked(old + x)
             s == [u \in Stakers |-> rewarderUser[u].amount]
  <2>7. ASSUME NEW u \in Stakers
        PROVE  f[u] \in Nat /\ g[u] \in Nat /\ s[u] \in Nat /\ g[u] <= f[u] + x * s[u]
    <3> DEFINE a == rewarderUser[u].amount
               d == rewarderUser[u].debt
               e == rewardEarned[u]
    <3>1. a \in Nat /\ d \in Int /\ e \in Nat
      BY RewardTypes
    <3>2. /\ f[u] \in Nat /\ g[u] \in Nat
          /\ f[u] = Backed(a, d, e, old, P) /\ g[u] = Backed(a, d, e, old + x, P)
      BY <1>1, <2>6, RewardBackedType DEF P
    <3>3. s[u] = a
      OBVIOUS
    <3> HIDE DEF f, g, s, a, d, e
    <3>4. Backed(a, d, e, old + x, P) <= Backed(a, d, e, old, P) + x * a
      BY <1>1, <2>5, <3>1, BackedGrows
    <3> QED BY <3>1, <3>2, <3>3, <3>4
  <2>8. supply >= Sum(s)
    BY KnownStakesHeld DEF supply
  <2> HIDE DEF f, g
  <2>9. Sum(g) \in Nat /\ Sum(f) \in Nat
    BY <2>7, SumNat, MiniChefAssumption
  <2>10. CASE attachedAt = 0 \/ last < attachedAt
    <3>1. \A u \in Stakers : rewarderUser[u].amount = 0
      BY <2>10 DEF RewardInv
    <3>2. \A u \in Stakers : s[u] = 0
      BY <3>1
    <3> HIDE DEF s
    <3>3. \A u \in Stakers : g[u] \in Int /\ f[u] \in Int /\ g[u] <= f[u]
      <4>1. x * 0 = 0
        BY <2>5
      <4> QED BY <2>7, <3>2, <4>1
    <3>4. Sum(g) <= Sum(f)
      BY <3>3, SumMonotone, MiniChefAssumption
    <3>5. Earning(last) = 0 /\ Earning(now) \in Nat
      BY <1>1, <2>10, EarningType DEF Earning
    <3>6. P * (Earning(last) + reports) <= P * (Earning(now) + reports)
      BY <1>1, <3>5
    <3>7. P * (Earning(last) + reports) \in Nat /\ P * (Earning(now) + reports) \in Nat
      BY <1>1, <3>5
    <3>8. Sum(g) <= P * (Earning(now) + reports)
      BY <1>2, <2>9, <3>4, <3>6, <3>7 DEF f
    <3> QED BY <2>4, <2>6, <3>8 DEF g, pool, P, supply
  <2>11. CASE ~(attachedAt = 0 \/ last < attachedAt)
    <3> DEFINE M == Max(RewardRates)
               b == last - attachedAt
    <3>1. M \in Nat /\ rewardPerSecond <= M
      BY <1>1, EarningType
    <3>2. b \in Nat
      BY <1>1, <2>11
    <3>3. Earning(last) = M * b /\ Earning(now) = M * (b + time)
      <4>1. ~(now < attachedAt) /\ now - attachedAt = b + time
        BY <1>1, <1>2 DEF time
      <4> QED BY <2>11, <4>1 DEF Earning
    <3> HIDE DEF s, M, b
    <3>4. Sum(g) <= Sum(f) + x * supply
      <4> HIDE DEF last
      <4> QED BY <1>1, <2>5, <2>7, <2>8, SumGrows, MiniChefAssumption
    <3>5. reward <= M * time
      <4>1. time * rewardPerSecond <= M * time
        BY <1>1, <2>1, <3>1
      <4> QED BY <4>1 DEF reward
    <3>6. M * b \in Nat /\ M * time \in Nat /\ M * (b + time) = M * b + M * time
      BY <2>1, <3>1, <3>2
    <3>7. Sum(f) <= P * (M * b + reports)
      BY <1>2, <3>3 DEF f
    <3> DEFINE mb == M * b
               mt == M * time
    <3>8. mb \in Nat /\ mt \in Nat /\ reward <= mt /\ Sum(f) <= P * (mb + reports)
          /\ Earning(now) = mb + mt
      BY <3>3, <3>5, <3>6, <3>7
    <3> HIDE DEF mb, mt
    <3>9. /\ P * (mb + mt + reports) = P * (mb + reports) + P * mt
          /\ P * (mb + reports) \in Nat /\ P * mt \in Nat
      BY <1>1, <3>8
    <3>10. reward * P <= P * mt
      BY <1>1, <2>2, <3>8
    <3>11. x * supply \in Nat
      BY <1>1, <2>5
    <3> HIDE DEF Sum
    <3>12. Sum(g) <= P * (mb + mt + reports)
      BY <2>3, <2>5, <2>9, <3>4, <3>8, <3>9, <3>10, <3>11
    <3>13. Sum(g) <= P * (Earning(now) + reports)
      BY <3>8, <3>12
    <3> QED BY <2>4, <2>6, <3>13 DEF g, pool, P, supply, Sum
  <2> QED BY <2>10, <2>11
<1> QED BY <1>4, <1>5

(* The property follows.                                                   *)
LEMMA RewardPaysSince ==
  ChefInv /\ KnowsIfTold /\ RewardInv => RewarderPaysSinceAttached
<1> SUFFICES ASSUME ChefInv, RewarderKnows, RewardInv, ~untold PROVE RewarderPaysSinceAttached
  BY DEF KnowsIfTold, RewarderPaysSinceAttached
<1> DEFINE P   == ACC_TOKEN_PRECISION
           pool == RewarderUpdated(lpHeld[RewarderPid])
           acc == pool.acc
           g   == RewardBacked(acc)
           f   == [u \in Stakers |-> RewardEntitled(u)]
           h   == [u \in Stakers |-> P * f[u]]
           all == Earning(now) + reports
           Sum(k) == SumFunctionOnSet(k, Stakers)
<1>1. P \in Nat \ {0} /\ acc \in Nat /\ Sum(g) <= P * all
  BY RewardTypes, UpdatedRewarderCovers
<1>2. all \in Nat
  <2>1. Earning(now) \in Nat /\ reports \in Nat
    BY RewardTypes, EarningType
  <2> QED BY <2>1
<1>3. ASSUME NEW u \in Stakers
      PROVE  f[u] \in Int /\ g[u] \in Nat /\ P * f[u] \in Int /\ P * f[u] <= g[u]
  <2> DEFINE a == rewarderUser[u].amount
             d == rewarderUser[u].debt
             e == rewardEarned[u]
             p == (a * acc) \div P - d
  <2>1. a \in Nat /\ d \in Int /\ e \in Nat
    BY RewardTypes
  <2>2. g[u] \in Nat /\ g[u] = Backed(a, d, e, acc, P)
    BY <1>1, RewardBackedType
  <2>3. f[u] \in Int
    BY RewardEntitledType
  <2>4. f[u] = e + (IF a = 0 THEN 0 ELSE p)
    BY DEF RewardEntitled, PendingToken
  <2> HIDE DEF f, g, acc, P
  <2>5. (a * acc) \div P \in Nat
    <3>1. a * acc \in Nat
      BY <1>1, <2>1
    <3> QED BY <1>1, <3>1, DivDef
  <2>6. p \in Int
    BY <2>1, <2>5
  <2>7. P * (e + Pos(p)) <= Backed(a, d, e, acc, P)
    <3> HIDE DEF a, d, e
    <3> QED BY <1>1, <2>1, BackedPays
  <2> HIDE DEF a, d, e, p
  <2>8. f[u] <= e + Pos(p) /\ e + Pos(p) \in Nat
    BY <2>1, <2>4, <2>6 DEF Pos
  <2>9. P * f[u] <= P * (e + Pos(p)) /\ P * f[u] \in Int /\ P * (e + Pos(p)) \in Nat
    BY <1>1, <2>3, <2>8
  <2> QED BY <2>2, <2>3, <2>7, <2>9
<1>4. Sum(h) = P * Sum(f)
  <2>1. P \in Int /\ \A u \in Stakers : f[u] \in Int /\ h[u] = P * f[u]
    BY <1>1, <1>3
  <2> HIDE DEF P, f, h
  <2> QED BY <2>1, SumTimes, MiniChefAssumption
<1>5. Sum(h) <= Sum(g)
  <2>1. \A u \in Stakers : h[u] \in Int /\ g[u] \in Int /\ h[u] <= g[u]
    BY <1>3
  <2> HIDE DEF h, g
  <2> QED BY <2>1, SumMonotone, MiniChefAssumption
<1>6. Sum(f) \in Int /\ Sum(g) \in Nat
  <2> HIDE DEF f, g
  <2> QED BY <1>3, SumInt, SumNat, MiniChefAssumption
<1>7. SumOver(LAMBDA u : RewardEntitled(u)) = Sum(f)
  BY DEF SumOver, SumFunction
<1> HIDE DEF Sum, all, P, f, g, h
<1>8. Sum(f) <= all
  <2>1. P * Sum(f) <= P * all /\ P * Sum(f) \in Int /\ P * all \in Nat
    BY <1>1, <1>2, <1>4, <1>5, <1>6
  <2>2. ASSUME Sum(f) >= all + 1 PROVE FALSE
    <3>1. P * Sum(f) >= P * (all + 1) /\ P * (all + 1) = P * all + P
      BY <1>1, <1>2, <1>6, <2>2
    <3> QED BY <1>1, <2>1, <3>1
  <2> QED BY <1>2, <1>6, <2>2
<1>9. all = (IF attachedAt = 0 THEN 0 ELSE Max(RewardRates) * (now - attachedAt)) + reports
  <2>1. ~(now < attachedAt)
    BY RewardTypes DEF RewardInv
  <2> QED BY <2>1 DEF all, Earning
<1> QED BY <1>7, <1>8, <1>9 DEF RewarderPaysSinceAttached

(* The pool does not come by its rewarder.                                 *)
NoneAttached == HasRewarder' => HasRewarder

LEMMA UpdatesAttachNone ==
  ASSUME ChefInv, NEW pid \in PoolIds, Updates(pid) PROVE NoneAttached
<1>1. /\ Updated(pid) \in Pool /\ Updated(pid).rewarder = poolInfo[pid].rewarder
      /\ pid \in DOMAIN poolInfo /\ poolInfo \in Seq(Pool)
  BY PidIsKnown, UpdatedType DEF ChefInv, PoolsTyped
<1>2. poolInfo' = [poolInfo EXCEPT ![pid] = Updated(pid)]
  BY DEF Updates
<1>3. /\ Len(poolInfo') = Len(poolInfo)
      /\ \A p \in 1 .. Len(poolInfo) : poolInfo'[p] = IF p = pid THEN Updated(pid) ELSE poolInfo[p]
  BY <1>1, <1>2
<1> QED BY <1>1, <1>3 DEF NoneAttached, HasRewarder, PoolIds

LEMMA RewardInvInit == Init => RewardInv
<1> SUFFICES ASSUME Init PROVE RewardInv
  OBVIOUS
<1> DEFINE f == RewardBacked(0)
<1>1. /\ now = Genesis /\ rewarderPool.acc = 0 /\ rewarderPool.last = 0
      /\ rewardPerSecond \in RewardRates /\ reports = 0 /\ attachedAt = 0
      /\ \A u \in Stakers : /\ rewarderUser[u].amount = 0 /\ rewarderUser[u].debt = 0
                            /\ rewardEarned[u] = 0
  BY DEF Init, RewarderInit
<1>2. PoolIds = {}
  <2>1. poolInfo = <<>>
    BY DEF Init
  <2>2. Len(<<>>) = 0
    OBVIOUS
  <2> QED BY <2>1, <2>2 DEF PoolIds
<1>3. \A u \in Stakers : f[u] = 0
  <2>1. ACC_TOKEN_PRECISION * 0 = 0 /\ 0 * 0 = 0
    BY RewarderAssumption
  <2>2. Backed(0, 0, 0, 0, ACC_TOKEN_PRECISION) = 0
    BY <2>1 DEF Backed, Pos
  <2> QED BY <1>1, <2>2 DEF RewardBacked
<1> HIDE DEF f
<1>4. SumFunctionOnSet(f, Stakers) = 0
  BY <1>3, SumZero, MiniChefAssumption
<1>5. RewardCovers
  <2>1. Earning(rewarderPool.last) = 0
    BY <1>1 DEF Earning
  <2>2. ACC_TOKEN_PRECISION * (0 + 0) = 0
    BY RewarderAssumption
  <2> QED BY <1>1, <1>4, <2>1, <2>2 DEF RewardCovers, f
<1> QED BY <1>1, <1>2, <1>5, RewarderAssumption DEF RewardInv, HasRewarder

(* The rewarder is left alone.                                             *)
LEMMA RewardLeft ==
  ASSUME ChefInv, RewardInv, UNCHANGED <<rewarderPool, rewarderUser, rewardEarned, reports>>,
         UNCHANGED attachedAt, now' \in {now, now + 1}, rewardPerSecond' \in RewardRates,
         NoneAttached, untold => untold'
  PROVE  RewardInv'
<1>1. /\ now \in Nat /\ attachedAt \in Nat /\ rewarderPool.last \in Nat
  BY RewardTypes
<1>2. untold' \/ RewardCovers'
  BY DEF RewardInv, RewardCovers, RewardBacked, Earning
<1>3. now' # 0 /\ attachedAt' <= now' /\ rewarderPool'.last <= now'
  BY <1>1 DEF RewardInv
<1>4. HasRewarder' => attachedAt' # 0
  BY DEF RewardInv, NoneAttached
<1>5. attachedAt' = 0 \/ rewarderPool'.last < attachedAt' =>
        \A u \in Stakers : rewarderUser'[u].amount = 0
  BY DEF RewardInv
<1> QED BY <1>2, <1>3, <1>4, <1>5 DEF RewardInv

(* Anybody brings it up to date.                                           *)
LEMMA RewardUpdated ==
  ASSUME ChefInv, KnowsIfTold, RewardInv, UpdateRewarder(lpHeld[RewarderPid]),
         UNCHANGED <<now, attachedAt, untold>>, NoneAttached
  PROVE  RewardInv'
<1> DEFINE pool == RewarderUpdated(lpHeld[RewarderPid])
<1>1. /\ rewarderPool' = pool
      /\ UNCHANGED <<rewarderUser, rewardPerSecond, rewardEarned, reports>>
  BY DEF UpdateRewarder
<1>2. /\ pool.last = now
      /\ ~untold => SumFunctionOnSet(RewardBacked(pool.acc), Stakers)
                      <= ACC_TOKEN_PRECISION * (Earning(now) + reports)
  BY UpdatedLast, UpdatedRewarderCovers DEF KnowsIfTold
<1>3. now \in Nat /\ attachedAt \in Nat /\ rewarderPool.last \in Nat
  BY RewardTypes
<1>4. untold' \/ RewardCovers'
  <2>1. RewardBacked(rewarderPool.acc)' = RewardBacked(pool.acc)
    BY <1>1 DEF RewardBacked
  <2>2. Earning(rewarderPool.last)' = Earning(now)
    BY <1>1, <1>2 DEF Earning
  <2> QED BY <1>1, <1>2, <2>1, <2>2 DEF RewardCovers
<1> HIDE DEF pool
<1>5. attachedAt' = 0 \/ rewarderPool'.last < attachedAt' =>
        \A u \in Stakers : rewarderUser'[u].amount = 0
  BY <1>1, <1>2, <1>3 DEF RewardInv
<1>6. HasRewarder' => attachedAt' # 0
  BY DEF RewardInv, NoneAttached
<1>7. now' # 0 /\ attachedAt' <= now' /\ rewarderPool'.last <= now'
  BY <1>1, <1>2, <1>3 DEF RewardInv
<1> QED BY <1>1, <1>4, <1>5, <1>6, <1>7 DEF RewardInv

(* A report pays what the stake earned; the debt of the new one is rounded *)
(* down by less than a unit.                                               *)
LEMMA ReportBacked ==
  ASSUME NEW a \in Nat, NEW d \in Nat, NEW e \in Nat, NEW acc \in Nat, NEW m \in Nat \ {0},
         NEW b \in Nat, NEW pending \in Nat,
         pending = IF a = 0 THEN 0 ELSE (a * acc) \div m - d
  PROVE  Backed(b, (b * acc) \div m, e + pending, acc, m) <= Backed(a, d, e, acc, m) + m
<1> DEFINE w == (b * acc) \div m
           q == b * acc
<1>1. q \in Nat /\ w \in Nat /\ m * w <= q /\ q < m * w + m /\ m * w \in Nat
  <2>1. q \in Nat
    OBVIOUS
  <2> QED BY <2>1, DivDef
<1>2. CASE a = 0
  <2>1. 0 * acc = 0 /\ m * d \in Nat /\ m * e \in Nat
    OBVIOUS
  <2>2. Backed(a, d, e, acc, m) >= m * e /\ Backed(a, d, e, acc, m) \in Nat
    <3>1. Pos(0 - m * d) \in Nat
      BY <2>1 DEF Pos
    <3> QED BY <1>2, <2>1, <3>1 DEF Backed
  <2>3. e + pending = e
    BY <1>2
  <2> HIDE DEF w, q
  <2>4. Backed(b, w, e, acc, m) = Pos(q - m * w) + m * e
    BY DEF Backed, q
  <2>5. Pos(q - m * w) <= m /\ Pos(q - m * w) \in Nat
    BY <1>1 DEF Pos
  <2> QED BY <2>1, <2>2, <2>3, <2>4, <2>5 DEF w
<1>3. CASE a # 0
  <2> DEFINE v == (a * acc) \div m
             p == a * acc
  <2>1. p \in Nat /\ v \in Nat /\ m * v <= p /\ m * v \in Nat
    <3>1. p \in Nat
      OBVIOUS
    <3> QED BY <3>1, DivDef
  <2>2. v - d >= 0 /\ pending = v - d
    BY <1>3
  <2> HIDE DEF v, p, w, q
  <2>3. q - m * w <= p - m * v + m
    BY <1>1, <2>1
  <2>4. Backed(b, w, e + (v - d), acc, m) <= Backed(a, d, e, acc, m) + m
    <3>1. b * acc - m * w <= a * acc - m * ((a * acc) \div m) + m
      BY <2>3 DEF p, q, v
    <3>2. (a * acc) \div m - d >= 0 /\ w \in Int /\ m \in Nat
      BY <1>1, <2>2 DEF v
    <3>3. Backed(b, w, e + ((a * acc) \div m - d), acc, m) <= Backed(a, d, e, acc, m) + m
      BY <3>1, <3>2, BackedSettle
    <3> QED BY <3>3 DEF v
  <2> QED BY <2>2, <2>4 DEF w
<1> QED BY <1>2, <1>3

LEMMA RewardReported ==
  ASSUME ChefInv, ChefInv', KnowsIfTold, RewardInv, NEW u \in Stakers, NEW amount \in Nat,
         OnSaddleReward(u, amount, lpHeld[RewarderPid]), attachedAt # 0,
         UNCHANGED <<now, attachedAt, untold>>
  PROVE  RewardInv'
<1> DEFINE pool    == RewarderUpdated(lpHeld[RewarderPid])
           acc     == pool.acc
           P       == ACC_TOKEN_PRECISION
           a       == rewarderUser[u].amount
           d       == rewarderUser[u].debt
           e       == rewardEarned[u]
           pending == PendingToken(u, pool)
           debt    == (amount * acc) \div P
           f       == RewardBacked(acc)
           g       == [v \in Stakers |-> Backed(rewarderUser'[v].amount, rewarderUser'[v].debt,
                                                rewardEarned'[v], acc, P)]
           Sum(h)  == SumFunctionOnSet(h, Stakers)
<1>1. /\ pool.last = now /\ acc \in Nat
      /\ ~untold => Sum(f) <= P * (Earning(now) + reports)
  BY UpdatedLast, UpdatedRewarderCovers DEF KnowsIfTold
<1>2. /\ now \in Nat /\ attachedAt \in Nat /\ rewarderPool.last \in Nat /\ P \in Nat \ {0}
      /\ reports \in Nat /\ a \in Nat /\ d \in Nat /\ e \in Nat
      /\ rewarderUser \in [Stakers -> [amount : Nat, debt : Nat]]
      /\ rewardEarned \in [Stakers -> Nat] /\ rewardHeld \in Nat
  BY RewardTypes DEF ChefInv, RewarderTyped
<1>3. /\ 0 <= pending /\ pending <= rewardHeld /\ rewarderPool' = pool
      /\ rewarderUser' = [rewarderUser EXCEPT ![u] = [amount |-> amount, debt |-> debt]]
      /\ rewardEarned' = [rewardEarned EXCEPT ![u] = @ + pending]
      /\ reports' = reports + 1 /\ UNCHANGED rewardPerSecond
  BY DEF OnSaddleReward
<1>4. pending = IF a = 0 THEN 0 ELSE (a * acc) \div P - d
  BY DEF PendingToken
<1>5. pending \in Nat
  <2>1. a * acc \in Nat
    BY <1>1, <1>2
  <2> HIDE DEF a, acc, P, d, pending
  <2>2. (a * acc) \div P \in Nat
    BY <1>2, <2>1, DivDef
  <2> QED BY <1>2, <1>3, <1>4, <2>2
<1> HIDE DEF pool, acc, P, a, d, e, pending, debt
<1>6. /\ rewarderUser'[u].amount = amount /\ rewarderUser'[u].debt = debt
      /\ rewardEarned'[u] = e + pending
      /\ \A v \in Stakers \ {u} : rewarderUser'[v] = rewarderUser[v]
                                  /\ rewardEarned'[v] = rewardEarned[v]
  BY <1>2, <1>3 DEF e
<1>7. \A v \in Stakers : f[v] \in Nat /\
        f[v] = Backed(rewarderUser[v].amount, rewarderUser[v].debt, rewardEarned[v], acc, P)
  BY <1>1, RewardBackedType DEF P
<1>8. ASSUME NEW v \in Stakers PROVE g[v] \in Nat
  <2>1. /\ rewarderUser'[v].amount \in Nat /\ rewarderUser'[v].debt \in Int
        /\ rewardEarned'[v] \in Nat
    BY DEF ChefInv, RewarderTyped
  <2> QED BY <1>1, <1>2, <2>1, BackedType
<1>9. g[u] <= f[u] + P
  <2>1. g[u] = Backed(amount, debt, e + pending, acc, P)
    BY <1>6
  <2>2. f[u] = Backed(a, d, e, acc, P)
    BY <1>7 DEF a, d, e
  <2>3. Backed(amount, debt, e + pending, acc, P) <= Backed(a, d, e, acc, P) + P
    BY <1>1, <1>2, <1>4, <1>5, ReportBacked DEF debt
  <2> QED BY <2>1, <2>2, <2>3
<1>10. \A v \in Stakers \ {u} : g[v] = f[v]
  <2> HIDE DEF f
  <2> QED BY <1>6, <1>7
<1>11. RewardBacked(rewarderPool.acc)' = g
  BY <1>3 DEF RewardBacked, P, acc
<1> HIDE DEF f, g
<1>12. Sum(g) <= Sum(f) + P
  <2>1. P \in Nat /\ \A v \in Stakers : f[v] \in Int /\ g[v] \in Int
    BY <1>2, <1>7, <1>8
  <2> QED BY <1>9, <1>10, <2>1, SumOneGrows, MiniChefAssumption
<1>13. Sum(g) \in Nat /\ Sum(f) \in Nat
  BY <1>7, <1>8, SumNat, MiniChefAssumption
<1>14. untold' \/ RewardCovers'
  <2> SUFFICES ASSUME ~untold PROVE RewardCovers'
    OBVIOUS
  <2> DEFINE t == Earning(now)
  <2>1. Earning(rewarderPool.last)' = t
    BY <1>1, <1>3 DEF Earning
  <2>2. t \in Nat
    BY <1>2, EarningType
  <2>3. RewardCovers' <=> Sum(g) <= P * (t + (reports + 1))
    BY <1>3, <1>11, <2>1 DEF RewardCovers, P
  <2> HIDE DEF t, Sum
  <2>4. P * (t + (reports + 1)) = P * (t + reports) + P /\ P * (t + reports) \in Nat
    BY <1>2, <2>2
  <2>5. Sum(f) <= P * (t + reports)
    BY <1>1 DEF t
  <2> QED BY <1>2, <1>12, <1>13, <2>3, <2>4, <2>5
<1>15. now' # 0 /\ attachedAt' <= now' /\ rewarderPool'.last <= now' /\ ~(rewarderPool'.last < attachedAt')
  BY <1>1, <1>2, <1>3 DEF RewardInv
<1>16. HasRewarder' => attachedAt' # 0
  OBVIOUS
<1>17. rewardPerSecond' \in RewardRates
  BY <1>3 DEF RewardInv
<1> QED BY <1>14, <1>15, <1>16, <1>17 DEF RewardInv

(* An operation on a stake.                                                *)
LEMMA RewardNotified ==
  ASSUME ChefInv, ChefInv', KnowsIfTold, RewardInv, NEW pid \in PoolIds, NEW u \in Stakers,
         NEW amount \in Nat, Notifies(pid, u, amount),
         UNCHANGED <<now, attachedAt>>, NoneAttached
  PROVE  RewardInv'
<1>1. CASE poolInfo[pid].rewarder = "simple"
  <2>1. OnSaddleReward(u, amount, lpHeld[RewarderPid]) /\ attachedAt # 0 /\ untold' = untold
    BY <1>1 DEF Notifies, RewardInv, HasRewarder
  <2> QED BY <2>1, RewardReported
<1>2. CASE poolInfo[pid].rewarder # "simple"
  <2>1. UNCHANGED rewarderVars /\ (untold => untold')
    BY <1>2 DEF Notifies
  <2> QED BY <2>1, RewardLeft DEF rewarderVars, RewardInv
<1> QED BY <1>1, <1>2

(* The owner gives a pool a rewarder: if it is the first time that the     *)
(* SimpleRewarder is attached, it knows of no stake.                       *)
LEMMA RewardAttached ==
  ASSUME ChefInv, RewardInv, UNCHANGED <<now, rewarderVars, untold>>, NEW pid, NEW rewarder,
         Attaches(pid, rewarder),
         HasRewarder' => HasRewarder \/ (pid = RewarderPid /\ rewarder = "simple")
  PROVE  RewardInv'
<1>1. /\ now \in Nat /\ attachedAt \in Nat /\ rewarderPool.last \in Nat
      /\ rewarderPool.last <= now /\ now # 0 /\ attachedAt <= now
  BY RewardTypes DEF RewardInv
<1>2. HasRewarder' => attachedAt' # 0
  BY <1>1 DEF Attaches, RewardInv
<1>3. CASE attachedAt' = attachedAt
  <2>1. untold' \/ RewardCovers'
    BY <1>3 DEF RewardInv, RewardCovers, RewardBacked, Earning, rewarderVars
  <2>2. attachedAt' = 0 \/ rewarderPool'.last < attachedAt' =>
          \A v \in Stakers : rewarderUser'[v].amount = 0
    BY <1>3 DEF RewardInv, rewarderVars
  <2> QED BY <1>1, <1>2, <1>3, <2>1, <2>2 DEF RewardInv, rewarderVars
<1>4. CASE attachedAt' # attachedAt
  <2>1. attachedAt = 0 /\ attachedAt' = now
    BY <1>4 DEF Attaches
  <2>2. Earning(rewarderPool.last) = 0
    BY <2>1 DEF Earning
  <2>3. Earning(rewarderPool.last)' = 0
    <3>1. CASE rewarderPool.last < now
      BY <2>1, <3>1 DEF Earning, rewarderVars
    <3>2. CASE rewarderPool.last = now
      <4>1. Earning(rewarderPool.last)' = Max(RewardRates) * (now - now)
        BY <1>1, <2>1, <3>2 DEF Earning, rewarderVars
      <4>2. now - now = 0 /\ Max(RewardRates) * 0 = 0
        BY <1>1, EarningType
      <4> QED BY <4>1, <4>2
    <3> QED BY <1>1, <3>1, <3>2
  <2>4. untold' \/ RewardCovers'
    BY <2>2, <2>3 DEF RewardInv, RewardCovers, RewardBacked, rewarderVars
  <2>5. \A v \in Stakers : rewarderUser'[v].amount = 0
    BY <2>1 DEF RewardInv, rewarderVars
  <2> QED BY <1>1, <1>2, <2>1, <2>4, <2>5 DEF RewardInv, rewarderVars
<1> QED BY <1>3, <1>4

LEMMA RewardInvNext ==
  ChefInv /\ ChefInv' /\ KnowsIfTold /\ RewardInv /\ [Next]_vars => RewardInv'
<1> SUFFICES ASSUME ChefInv, ChefInv', KnowsIfTold, RewardInv, [Next]_vars PROVE RewardInv'
  OBVIOUS
<1>1. ASSUME NEW u \in Stakers, NEW pid \in PoolIds, UpdatePool(pid) PROVE RewardInv'
  BY <1>1, RewardLeft, UpdatesAttachNone DEF UpdatePool, rewarderVars, RewardInv
<1>2. ASSUME NEW u \in Stakers, NEW pid \in PoolIds, Harvest(u, pid) PROVE RewardInv'
  BY <1>2, RewardNotified, UpdatesAttachNone, StakeType DEF Harvest
<1>3. ASSUME NEW u \in Stakers, NEW pid \in PoolIds, EmergencyWithdraw(u, pid) PROVE RewardInv'
  <2>1. NoneAttached /\ Notifies(pid, u, 0) /\ 0 \in Nat /\ UNCHANGED <<now, attachedAt>>
    BY <1>3 DEF EmergencyWithdraw, NoneAttached, HasRewarder, PoolIds
  <2> QED BY <2>1, RewardNotified
<1>4. ASSUME NEW u \in Stakers, NEW pid \in PoolIds, NEW amount \in LPAmounts, NEW to \in Stakers,
             Deposit(u, pid, amount, to)
      PROVE  RewardInv'
  <2> DEFINE stake == userInfo[pid][to].amount + amount
  <2>1. stake \in Nat
    BY StakeType, MiniChefAssumption
  <2>2. Updates(pid) /\ Notifies(pid, to, stake) /\ UNCHANGED <<now, attachedAt>>
    BY <1>4 DEF Deposit
  <2> HIDE DEF stake
  <2> QED BY <2>1, <2>2, RewardNotified, UpdatesAttachNone
<1>5. ASSUME NEW u \in Stakers, NEW pid \in PoolIds, NEW amount \in LPAmounts,
             Withdraw(u, pid, amount) \/ WithdrawAndHarvest(u, pid, amount)
      PROVE  RewardInv'
  <2> DEFINE stake == userInfo[pid][u].amount - amount
  <2>1. stake \in Nat
    BY <1>5, StakeType, MiniChefAssumption DEF Withdraw, WithdrawAndHarvest
  <2>2. Updates(pid) /\ Notifies(pid, u, stake) /\ UNCHANGED <<now, attachedAt>>
    BY <1>5 DEF Withdraw, WithdrawAndHarvest
  <2> HIDE DEF stake
  <2> QED BY <2>1, <2>2, RewardNotified, UpdatesAttachNone
<1>6. ASSUME NEW u \in Stakers, NEW pid \in PoolIds, NEW amount \in LPGifts, SendLP(u, pid, amount)
      PROVE  RewardInv'
  BY <1>6, RewardLeft DEF SendLP, rewarderVars, NoneAttached, HasRewarder, PoolIds, RewardInv
<1>7. ASSUME NEW points \in AllocPoints, NEW rewarder \in Delegates, Add(points, rewarder)
      PROVE  RewardInv'
  <2>1. PICK n : n = Len(poolInfo) + 1
    OBVIOUS
  <2>2. HasRewarder' => HasRewarder \/ (n = RewarderPid /\ rewarder = "simple")
    <3>1. poolInfo \in Seq(Pool)
      BY DEF ChefInv, PoolsTyped
    <3>2. poolInfo' = Append(poolInfo, [acc |-> 0, last |-> now, alloc |-> points,
                                        rewarder |-> rewarder])
      BY <1>7 DEF Add
    <3>3. /\ Len(poolInfo') = n /\ poolInfo'[n].rewarder = rewarder
          /\ \A p \in 1 .. Len(poolInfo) : poolInfo'[p] = poolInfo[p]
      BY <2>1, <3>1, <3>2
    <3>4. Len(poolInfo) \in Nat
      BY <3>1
    <3> QED BY <2>1, <3>3, <3>4 DEF HasRewarder, PoolIds
  <2>3. Attaches(n, rewarder) /\ UNCHANGED <<now, rewarderVars, untold>>
    BY <1>7, <2>1 DEF Add
  <2> QED BY <2>2, <2>3, RewardAttached
<1>8. ASSUME NEW pid \in PoolIds, NEW points \in AllocPoints, NEW rewarder \in Delegates,
             NEW overwrite \in BOOLEAN, Set(pid, points, rewarder, overwrite)
      PROVE  RewardInv'
  <2>1. PICK given : given = poolInfo'[pid].rewarder
    OBVIOUS
  <2>2. HasRewarder' => HasRewarder \/ (pid = RewarderPid /\ given = "simple")
    <3>1. poolInfo[pid] \in Pool /\ pid \in DOMAIN poolInfo /\ poolInfo \in Seq(Pool)
      BY PidIsKnown DEF ChefInv, PoolsTyped
    <3>2. poolInfo' = [poolInfo EXCEPT ![pid].alloc = points,
                                       ![pid].rewarder = IF overwrite THEN rewarder ELSE @]
      BY <1>8 DEF Set
    <3>3. PoolIds' = PoolIds /\ \A p \in PoolIds \ {pid} : poolInfo'[p] = poolInfo[p]
      BY <3>1, <3>2 DEF PoolIds
    <3> QED BY <2>1, <3>3 DEF HasRewarder
  <2>3. Attaches(pid, given) /\ UNCHANGED <<now, rewarderVars, untold>>
    BY <1>8, <2>1 DEF Set
  <2> QED BY <2>2, <2>3, RewardAttached
<1>9. CASE \E rate \in SaddleRates : SetSaddlePerSecond(rate)
  BY <1>9, RewardLeft DEF SetSaddlePerSecond, rewarderVars, NoneAttached, HasRewarder, PoolIds, RewardInv
<1>10. CASE RewarderNext
  <2>1. NoneAttached /\ UNCHANGED <<now, attachedAt, untold>>
    BY <1>10 DEF RewarderNext, chefVars, NoneAttached, HasRewarder, PoolIds
  <2>2. CASE UpdateRewarder(lpHeld[RewarderPid])
    BY <2>1, <2>2, RewardUpdated
  <2>3. CASE \E rate \in RewardRates : SetRewardPerSecond(rate)
    BY <2>1, <2>3, RewardLeft DEF SetRewardPerSecond
  <2>4. CASE \E amount \in RewardFunds : FundRewarder(amount)
    BY <2>1, <2>4, RewardLeft DEF FundRewarder, RewardInv
  <2> QED BY <1>10, <2>2, <2>3, <2>4 DEF RewarderNext
<1>11. CASE Tick \/ UNCHANGED vars
  BY <1>11, RewardLeft DEF Tick, vars, chefVars, rewarderVars, NoneAttached, HasRewarder, PoolIds, RewardInv
<1>12. ASSUME NEW u \in Stakers, StakerNext(u) PROVE RewardInv'
  BY <1>1, <1>2, <1>3, <1>4, <1>5, <1>6, <1>12 DEF StakerNext
<1> QED BY <1>7, <1>8, <1>9, <1>10, <1>11, <1>12 DEF Next, OwnerNext

THEOREM RewardInvariant == Spec => [](KnowsIfTold /\ RewardInv)
BY ChefInvariant, KnowsInit, KnowsNext, RewardInvInit, RewardInvNext, PTL DEF Spec

(* Whenever it is attached, detached and attached again, however its rate  *)
(* changes and whoever updates it before: until a stake shrinks untold,    *)
(* the rewarder never owes and has paid more than the highest rate makes   *)
(* since it was first attached, but for a unit of rounding per report.     *)
THEOREM RewarderAlwaysPaysSinceAttached == Spec => []RewarderPaysSinceAttached
BY ChefInvariant, RewardInvariant, RewardPaysSince, PTL
==============================================================================
