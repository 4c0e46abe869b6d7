---------------------------- MODULE VotingEscrow ----------------------------
(***************************************************************************)
(* The vote-escrowed SDL (tokenomics/voting_escrow/VotingEscrow.vy).  A    *)
(* user locks SDL until the start of some week; the weight of the lock     *)
(* decays in a straight line and is zero at its end.  The contract keeps   *)
(* one line per user and one line for the total, apart from each other:    *)
(* the slope of the total changes at the weeks where locks end, and these  *)
(* changes are scheduled when the locks are made.                          *)
(*                                                                         *)
(* A point is a line: its value (bias) at a time (ts) and its slope.  The  *)
(* history of the points and the block numbers, which only the views of    *)
(* the past read, are not kept.                                            *)
(***************************************************************************)
EXTENDS Integers, FiniteSetsExt, Functions

CONSTANTS
  Users,        \* accounts that lock SDL; not contracts
  Escrow,       \* the account of this contract
  RewardPool,   \* the account of VeSDLRewards
  WEEK,         \* locks end at multiples of this
  MAXTIME,      \* the longest lock, and the time a slope is measured by
  MULTIPLIER,   \* scale of the penalty ratio
  MaxWeeks,     \* iterations of the loops over weeks (255)
  Wallet,       \* SDL of each user at the start
  Values,       \* amounts that are deposited
  UnlockTimes,  \* ends that are asked for
  Genesis,      \* timestamp of the block that creates the contract
  MaxTime       \* bound: last timestamp a behaviour reaches

ASSUME EscrowAssumption ==
  /\ IsFiniteSet(Users)
  /\ Escrow \notin Users /\ RewardPool \notin Users \cup {Escrow}
  /\ WEEK \in Nat \ {0} /\ MAXTIME \in Nat \ {0} /\ MULTIPLIER \in Nat \ {0}
  /\ MaxWeeks \in Nat
  /\ Wallet \in Nat /\ Values \subseteq Nat /\ UnlockTimes \subseteq Nat
  /\ Genesis \in Nat \ {0} /\ MaxTime \in Nat /\ Genesis <= MaxTime
  /\ MaxTime + MAXTIME <= MaxWeeks * WEEK

VARIABLES
  now,            \* block.timestamp
  sdl,            \* balances of the SDL token
  locked,         \* per user: amount and end of the lock
  supply,         \* SDL locked by all users
  point,          \* the line of the total: point_history[epoch]
  user_point,     \* the line of each user: its last user_point_history
  slope_changes,  \* change of the total's slope, per week
  is_unlocked     \* the admin has released all locks

escrowVars == <<locked, supply, point, user_point, slope_changes, is_unlocked>>
veVars == <<now, sdl, escrowVars>>

Accounts == Users \cup {Escrow, RewardPool}
WeekOf(t) == (t \div WEEK) * WEEK
Weeks == {WeekOf(t) : t \in 0 .. (MaxTime + MAXTIME)}

NoLock == [amount |-> 0, end |-> 0]
Flat(t) == [bias |-> 0, slope |-> 0, ts |-> t]
NotNegative == [i \in Int |-> IF i < 0 THEN 0 ELSE i]

Moved(from, to, amount) ==
  [sdl EXCEPT ![from] = @ - amount, ![to] = @ + amount]

-----------------------------------------------------------------------------
(* A mutant: the weight is rounded once, and not the slope.                *)
LineRoundedOnce(lock) ==
  IF lock.end > now /\ lock.amount > 0
    THEN [slope |-> lock.amount \div MAXTIME,
          bias  |-> (lock.amount * (lock.end - now)) \div MAXTIME,
          ts    |-> now]
    ELSE Flat(now)

(* The weight of a lock from now on.                                       *)
LineOf(lock) ==
  IF lock.end > now /\ lock.amount > 0
    THEN [slope |-> lock.amount \div MAXTIME,
          bias  |-> (lock.amount \div MAXTIME) * (lock.end - now),
          ts    |-> now]
    ELSE Flat(now)

(* The change of the slope that is due when the loop over the weeks, on    *)
(* its way to t, comes to a week.                                          *)
ChangeAt(week, t) == IF week > t THEN 0 ELSE slope_changes[week]

(* A mutant: the change of a week that begins right now is left out.       *)
ChangeBefore(week, t) == IF week >= t THEN 0 ELSE slope_changes[week]

(* The line p of the total brought to time t, from week to week; a step    *)
(* from t to t changes nothing.                                            *)
Walk(p, t) ==
  LET week(k) == WeekOf(p.ts) + k * WEEK
      stop(k) == IF k = 0 THEN p.ts ELSE Min({week(k), t})
      slope[k \in 0 .. MaxWeeks] ==
        IF k = 0 THEN p.slope ELSE NotNegative[slope[k - 1] + ChangeAt(week(k), t)]
      bias[k \in 0 .. MaxWeeks] ==
        IF k = 0 THEN p.bias
                 ELSE NotNegative[bias[k - 1] - slope[k - 1] * (stop(k) - stop(k - 1))]
  IN  [bias |-> bias[MaxWeeks], slope |-> slope[MaxWeeks], ts |-> stop(MaxWeeks)]

(* Before the first checkpoint the line of the total starts now.           *)
LastPoint == IF point.ts = 0 THEN Flat(now) ELSE point

(* A mutant: a longer lock leaves its slope at the week it used to end.    *)
RescheduleOnlyNew(old, new) ==
  IF new.end > now /\ new.end > old.end
    THEN [slope_changes EXCEPT ![new.end] = @ - LineOf(new).slope]
    ELSE slope_changes

(* The scheduled changes when a lock `old` becomes `new`: the slope of the *)
(* old lock no longer ends with it, the slope of the new one does.         *)
Reschedule(old, new) ==
  LET cancelled ==
        IF old.end > now
          THEN [slope_changes EXCEPT ![old.end] =
                  @ + LineOf(old).slope
                    - IF new.end = old.end THEN LineOf(new).slope ELSE 0]
          ELSE slope_changes
  IN  IF new.end > now /\ new.end > old.end
        THEN [cancelled EXCEPT ![new.end] = @ - LineOf(new).slope]
        ELSE cancelled

(* _checkpoint of a user whose lock `old` becomes `new`.                   *)
CheckpointUser(u, old, new) ==
  LET reached == Walk(LastPoint, now)
  IN  /\ point' = [reached EXCEPT
                     !.slope = NotNegative[@ + LineOf(new).slope - LineOf(old).slope],
                     !.bias  = NotNegative[@ + LineOf(new).bias - LineOf(old).bias]]
      /\ slope_changes' = Reschedule(old, new)
      /\ user_point' = [user_point EXCEPT ![u] = LineOf(new)]

(* balanceOf and totalSupply, at a time t not before now.  supply_at has   *)
(* only the last of the clamps at zero, the others being no-ops there.     *)
BalanceOf(u, t) ==
  NotNegative[user_point[u].bias - user_point[u].slope * (t - user_point[u].ts)]

TotalSupply(t) == Walk(point, t).bias

-----------------------------------------------------------------------------
VEInit ==
  /\ now = Genesis
  /\ sdl = [a \in Accounts |-> IF a \in Users THEN Wallet ELSE 0]
  /\ locked = [u \in Users |-> NoLock]
  /\ supply = 0
  /\ point = Flat(0)
  /\ user_point = [u \in Users |-> Flat(0)]
  /\ slope_changes = [w \in Weeks |-> 0]
  /\ is_unlocked = FALSE

(* _deposit_for: `value` of `from` is added to the lock of u, whose end    *)
(* becomes `end`.                                                          *)
DepositFor(from, u, value, end) ==
  LET lock == [amount |-> locked[u].amount + value, end |-> end]
  IN  /\ value <= sdl[from]
      /\ locked' = [locked EXCEPT ![u] = lock]
      /\ supply' = supply + value
      /\ CheckpointUser(u, locked[u], lock)
      /\ sdl' = Moved(from, Escrow, value)
      /\ UNCHANGED <<now, is_unlocked>>

CreateLock(u, value, unlock_time) ==
  /\ value > 0
  /\ locked[u].amount = 0
  /\ WeekOf(unlock_time) > now
  /\ WeekOf(unlock_time) <= now + MAXTIME
  /\ DepositFor(u, u, value, WeekOf(unlock_time))

(* deposit_for; increase_amount is the case from = u.                      *)
AddToLock(from, u, value) ==
  /\ value > 0
  /\ locked[u].amount > 0
  /\ locked[u].end > now
  /\ DepositFor(from, u, value, locked[u].end)

IncreaseUnlockTime(u, unlock_time) ==
  /\ locked[u].end > now
  /\ locked[u].amount > 0
  /\ WeekOf(unlock_time) > locked[u].end
  /\ WeekOf(unlock_time) <= now + MAXTIME
  /\ DepositFor(u, u, 0, WeekOf(unlock_time))

(* A mutant: the amount of the deleted lock stays in the supply.           *)
UnlockKeepsSupply(u) ==
  /\ locked' = [locked EXCEPT ![u] = NoLock]
  /\ CheckpointUser(u, locked[u], NoLock)
  /\ UNCHANGED <<now, supply, is_unlocked>>

(* What withdraw and force_withdraw share: the lock is deleted.            *)
Unlock(u) ==
  /\ locked' = [locked EXCEPT ![u] = NoLock]
  /\ supply' = supply - locked[u].amount
  /\ CheckpointUser(u, locked[u], NoLock)
  /\ UNCHANGED <<now, is_unlocked>>

Withdraw(u) ==
  /\ now >= locked[u].end \/ is_unlocked
  /\ Unlock(u)
  /\ sdl' = Moved(Escrow, u, locked[u].amount)

(* A mutant: the ratio is not scaled back.                                 *)
PenaltyUnscaled(lock) ==
  lock.amount * Min({(MULTIPLIER * 3) \div 4,
                     (MULTIPLIER * (lock.end - now)) \div MAXTIME})

(* The part of a lock that leaving it now costs.                           *)
Penalty(lock) ==
  LET ratio == Min({(MULTIPLIER * 3) \div 4,
                    (MULTIPLIER * (lock.end - now)) \div MAXTIME})
  IN  (lock.amount * ratio) \div MULTIPLIER

(* The penalty is donated to the reward pool.                              *)
ForceWithdraw(u) ==
  /\ ~is_unlocked
  /\ now < locked[u].end
  /\ Unlock(u)
  /\ sdl' = [sdl EXCEPT ![Escrow]     = @ - locked[u].amount,
                        ![u]          = @ + locked[u].amount - Penalty(locked[u]),
                        ![RewardPool] = @ + Penalty(locked[u])]

(* checkpoint(), open to everybody.                                        *)
Checkpoint ==
  /\ point' = Walk(LastPoint, now)
  /\ UNCHANGED <<now, sdl, locked, supply, user_point, slope_changes, is_unlocked>>

SetFundsUnlocked(unlocked) ==
  /\ is_unlocked' = unlocked
  /\ UNCHANGED <<now, sdl, locked, supply, point, user_point, slope_changes>>

(* Blocks are produced: the timestamp advances.                            *)
Tick ==
  /\ now < MaxTime
  /\ now' = now + 1
  /\ UNCHANGED <<sdl, escrowVars>>

VENext ==
  \/ \E u \in Users, value \in Values, t \in UnlockTimes : CreateLock(u, value, t)
  \/ \E from, u \in Users, value \in Values : AddToLock(from, u, value)
  \/ \E u \in Users, t \in UnlockTimes : IncreaseUnlockTime(u, t)
  \/ \E u \in Users : Withdraw(u) \/ ForceWithdraw(u)
  \/ Checkpoint
  \/ \E unlocked \in BOOLEAN : SetFundsUnlocked(unlocked)
  \/ Tick

VESpec == VEInit /\ [][VENext]_veVars

-----------------------------------------------------------------------------
SumOver(f) == SumFunctionOnSet(f, Users)

(* The variables have their types.                                         *)
VETypeOK ==
  /\ now \in Nat /\ supply \in Nat
  /\ sdl \in [Accounts -> Nat]
  /\ locked \in [Users -> [amount : Nat, end : Weeks]]
  /\ point \in [bias : Nat, slope : Nat, ts : Nat]
  /\ user_point \in [Users -> [bias : Nat, slope : Nat, ts : Nat]]
  /\ slope_changes \in [Weeks -> Int]
  /\ is_unlocked \in BOOLEAN

(* The line of the total and the users' lines, which _checkpoint changes   *)
(* apart from each other, agree now and at every later time: however locks *)
(* were made, topped up, extended, left early or forgotten, totalSupply is *)
(* the sum of balanceOf.                                                   *)
TotalIsSum ==
  \A t \in now .. (now + MAXTIME) :
     TotalSupply(t) = SumOver([u \in Users |-> BalanceOf(u, t)])

(* A user's weight is that of the lock the user has.                       *)
WeightComesFromLock ==
  \A u \in Users :
     BalanceOf(u, now) =
        (locked[u].amount \div MAXTIME) * NotNegative[locked[u].end - now]

(* The contract holds the SDL of all locks, and `supply` counts it.        *)
LocksAreBacked ==
  /\ sdl[Escrow] = supply
  /\ supply = SumOver([u \in Users |-> locked[u].amount])
==============================================================================
