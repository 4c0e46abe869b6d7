---------------------------- MODULE EscrowProofs ----------------------------
(***************************************************************************)
(* Proofs about the voting escrow and the rewards of veSDL holders, for    *)
(* any users, locks, amounts, rates and times.                             *)
(*                                                                         *)
(* The escrow.  EscrowInv says what the lines should be, in terms of the   *)
(* locks: a user's line is that of the lock (LinesFollowLocks), the line   *)
(* of the total is the sum of the locks' lines at its last checkpoint, and *)
(* every end after that is scheduled (TotalFollowsLocks).  WalkFollows is  *)
(* the loop over the weeks: it brings the sum from one time to a later     *)
(* one.  No clamp at zero ever changes a number on the way.                *)
(*                                                                         *)
(* The rewards.  RewardsInv adds that what is owed to all users at their   *)
(* present balances, what is queued and what is still to be paid out is    *)
(* in the pool (Backed), counted in the units of rewardPerToken, where     *)
(* only the divisions round, and down.  Every step is of one of three      *)
(* kinds (Kinds): it settles a user, sets a rate or lets balances fall.    *)
(***************************************************************************)
EXTENDS VeSDLRewards, ArithmeticLemmas

-----------------------------------------------------------------------------
(* Weeks: the multiples of WEEK a lock can end at.                         *)
LastEnd == MaxTime + MAXTIME

LEMMA WeekIsMultiple ==
  ASSUME NEW t \in Nat
  PROVE  /\ t \div WEEK \in Nat /\ WeekOf(t) = (t \div WEEK) * WEEK
         /\ WeekOf(t) \in Nat /\ WeekOf(t) <= t /\ t < WeekOf(t) + WEEK
<1> DEFINE q == t \div WEEK
<1>1. q \in Nat /\ WEEK * q <= t /\ t < WEEK * q + WEEK /\ WEEK \in Nat
  BY DivDef, EscrowAssumption
<1>2. WeekOf(t) = q * WEEK
  BY DEF WeekOf
<1> HIDE DEF q
<1>3. q * WEEK = WEEK * q /\ q * WEEK \in Nat
  BY <1>1
<1> QED BY <1>1, <1>2, <1>3 DEF q

LEMMA WeekOfMultiple == ASSUME NEW n \in Nat PROVE WeekOf(n * WEEK) = n * WEEK
<1>1. (n * WEEK) \div WEEK = n
  BY RampEnd, EscrowAssumption
<1> QED BY <1>1 DEF WeekOf

LEMMA WeeksAre ==
  ASSUME NEW w \in Weeks
  PROVE  w \in Nat /\ w <= LastEnd /\ \E n \in Nat : w = n * WEEK
<1>1. LastEnd \in Nat
  BY EscrowAssumption DEF LastEnd
<1>2. PICK t \in 0 .. LastEnd : w = WeekOf(t)
  BY DEF Weeks, LastEnd
<1>3. t \in Nat /\ t <= LastEnd
  BY <1>1, <1>2
<1>4. w \in Nat /\ w <= t /\ t \div WEEK \in Nat /\ w = (t \div WEEK) * WEEK
  BY <1>2, <1>3, WeekIsMultiple
<1> HIDE DEF LastEnd
<1>5. w <= LastEnd
  BY <1>1, <1>3, <1>4
<1> QED BY <1>4, <1>5

LEMMA MultipleIsWeek ==
  ASSUME NEW n \in Nat, n * WEEK <= LastEnd PROVE n * WEEK \in Weeks
<1>1. LastEnd \in Nat /\ n * WEEK \in Nat
  BY EscrowAssumption DEF LastEnd
<1> DEFINE w == n * WEEK
<1>2. w = WeekOf(w)
  BY WeekOfMultiple
<1>3. w \in 0 .. LastEnd
  BY <1>1
<1> HIDE DEF w
<1>4. w \in Weeks
  BY <1>2, <1>3 DEF Weeks, LastEnd
<1> QED BY <1>4 DEF w

(* After a week the next one begins WEEK later.                            *)
LEMMA NextWeek ==
  ASSUME NEW n \in Nat, NEW w \in Weeks, n * WEEK < w PROVE (n + 1) * WEEK <= w
<1>1. PICK m \in Nat : w = m * WEEK
  BY WeeksAre
<1>2. WEEK \in Nat \ {0}
  BY EscrowAssumption
<1>3. ~(m <= n)
  <2>1. m <= n => m * WEEK <= n * WEEK
    BY <1>2
  <2>2. m * WEEK \in Nat /\ n * WEEK \in Nat
    BY <1>2
  <2> QED BY <1>1, <2>1, <2>2
<1>4. n + 1 <= m
  BY <1>3
<1> QED BY <1>1, <1>2, <1>4

LEMMA MinOfTwo ==
  ASSUME NEW a \in Int, NEW b \in Int PROVE Min({a, b}) = IF a <= b THEN a ELSE b
BY DEF Min

LEMMA Clamp ==
  ASSUME NEW i \in Int
  PROVE  /\ NotNegative[i] \in Nat
         /\ i >= 0 => NotNegative[i] = i
         /\ i <= 0 => NotNegative[i] = 0
BY DEF NotNegative

-----------------------------------------------------------------------------
(* What the lines should be: the slope and the weight of every lock.       *)
LockType == [amount : Nat, end : Weeks]
Locks == [Users -> LockType]

SlopeOf(lock) == lock.amount \div MAXTIME
SlopeAt(lock, t) == IF lock.end > t THEN SlopeOf(lock) ELSE 0
WeightAt(lock, t) == SlopeOf(lock) * NotNegative[lock.end - t]
EndingAt(lock, w) == IF lock.end = w THEN SlopeOf(lock) ELSE 0

Slopes(locks, t)  == [u \in Users |-> SlopeAt(locks[u], t)]
Weights(locks, t) == [u \in Users |-> WeightAt(locks[u], t)]
Ending(locks, w)  == [u \in Users |-> EndingAt(locks[u], w)]

LEMMA LockTypes ==
  ASSUME NEW lock \in LockType
  PROVE  /\ lock.amount \in Nat /\ lock.end \in Nat /\ lock.end \in Weeks /\ lock.end <= LastEnd
         /\ SlopeOf(lock) \in Nat /\ (lock.amount = 0 => SlopeOf(lock) = 0)
         /\ \A t \in Int : /\ SlopeAt(lock, t) \in Nat /\ WeightAt(lock, t) \in Nat
                           /\ EndingAt(lock, t) \in Nat
                           /\ lock.end <= t => SlopeAt(lock, t) = 0 /\ WeightAt(lock, t) = 0
                           /\ lock.end > t => /\ SlopeAt(lock, t) = SlopeOf(lock)
                                              /\ WeightAt(lock, t) = SlopeOf(lock) * (lock.end - t)
<1>1. lock.amount \in Nat /\ lock.end \in Weeks
  BY DEF LockType
<1>2. lock.end \in Nat /\ lock.end <= LastEnd
  BY <1>1, WeeksAre
<1>3. SlopeOf(lock) \in Nat
  BY <1>1, DivDef, EscrowAssumption DEF SlopeOf
<1>4. lock.amount = 0 => SlopeOf(lock) = 0
  BY RampStart, EscrowAssumption DEF SlopeOf
<1>5. ASSUME NEW t \in Int
      PROVE  /\ SlopeAt(lock, t) \in Nat /\ WeightAt(lock, t) \in Nat
             /\ EndingAt(lock, t) \in Nat
             /\ lock.end <= t => SlopeAt(lock, t) = 0 /\ WeightAt(lock, t) = 0
             /\ lock.end > t => /\ SlopeAt(lock, t) = SlopeOf(lock)
                                /\ WeightAt(lock, t) = SlopeOf(lock) * (lock.end - t)
  <2> DEFINE d == lock.end - t
  <2>1. d \in Int /\ (lock.end <= t <=> d <= 0) /\ (lock.end > t <=> d > 0)
    BY <1>2
  <2> HIDE DEF d
  <2>2. NotNegative[d] \in Nat /\ (d <= 0 => NotNegative[d] = 0) /\ (d > 0 => NotNegative[d] = d)
    BY <2>1, Clamp
  <2>3. SlopeOf(lock) * NotNegative[d] \in Nat /\ SlopeOf(lock) * 0 = 0
    BY <1>3, <2>2
  <2>4. WeightAt(lock, t) = SlopeOf(lock) * NotNegative[d]
    BY DEF WeightAt, d
  <2>5. /\ WeightAt(lock, t) \in Nat
        /\ lock.end <= t => WeightAt(lock, t) = 0
        /\ lock.end > t => WeightAt(lock, t) = SlopeOf(lock) * d
    BY <2>1, <2>2, <2>3, <2>4
  <2>6. SlopeAt(lock, t) \in Nat /\ EndingAt(lock, t) \in Nat
    BY <1>3 DEF SlopeAt, EndingAt
  <2>7. /\ lock.end <= t => SlopeAt(lock, t) = 0
        /\ lock.end > t => SlopeAt(lock, t) = SlopeOf(lock)
    BY <1>2 DEF SlopeAt
  <2> QED BY <2>5, <2>6, <2>7 DEF d
<1> QED BY <1>1, <1>2, <1>3, <1>4, <1>5

LEMMA TotalTypes ==
  ASSUME NEW locks \in Locks, NEW t \in Int
  PROVE  /\ \A u \in Users : /\ Slopes(locks, t)[u] \in Nat /\ Weights(locks, t)[u] \in Nat
                             /\ Ending(locks, t)[u] \in Nat
         /\ SumOver(Slopes(locks, t)) \in Nat /\ SumOver(Weights(locks, t)) \in Nat
         /\ SumOver(Ending(locks, t)) \in Nat
<1>1. \A u \in Users : /\ Slopes(locks, t)[u] \in Nat /\ Weights(locks, t)[u] \in Nat
                       /\ Ending(locks, t)[u] \in Nat
  BY LockTypes DEF Locks, Slopes, Weights, Ending
<1> QED BY <1>1, SumNat, EscrowAssumption DEF SumOver

(* From a to b, when no lock ends in between: the total of the slopes      *)
(* loses what ends at b, ...                                               *)
LEMMA SlopesDrop ==
  ASSUME NEW locks \in Locks, NEW a \in Int, NEW b \in Int, a < b,
         \A u \in Users : locks[u].end > a => locks[u].end >= b
  PROVE  SumOver(Slopes(locks, a)) = SumOver(Slopes(locks, b)) + SumOver(Ending(locks, b))
<1>1. ASSUME NEW u \in Users
      PROVE  /\ Slopes(locks, b)[u] \in Int /\ Ending(locks, b)[u] \in Int
             /\ Slopes(locks, a)[u] = Slopes(locks, b)[u] + Ending(locks, b)[u]
  <2>1. locks[u] \in LockType
    BY DEF Locks
  <2>2. SlopeOf(locks[u]) \in Nat /\ locks[u].end \in Nat
    BY <2>1, LockTypes
  <2> QED BY <2>2 DEF Slopes, Ending, SlopeAt, EndingAt
<1> QED BY <1>1, SumPlus, EscrowAssumption DEF SumOver

(* ... and stays the same when nothing ends at b either.                   *)
LEMMA SlopesStay ==
  ASSUME NEW locks \in Locks, NEW a \in Int, NEW b \in Int, a <= b,
         \A u \in Users : locks[u].end > a => locks[u].end > b
  PROVE  Slopes(locks, a) = Slopes(locks, b)
<1>1. ASSUME NEW u \in Users PROVE SlopeAt(locks[u], a) = SlopeAt(locks[u], b)
  <2>1. locks[u] \in LockType
    BY DEF Locks
  <2>2. locks[u].end \in Nat
    BY <2>1, LockTypes
  <2> QED BY <2>2 DEF SlopeAt
<1> QED BY <1>1 DEF Slopes

(* The weights fall in straight lines.                                     *)
LEMMA WeightsFall ==
  ASSUME NEW locks \in Locks, NEW a \in Int, NEW b \in Int, a <= b,
         \A u \in Users : locks[u].end > a => locks[u].end >= b
  PROVE  SumOver(Weights(locks, a))
           = SumOver(Weights(locks, b)) + SumOver(Slopes(locks, a)) * (b - a)
<1> DEFINE d == b - a
           lost == [u \in Users |-> d * Slopes(locks, a)[u]]
<1>1. d \in Int
  OBVIOUS
<1>2. \A u \in Users : Slopes(locks, a)[u] \in Nat /\ Weights(locks, b)[u] \in Nat
  BY TotalTypes
<1>3. ASSUME NEW u \in Users
      PROVE  lost[u] \in Int /\ Weights(locks, a)[u] = Weights(locks, b)[u] + lost[u]
  <2> DEFINE lock == locks[u]
             s == SlopeOf(lock)
             e == lock.end
  <2>1. lock \in LockType
    BY DEF Locks
  <2>2. lost[u] = d * SlopeAt(lock, a)
        /\ Weights(locks, a)[u] = WeightAt(lock, a) /\ Weights(locks, b)[u] = WeightAt(lock, b)
    BY DEF Slopes, Weights
  <2>3. /\ s \in Nat /\ e \in Nat /\ SlopeAt(lock, a) \in Nat
        /\ e <= a => SlopeAt(lock, a) = 0 /\ WeightAt(lock, a) = 0
        /\ e > a => SlopeAt(lock, a) = s /\ WeightAt(lock, a) = s * (e - a)
        /\ e <= b => WeightAt(lock, b) = 0
        /\ e > b => WeightAt(lock, b) = s * (e - b)
    BY <2>1, LockTypes
  <2>4. e > a => e >= b
    OBVIOUS
  <2> HIDE DEF lock, s, e, lost
  <2>5. CASE e <= a
    <3>1. e <= b
      BY <2>3, <2>5
    <3>2. d * 0 = 0
      BY <1>1
    <3> QED BY <2>2, <2>3, <2>5, <3>1, <3>2
  <2>6. CASE e > a
    <3>1. WeightAt(lock, b) = s * (e - b)
      <4>1. CASE e = b
        <5>1. s * (e - b) = 0
          BY <2>3, <4>1
        <5> QED BY <2>3, <4>1, <5>1
      <4> QED BY <2>3, <2>4, <2>6, <4>1
    <3>2. s * (e - a) = s * (e - b) + (b - a) * s /\ (b - a) * s \in Int
      BY <2>3
    <3> QED BY <2>2, <2>3, <2>6, <3>1, <3>2
  <2> QED BY <2>3, <2>5, <2>6
<1>4. \A u \in Users : lost[u] = d * Slopes(locks, a)[u]
  OBVIOUS
<1> HIDE DEF d, lost
<1>5. \A u \in Users : Slopes(locks, a)[u] \in Int /\ Weights(locks, b)[u] \in Int
  BY <1>2
<1>6. SumOver(Weights(locks, a)) = SumOver(Weights(locks, b)) + SumOver(lost)
  BY <1>3, <1>5, SumPlus, EscrowAssumption DEF SumOver
<1>7. SumOver(lost) = d * SumOver(Slopes(locks, a))
  BY <1>1, <1>4, <1>5, SumTimes, EscrowAssumption DEF SumOver
<1>8. d * SumOver(Slopes(locks, a)) = SumOver(Slopes(locks, a)) * d
  BY <1>1, TotalTypes
<1> QED BY <1>6, <1>7, <1>8 DEF d

-----------------------------------------------------------------------------
(* The walk over the weeks.  Its stops are the weeks after it starts, and  *)
(* the time it goes to.                                                    *)
WeekAfter(from, k) == WeekOf(from) + k * WEEK
StopAt(from, k, t) == IF k = 0 THEN from ELSE Min({WeekAfter(from, k), t})

LEMMA WeekAfterType ==
  ASSUME NEW from \in Nat, NEW k \in Nat
  PROVE  /\ WeekAfter(from, k) \in Nat /\ WeekAfter(from, k + 1) = WeekAfter(from, k) + WEEK
         /\ WeekAfter(from, 0) <= from /\ from < WeekAfter(from, 1)
         /\ \E n \in Nat : WeekAfter(from, k) = n * WEEK
<1> DEFINE m == from \div WEEK
           v == WeekOf(from)
<1>1. m \in Nat /\ v = m * WEEK /\ v \in Nat /\ v <= from /\ from < v + WEEK /\ WEEK \in Nat
  BY WeekIsMultiple, EscrowAssumption
<1> HIDE DEF m, v
<1>2. /\ k * WEEK \in Nat /\ (k + 1) * WEEK = k * WEEK + WEEK /\ 0 * WEEK = 0 /\ 1 * WEEK = WEEK
      /\ m * WEEK + k * WEEK = (m + k) * WEEK /\ m + k \in Nat
  BY <1>1
<1>3. \A j : WeekAfter(from, j) = v + j * WEEK
  BY DEF WeekAfter, v
<1>4. WeekAfter(from, k) = (m + k) * WEEK
  BY <1>1, <1>2, <1>3
<1>5. WeekAfter(from, k) \in Nat /\ WeekAfter(from, k + 1) = WeekAfter(from, k) + WEEK
  BY <1>1, <1>2, <1>3
<1>6. WeekAfter(from, 0) <= from /\ from < WeekAfter(from, 1)
  BY <1>1, <1>2, <1>3
<1> QED BY <1>2, <1>4, <1>5, <1>6

(* From one stop to the next no lock ends in between; and none ends at the *)
(* next one unless that is a week.                                         *)
LEMMA StopStep ==
  ASSUME NEW from \in Nat, NEW t \in Nat, from <= t, t <= LastEnd, NEW k \in Nat
  PROVE  LET a == StopAt(from, k, t)
             b == StopAt(from, k + 1, t)
             w == WeekAfter(from, k + 1)
         IN  /\ a \in Nat /\ b \in Nat /\ w \in Nat /\ from <= a /\ a <= b
             /\ w <= t => b = w /\ a < b /\ w \in Weeks
             /\ \A e \in Weeks : e > a => e >= b
             /\ w > t => \A e \in Weeks : e > a => e > b
<1> DEFINE a == StopAt(from, k, t)
           b == StopAt(from, k + 1, t)
           v == WeekAfter(from, k)
           w == WeekAfter(from, k + 1)
<1>1. v \in Nat /\ w \in Nat /\ w = v + WEEK /\ WEEK \in Nat \ {0}
  <2>1. v \in Nat /\ w = v + WEEK
    BY WeekAfterType
  <2> HIDE DEF v, w
  <2> QED BY <2>1, EscrowAssumption
<1>2. PICK n \in Nat : v = n * WEEK
  BY WeekAfterType
<1>3. w = (n + 1) * WEEK
  BY <1>1, <1>2
<1>4. b = IF w <= t THEN w ELSE t
  <2>1. k + 1 # 0
    OBVIOUS
  <2>2. b = Min({w, t})
    BY <2>1 DEF StopAt
  <2>3. w \in Int /\ t \in Int
    BY <1>1
  <2> HIDE DEF w, b
  <2> QED BY <2>2, <2>3, MinOfTwo
<1>5. \/ a = t /\ v >= t
      \/ a = v /\ v < t /\ k # 0
      \/ k = 0 /\ a = from /\ v <= from /\ from < w
  <2>1. CASE k = 0
    <3>1. a = from
      BY <2>1 DEF StopAt
    <3>2. v <= from /\ from < w
      <4>1. WeekAfter(from, 0) <= from /\ from < WeekAfter(from, 1)
        BY 0 \in Nat, WeekAfterType
      <4>2. k + 1 = 1
        BY <2>1
      <4> QED BY <2>1, <4>1, <4>2
    <3> QED BY <2>1, <3>1, <3>2
  <2>2. CASE k # 0
    <3>1. a = Min({v, t})
      BY <2>2 DEF StopAt
    <3>2. v \in Int /\ t \in Int
      BY <1>1
    <3> HIDE DEF v, a
    <3>3. a = IF v <= t THEN v ELSE t
      BY <3>1, <3>2, MinOfTwo
    <3> QED BY <2>2, <3>2, <3>3
  <2> QED BY <2>1, <2>2
<1>6. from <= v \/ k = 0
  <2>1. SUFFICES ASSUME k # 0 PROVE from <= v
    OBVIOUS
  <2>2. k \in Nat /\ k >= 1 /\ WEEK \in Nat
    BY <1>1, <2>1
  <2>3. 1 * WEEK <= k * WEEK /\ 1 * WEEK \in Nat /\ k * WEEK \in Nat /\ WeekOf(from) \in Nat
    <3>1. WeekOf(from) \in Nat
      BY WeekIsMultiple
    <3>2. 1 * WEEK <= k * WEEK /\ 1 * WEEK \in Nat /\ k * WEEK \in Nat
      BY <2>2
    <3> QED BY <3>1, <3>2
  <2>4. WeekAfter(from, 1) <= v
    BY <2>2, <2>3 DEF WeekAfter
  <2>5. WeekAfter(from, 1) \in Nat /\ from < WeekAfter(from, 1)
    BY WeekAfterType
  <2> HIDE DEF v
  <2> QED BY <1>1, <2>4, <2>5
<1>7. w <= t => w \in Weeks
  <2>1. w <= t => (n + 1) * WEEK <= LastEnd
    <3>1. LastEnd \in Nat
      BY EscrowAssumption DEF LastEnd
    <3> HIDE DEF w
    <3> QED BY <1>1, <1>3, <3>1
  <2> HIDE DEF w
  <2> QED BY <1>3, <2>1, MultipleIsWeek
<1>8. \A e \in Weeks : e \in Nat /\ (e > v => e >= w)
  BY <1>2, <1>3, NextWeek, WeeksAre
<1> HIDE DEF a, b, v, w
<1>9. /\ a \in Nat /\ b \in Nat /\ from <= a /\ a <= b
      /\ w <= t => b = w /\ a < b
  BY <1>1, <1>4, <1>5, <1>6
<1>10. ASSUME NEW e \in Weeks, e > a PROVE e >= b /\ (w > t => e > b)
  BY <1>1, <1>4, <1>5, <1>8, <1>10
<1> QED BY <1>1, <1>7, <1>9, <1>10 DEF a, b, w

LEMMA StopLast ==
  ASSUME NEW from \in Nat, NEW t \in Nat, from <= t, t <= LastEnd
  PROVE  StopAt(from, MaxWeeks, t) = t
<1>1. /\ MaxWeeks \in Nat /\ WEEK \in Nat /\ LastEnd \in Nat \ {0} /\ LastEnd <= MaxWeeks * WEEK
      /\ MaxWeeks * WEEK \in Nat
  BY EscrowAssumption DEF LastEnd
<1>2. MaxWeeks # 0
  <2>1. 0 * WEEK = 0
    BY <1>1
  <2> QED BY <1>1, <2>1
<1>3. WeekOf(from) \in Nat
  BY WeekIsMultiple
<1>4. t <= WeekAfter(from, MaxWeeks) /\ WeekAfter(from, MaxWeeks) \in Int /\ t \in Int
  BY <1>1, <1>3 DEF WeekAfter
<1> QED BY <1>2, <1>4, MinOfTwo DEF StopAt

-----------------------------------------------------------------------------
(* A line p of the total that is the sum of the lines of the locks, and    *)
(* changes that are scheduled for every end after it: the walk brings the  *)
(* line to that sum at any later time.                                     *)
Scheduled(locks, from) ==
  \A w \in Weeks : w > from => slope_changes[w] = -SumOver(Ending(locks, w))

IsTotal(locks, p) ==
  /\ p.ts \in Nat
  /\ p.slope = SumOver(Slopes(locks, p.ts)) /\ p.bias = SumOver(Weights(locks, p.ts))

TotalLine(locks, t) ==
  [bias |-> SumOver(Weights(locks, t)), slope |-> SumOver(Slopes(locks, t)), ts |-> t]

(* One step of the walk.                                                   *)
LEMMA WalkStep ==
  ASSUME NEW locks \in Locks, NEW from \in Nat, Scheduled(locks, from),
         NEW t \in Nat, from <= t, t <= LastEnd, NEW k \in Nat
  PROVE  LET a == StopAt(from, k, t)
             b == StopAt(from, k + 1, t)
         IN  /\ SumOver(Slopes(locks, b)) =
                  NotNegative[SumOver(Slopes(locks, a)) + ChangeAt(WeekAfter(from, k + 1), t)]
             /\ SumOver(Weights(locks, b)) =
                  NotNegative[SumOver(Weights(locks, a)) - SumOver(Slopes(locks, a)) * (b - a)]
<1> DEFINE a == StopAt(from, k, t)
           b == StopAt(from, k + 1, t)
           w == WeekAfter(from, k + 1)
           change == ChangeAt(w, t)
<1>1. /\ a \in Nat /\ b \in Nat /\ w \in Nat /\ from <= a /\ a <= b
      /\ w <= t => b = w /\ a < b /\ w \in Weeks
      /\ \A e \in Weeks : e > a => e >= b
      /\ w > t => \A e \in Weeks : e > a => e > b
  BY StopStep
<1> HIDE DEF a, b, w
<1>2. \A u \in Users : locks[u].end \in Weeks
  BY DEF Locks, LockType
<1>3. /\ a \in Int /\ b \in Int
      /\ \A u \in Users : locks[u].end > a => locks[u].end >= b
  BY <1>1, <1>2
<1>4. /\ SumOver(Slopes(locks, a)) \in Nat /\ SumOver(Slopes(locks, b)) \in Nat
      /\ SumOver(Weights(locks, a)) \in Nat /\ SumOver(Weights(locks, b)) \in Nat
      /\ SumOver(Ending(locks, b)) \in Nat
  BY <1>3, TotalTypes
<1>5. SumOver(Slopes(locks, b)) = SumOver(Slopes(locks, a)) + change /\ change \in Int
  <2>1. CASE w <= t
    <3>1. change = slope_changes[b] /\ b \in Weeks /\ b > from /\ a < b
      BY <1>1, <2>1 DEF ChangeAt
    <3>2. change = -SumOver(Ending(locks, b))
      BY <3>1 DEF Scheduled
    <3>3. SumOver(Slopes(locks, a)) = SumOver(Slopes(locks, b)) + SumOver(Ending(locks, b))
      BY <1>3, <3>1, SlopesDrop
    <3> HIDE DEF change
    <3> QED BY <1>4, <3>2, <3>3
  <2>2. CASE w > t
    <3>1. change = 0
      BY <2>2 DEF ChangeAt
    <3>2. \A u \in Users : locks[u].end > a => locks[u].end > b
      BY <1>1, <1>2, <2>2
    <3>3. Slopes(locks, a) = Slopes(locks, b)
      BY <1>1, <1>3, <3>2, SlopesStay
    <3> HIDE DEF change
    <3> QED BY <1>4, <3>1, <3>3
  <2> QED BY <1>1, <2>1, <2>2
<1>6. SumOver(Weights(locks, a))
        = SumOver(Weights(locks, b)) + SumOver(Slopes(locks, a)) * (b - a)
  BY <1>1, <1>3, WeightsFall
<1> HIDE DEF change
<1>7. SumOver(Slopes(locks, a)) + change \in Int /\ SumOver(Slopes(locks, a)) + change >= 0
  BY <1>4, <1>5
<1>8. SumOver(Slopes(locks, b)) = NotNegative[SumOver(Slopes(locks, a)) + change]
  BY <1>5, <1>7, Clamp
<1> DEFINE fall == SumOver(Slopes(locks, a)) * (b - a)
<1>9. fall \in Int
  BY <1>3, <1>4
<1> HIDE DEF fall
<1>10. /\ SumOver(Weights(locks, a)) - fall = SumOver(Weights(locks, b))
       /\ SumOver(Weights(locks, a)) - fall \in Int /\ SumOver(Weights(locks, a)) - fall >= 0
  BY <1>4, <1>6, <1>9 DEF fall
<1>11. SumOver(Weights(locks, b)) = NotNegative[SumOver(Weights(locks, a)) - fall]
  BY <1>10, Clamp
<1> QED BY <1>8, <1>11 DEF a, b, w, change, fall

LEMMA WalkFollows ==
  ASSUME NEW locks \in Locks, NEW p, IsTotal(locks, p), Scheduled(locks, p.ts),
         NEW t \in Nat, p.ts <= t, t <= LastEnd
  PROVE  Walk(p, t) = TotalLine(locks, t)
<1> DEFINE from == p.ts
           N == MaxWeeks
           S(k) == SumOver(Slopes(locks, StopAt(from, k, t)))
           B(k) == SumOver(Weights(locks, StopAt(from, k, t)))
           IsSlope(f) == f = [k \in 0 .. N |->
             IF k = 0 THEN p.slope ELSE NotNegative[f[k - 1] + ChangeAt(WeekAfter(from, k), t)]]
           slope == CHOOSE f : IsSlope(f)
           IsBias(f) == f = [k \in 0 .. N |->
             IF k = 0 THEN p.bias
                      ELSE NotNegative[f[k - 1] - slope[k - 1] *
                                         (StopAt(from, k, t) - StopAt(from, k - 1, t))]]
           bias == CHOOSE f : IsBias(f)
<1>1. Walk(p, t) = [bias |-> bias[N], slope |-> slope[N], ts |-> StopAt(from, N, t)]
  BY DEF Walk, WeekAfter, StopAt
<1>2. N \in Nat /\ from \in Nat
  BY EscrowAssumption DEF IsTotal
<1>3. S(0) = p.slope /\ B(0) = p.bias
  BY DEF IsTotal, StopAt
<1>4. ASSUME NEW k \in 1 .. N
      PROVE  /\ S(k) = NotNegative[S(k - 1) + ChangeAt(WeekAfter(from, k), t)]
             /\ B(k) = NotNegative[B(k - 1) - S(k - 1) *
                                     (StopAt(from, k, t) - StopAt(from, k - 1, t))]
  <2> DEFINE j == k - 1
  <2>1. j \in Nat /\ j + 1 = k
    BY <1>2
  <2> HIDE DEF j
  <2>2. /\ S(j + 1) = NotNegative[S(j) + ChangeAt(WeekAfter(from, j + 1), t)]
        /\ B(j + 1) = NotNegative[B(j) - S(j) * (StopAt(from, j + 1, t) - StopAt(from, j, t))]
    BY <1>2, <2>1, WalkStep
  <2> HIDE DEF S, B
  <2> QED BY <2>1, <2>2 DEF j
<1> HIDE DEF S, B
<1>5. \A k \in 0 .. N : slope[k] = S(k)
  <2>1. \E f : IsSlope(f)
    <3> DEFINE f == [k \in 0 .. N |-> S(k)]
    <3>1. ASSUME NEW k \in 0 .. N
          PROVE  f[k] = IF k = 0 THEN p.slope
                                 ELSE NotNegative[f[k - 1] + ChangeAt(WeekAfter(from, k), t)]
      <4>1. CASE k = 0
        BY <1>3, <4>1
      <4>2. CASE k # 0
        <5>1. k \in 1 .. N /\ k - 1 \in 0 .. N
          BY <1>2, <4>2
        <5> QED BY <1>4, <4>2, <5>1
      <4> QED BY <4>1, <4>2
    <3>2. IsSlope(f)
      BY <3>1
    <3> QED BY <3>2
  <2>2. IsSlope(slope)
    BY <2>1
  <2> HIDE DEF slope
  <2>3. /\ 0 \in 0 .. N => slope[0] = p.slope
        /\ \A k \in 1 .. N : slope[k] = NotNegative[slope[k - 1] + ChangeAt(WeekAfter(from, k), t)]
    <3>1. \A k \in 1 .. N : k \in 0 .. N /\ k # 0
      BY <1>2
    <3> QED BY <2>2, <3>1
  <2> DEFINE Good == {k \in Nat : k <= N => slope[k] = S(k)}
  <2>4. 0 \in Good
    BY <1>2, <1>3, <2>3
  <2>5. ASSUME NEW k \in Nat, k \in Good PROVE k + 1 \in Good
    <3>1. SUFFICES ASSUME k + 1 <= N PROVE slope[k + 1] = S(k + 1)
      OBVIOUS
    <3>2. k + 1 \in 1 .. N /\ (k + 1) - 1 = k /\ k <= N
      BY <1>2, <3>1
    <3>3. slope[k] = S(k)
      BY <2>5, <3>2
    <3> QED BY <1>4, <2>3, <3>2, <3>3
  <2>6. Nat \subseteq Good
    <3> HIDE DEF Good
    <3> QED BY <2>4, <2>5, NumbersInduction
  <2> QED BY <1>2, <2>6
<1> HIDE DEF slope
<1>6. \A k \in 0 .. N : bias[k] = B(k)
  <2>1. \E f : IsBias(f)
    <3> DEFINE f == [k \in 0 .. N |-> B(k)]
    <3>1. ASSUME NEW k \in 0 .. N
          PROVE  f[k] = IF k = 0 THEN p.bias
                                 ELSE NotNegative[f[k - 1] - slope[k - 1] *
                                        (StopAt(from, k, t) - StopAt(from, k - 1, t))]
      <4>1. CASE k = 0
        BY <1>3, <4>1
      <4>2. CASE k # 0
        <5>1. k \in 1 .. N /\ k - 1 \in 0 .. N
          BY <1>2, <4>2
        <5> QED BY <1>4, <1>5, <4>2, <5>1
      <4> QED BY <4>1, <4>2
    <3>2. IsBias(f)
      BY <3>1
    <3> QED BY <3>2
  <2>2. IsBias(bias)
    BY <2>1
  <2> HIDE DEF bias
  <2>3. /\ 0 \in 0 .. N => bias[0] = p.bias
        /\ \A k \in 1 .. N : bias[k] = NotNegative[bias[k - 1] - slope[k - 1] *
                                         (StopAt(from, k, t) - StopAt(from, k - 1, t))]
    <3>1. \A k \in 1 .. N : k \in 0 .. N /\ k # 0
      BY <1>2
    <3> QED BY <2>2, <3>1
  <2> DEFINE Good == {k \in Nat : k <= N => bias[k] = B(k)}
  <2>4. 0 \in Good
    BY <1>2, <1>3, <2>3
  <2>5. ASSUME NEW k \in Nat, k \in Good PROVE k + 1 \in Good
    <3>1. SUFFICES ASSUME k + 1 <= N PROVE bias[k + 1] = B(k + 1)
      OBVIOUS
    <3>2. k + 1 \in 1 .. N /\ (k + 1) - 1 = k /\ k <= N /\ k \in 0 .. N
      BY <1>2, <3>1
    <3>3. bias[k] = B(k) /\ slope[k] = S(k)
      BY <1>5, <2>5, <3>2
    <3> QED BY <1>4, <2>3, <3>2, <3>3
  <2>6. Nat \subseteq Good
    <3> HIDE DEF Good
    <3> QED BY <2>4, <2>5, NumbersInduction
  <2> QED BY <1>2, <2>6
<1>7. StopAt(from, N, t) = t
  BY <1>2, StopLast
<1>8. bias[N] = B(N) /\ slope[N] = S(N)
  BY <1>2, <1>5, <1>6
<1> HIDE DEF bias
<1>9. Walk(p, t) = [bias |-> B(N), slope |-> S(N), ts |-> t]
  BY <1>1, <1>7, <1>8
<1> QED BY <1>7, <1>9 DEF S, B, TotalLine

-----------------------------------------------------------------------------
(* The inductive invariant of the escrow.                                  *)
Line == [bias : Nat, slope : Nat, ts : Nat]

EscrowTyped ==
  /\ now \in Genesis .. MaxTime /\ supply \in Nat
  /\ sdl \in [Accounts -> Nat]
  /\ locked \in Locks
  /\ point \in Line /\ point.ts <= now
  /\ user_point \in [Users -> Line]
  /\ slope_changes \in [Weeks -> Int]
  /\ is_unlocked \in BOOLEAN

(* Without an amount there is no end, and before the first checkpoint of   *)
(* the total there are no locks.                                           *)
NoEndWithoutAmount == \A u \in Users : locked[u].amount = 0 => locked[u].end = 0
NotBegun == point.ts = 0 => \A u \in Users : locked[u].amount = 0

(* The line of a user is that of the lock, ...                             *)
IsLineOf(lock, p) ==
  /\ p.ts <= now
  /\ p.slope = SlopeAt(lock, p.ts) /\ p.bias = WeightAt(lock, p.ts)
LinesFollowLocks == \A u \in Users : IsLineOf(locked[u], user_point[u])

(* ... that of the total the sum of them, at the last checkpoint, and what *)
(* ends later is scheduled.                                                *)
TotalFollowsLocks == IsTotal(locked, point) /\ Scheduled(locked, point.ts)

EscrowInv ==
  /\ EscrowTyped /\ LocksAreBacked /\ NoEndWithoutAmount /\ NotBegun
  /\ LinesFollowLocks /\ TotalFollowsLocks

Amounts(locks) == [u \in Users |-> locks[u].amount]

LEMMA Times ==
  ASSUME EscrowTyped
  PROVE  /\ now \in Nat /\ now # 0 /\ now <= MaxTime /\ now <= LastEnd /\ LastEnd \in Nat
         /\ MAXTIME \in Nat /\ now + MAXTIME <= LastEnd /\ now + MAXTIME \in Nat
BY EscrowAssumption DEF EscrowTyped, LastEnd

LEMMA LineOfLock ==
  ASSUME EscrowTyped, NEW lock \in LockType
  PROVE  /\ LineOf(lock) \in Line /\ IsLineOf(lock, LineOf(lock))
         /\ LineOf(lock) = [bias |-> WeightAt(lock, now), slope |-> SlopeAt(lock, now), ts |-> now]
<1>1. now \in Nat /\ now \in Int
  BY Times
<1>2. /\ lock.amount \in Nat /\ lock.end \in Nat /\ SlopeOf(lock) \in Nat
      /\ lock.amount = 0 => SlopeOf(lock) = 0
      /\ SlopeAt(lock, now) \in Nat /\ WeightAt(lock, now) \in Nat
      /\ lock.end <= now => SlopeAt(lock, now) = 0 /\ WeightAt(lock, now) = 0
      /\ lock.end > now => /\ SlopeAt(lock, now) = SlopeOf(lock)
                           /\ WeightAt(lock, now) = SlopeOf(lock) * (lock.end - now)
  BY <1>1, LockTypes
<1>3. LineOf(lock) = [bias |-> WeightAt(lock, now), slope |-> SlopeAt(lock, now), ts |-> now]
  <2>1. CASE lock.end > now /\ lock.amount > 0
    <3>1. LineOf(lock) = [slope |-> SlopeOf(lock), bias |-> SlopeOf(lock) * (lock.end - now),
                          ts |-> now]
      BY <2>1 DEF LineOf, SlopeOf
    <3> QED BY <1>2, <2>1, <3>1
  <2>2. CASE lock.end > now /\ lock.amount = 0
    <3>1. LineOf(lock) = Flat(now)
      BY <2>2 DEF LineOf
    <3>2. 0 * (lock.end - now) = 0
      BY <1>1, <1>2
    <3> QED BY <1>2, <2>2, <3>1, <3>2 DEF Flat
  <2>3. CASE lock.end <= now
    <3>1. LineOf(lock) = Flat(now)
      BY <1>1, <1>2, <2>3 DEF LineOf
    <3> QED BY <1>2, <2>3, <3>1 DEF Flat
  <2> QED BY <1>1, <1>2, <2>1, <2>2, <2>3
<1> QED BY <1>1, <1>2, <1>3 DEF Line, IsLineOf

(* Before the first checkpoint nothing is locked or scheduled.             *)
LEMMA LastPointFollows ==
  ASSUME EscrowInv
  PROVE  LastPoint.ts <= now /\ IsTotal(locked, LastPoint) /\ Scheduled(locked, LastPoint.ts)
<1>1. now \in Nat /\ locked \in Locks /\ point \in Line /\ point.ts <= now
  BY Times DEF EscrowInv, EscrowTyped
<1>2. CASE point.ts # 0
  BY <1>1, <1>2 DEF LastPoint, EscrowInv, TotalFollowsLocks
<1>3. CASE point.ts = 0
  <2>1. LastPoint = Flat(now) /\ LastPoint.ts = now /\ LastPoint.slope = 0 /\ LastPoint.bias = 0
    BY <1>3 DEF LastPoint, Flat
  <2>2. Scheduled(locked, now)
    <3> SUFFICES ASSUME NEW w \in Weeks, w > now
                 PROVE  slope_changes[w] = -SumOver(Ending(locked, w))
      BY DEF Scheduled
    <3>1. w \in Nat
      BY WeeksAre
    <3>2. w > point.ts
      BY <1>1, <1>3, <3>1
    <3> QED BY <3>2 DEF EscrowInv, TotalFollowsLocks, Scheduled
  <2>3. ASSUME NEW u \in Users
        PROVE  Slopes(locked, now)[u] = 0 /\ Weights(locked, now)[u] = 0
    <3>1. locked[u] \in LockType /\ locked[u].amount = 0 /\ locked[u].end = 0
      BY <1>1, <1>3 DEF EscrowInv, NotBegun, NoEndWithoutAmount, Locks
    <3>2. locked[u].end <= now /\ now \in Int
      BY <1>1, <3>1
    <3>3. SlopeAt(locked[u], now) = 0 /\ WeightAt(locked[u], now) = 0
      BY <3>1, <3>2, LockTypes
    <3> QED BY <3>3 DEF Slopes, Weights
  <2>4. SumOver(Slopes(locked, now)) = 0 /\ SumOver(Weights(locked, now)) = 0
    BY <2>3, SumZero, EscrowAssumption DEF SumOver
  <2> QED BY <1>1, <2>1, <2>2, <2>4 DEF IsTotal
<1> QED BY <1>2, <1>3

LEMMA Reaches == ASSUME EscrowInv PROVE Walk(LastPoint, now) = TotalLine(locked, now)
<1>1. locked \in Locks /\ now \in Nat /\ now <= LastEnd
  BY Times DEF EscrowInv, EscrowTyped
<1>2. LastPoint.ts <= now /\ IsTotal(locked, LastPoint) /\ Scheduled(locked, LastPoint.ts)
  BY LastPointFollows
<1> HIDE DEF LastPoint
<1> QED BY <1>1, <1>2, WalkFollows

(* The views.                                                              *)
LEMMA TotalSupplyIs ==
  ASSUME EscrowInv, NEW t \in now .. (now + MAXTIME)
  PROVE  TotalSupply(t) = SumOver(Weights(locked, t)) /\ t \in Nat
<1>1. /\ locked \in Locks /\ t \in Nat /\ point.ts <= t /\ t <= LastEnd
      /\ IsTotal(locked, point) /\ Scheduled(locked, point.ts)
  BY Times DEF EscrowInv, EscrowTyped, TotalFollowsLocks, Line
<1>2. Walk(point, t) = TotalLine(locked, t)
  BY <1>1, WalkFollows
<1> QED BY <1>1, <1>2 DEF TotalSupply, TotalLine

LEMMA BalanceOfIs ==
  ASSUME EscrowInv, NEW u \in Users, NEW t \in Nat, now <= t
  PROVE  BalanceOf(u, t) = WeightAt(locked[u], t)
<1> DEFINE lock == locked[u]
           p == user_point[u]
           s == SlopeOf(lock)
           e == lock.end
<1>1. /\ lock \in LockType /\ p.ts \in Nat /\ p.ts <= t
      /\ p.slope = SlopeAt(lock, p.ts) /\ p.bias = WeightAt(lock, p.ts)
  BY Times DEF EscrowInv, EscrowTyped, Locks, Line, LinesFollowLocks, IsLineOf
<1> DEFINE fall == p.bias - p.slope * (t - p.ts)
<1>2. BalanceOf(u, t) = NotNegative[fall]
  BY DEF BalanceOf
<1> HIDE DEF lock, p
<1>3. /\ s \in Nat /\ e \in Nat
      /\ \A x \in Nat : /\ e <= x => SlopeAt(lock, x) = 0 /\ WeightAt(lock, x) = 0
                        /\ e > x => SlopeAt(lock, x) = s /\ WeightAt(lock, x) = s * (e - x)
  BY <1>1, LockTypes
<1> HIDE DEF s, e
<1>4. CASE e <= p.ts
  <2>1. p.slope = 0 /\ p.bias = 0 /\ e <= t
    BY <1>1, <1>3, <1>4
  <2>2. fall = 0
    <3>1. 0 * (t - p.ts) = 0
      BY <1>1
    <3> QED BY <2>1, <3>1
  <2>3. NotNegative[0] = 0 /\ WeightAt(lock, t) = 0
    BY <1>3, <2>1, Clamp
  <2> QED BY <1>2, <2>2, <2>3 DEF lock
<1>5. CASE e > p.ts
  <2>1. p.slope = s /\ p.bias = s * (e - p.ts)
    BY <1>1, <1>3, <1>5
  <2>2. fall = s * (e - t) /\ fall \in Int
    <3>1. s * (e - p.ts) - s * (t - p.ts) = s * (e - t) /\ s * (e - t) \in Int
      BY <1>1, <1>3
    <3> QED BY <2>1, <3>1
  <2> HIDE DEF fall
  <2>3. CASE e > t
    <3>1. fall = WeightAt(lock, t) /\ fall >= 0
      <4>1. e - t \in Nat
        BY <1>3, <2>3
      <4>2. s * (e - t) \in Nat
        BY <1>3, <4>1
      <4> QED BY <1>3, <2>2, <2>3, <4>2
    <3> QED BY <1>2, <2>2, <3>1, Clamp DEF lock
  <2>4. CASE e <= t
    <3>1. WeightAt(lock, t) = 0
      BY <1>3, <2>4
    <3>2. fall <= 0
      <4>1. t - e \in Nat
        BY <1>3, <2>4
      <4>2. s * (t - e) \in Nat /\ s * (e - t) = -(s * (t - e))
        BY <1>3, <4>1
      <4> QED BY <2>2, <4>2
    <3> QED BY <1>2, <2>2, <3>1, <3>2, Clamp DEF lock
  <2> QED BY <1>3, <2>3, <2>4
<1> QED BY <1>1, <1>3, <1>4, <1>5

-----------------------------------------------------------------------------
(* A checkpoint of a user whose lock becomes another one, later or none.   *)
Follows(new, old) ==
  /\ new \in LockType
  /\ new.amount = 0 => new.end = 0
  /\ new.end >= old.end \/ new.amount = 0

LEMMA Rescheduled ==
  ASSUME EscrowInv, NEW old \in LockType, NEW new, Follows(new, old)
  PROVE  /\ Reschedule(old, new) \in [Weeks -> Int]
         /\ \A w \in Weeks : w > now =>
              Reschedule(old, new)[w] = slope_changes[w] + (EndingAt(old, w) - EndingAt(new, w))
<1> DEFINE d == LineOf(old).slope
           e == LineOf(new).slope
           cancelled ==
             IF old.end > now
               THEN [slope_changes EXCEPT ![old.end] = @ + d - IF new.end = old.end THEN e ELSE 0]
               ELSE slope_changes
<1>1. Reschedule(old, new) =
        IF new.end > now /\ new.end > old.end
          THEN [cancelled EXCEPT ![new.end] = @ - e] ELSE cancelled
  BY DEF Reschedule
<1>2. /\ now \in Nat /\ slope_changes \in [Weeks -> Int]
      /\ new \in LockType /\ (new.amount = 0 => new.end = 0)
      /\ new.end >= old.end \/ new.amount = 0
  BY Times DEF EscrowInv, EscrowTyped, Follows
<1>3. /\ old.end \in Weeks /\ old.end \in Nat /\ new.end \in Weeks /\ new.end \in Nat
      /\ d = SlopeAt(old, now) /\ e = SlopeAt(new, now) /\ d \in Nat /\ e \in Nat
  <2>1. d = SlopeAt(old, now) /\ e = SlopeAt(new, now)
    BY <1>2, LineOfLock DEF EscrowInv
  <2>2. SlopeAt(old, now) \in Nat /\ SlopeAt(new, now) \in Nat
    BY <1>2, LockTypes
  <2> QED BY <1>2, <2>1, <2>2, LockTypes
<1>4. ASSUME NEW w \in Weeks, w > now
      PROVE  /\ EndingAt(old, w) = (IF old.end = w THEN d ELSE 0)
             /\ EndingAt(new, w) = (IF new.end = w THEN e ELSE 0)
  BY <1>3, <1>4 DEF EndingAt, SlopeAt
<1>5. \A w \in Weeks : w \in Nat
  BY WeeksAre
<1> HIDE DEF d, e
<1>6. /\ cancelled \in [Weeks -> Int]
      /\ \A w \in Weeks : cancelled[w] =
           IF old.end > now /\ w = old.end
             THEN slope_changes[w] + (d - IF new.end = old.end THEN e ELSE 0)
             ELSE slope_changes[w]
  <2>1. CASE old.end > now
    <3> DEFINE x == d - IF new.end = old.end THEN e ELSE 0
    <3>1. x \in Int
      BY <1>3
    <3>2. cancelled = [slope_changes EXCEPT ![old.end] = @ + x]
      BY <2>1
    <3> HIDE DEF x, cancelled
    <3>3. slope_changes[old.end] + x \in Int
      BY <1>2, <1>3, <3>1
    <3>4. cancelled \in [Weeks -> Int]
      BY <1>2, <3>2, <3>3
    <3>5. \A w \in Weeks : cancelled[w] = IF w = old.end THEN slope_changes[w] + x
                                                          ELSE slope_changes[w]
      BY <1>2, <3>2
    <3> QED BY <2>1, <3>4, <3>5 DEF x
  <2>2. CASE ~(old.end > now)
    BY <1>2, <2>2
  <2> QED BY <2>1, <2>2
<1> HIDE DEF cancelled
<1>7. Reschedule(old, new) \in [Weeks -> Int]
  BY <1>1, <1>3, <1>6
<1>8. ASSUME NEW w \in Weeks, w > now
      PROVE  Reschedule(old, new)[w] = slope_changes[w] + (EndingAt(old, w) - EndingAt(new, w))
  <2>1. w \in Nat /\ slope_changes[w] \in Int /\ cancelled[w] \in Int
    BY <1>2, <1>5, <1>6
  <2>2. Reschedule(old, new)[w] =
          IF new.end > now /\ new.end > old.end /\ w = new.end THEN cancelled[w] - e
                                                               ELSE cancelled[w]
    BY <1>1, <1>6
  <2>3. new.amount = 0 => new.end # w
    BY <1>2, <1>8, <2>1
  <2> QED BY <1>2, <1>3, <1>4, <1>6, <1>8, <2>1, <2>2, <2>3
<1> QED BY <1>7, <1>8

LEMMA CheckpointMoves ==
  ASSUME EscrowInv, NEW u \in Users, NEW new, Follows(new, locked[u]),
         CheckpointUser(u, locked[u], new), locked' = [locked EXCEPT ![u] = new], now' = now
  PROVE  /\ point' \in Line /\ point'.ts = now /\ slope_changes' \in [Weeks -> Int]
         /\ user_point' \in [Users -> Line]
         /\ locked' \in Locks
         /\ LinesFollowLocks' /\ TotalFollowsLocks'
<1> DEFINE old == locked[u]
           S == Slopes(locked, now)
           W == Weights(locked, now)
<1>1. /\ now \in Nat /\ now \in Int /\ locked \in Locks /\ old \in LockType /\ new \in LockType
      /\ user_point \in [Users -> Line]
  BY Times DEF EscrowInv, EscrowTyped, Locks, Follows
<1>2. /\ LineOf(new) \in Line /\ IsLineOf(new, LineOf(new)) /\ LineOf(old) \in Line
      /\ LineOf(new).slope = SlopeAt(new, now) /\ LineOf(old).slope = SlopeAt(old, now)
      /\ LineOf(new).bias = WeightAt(new, now) /\ LineOf(old).bias = WeightAt(old, now)
  BY <1>1, LineOfLock DEF EscrowInv
<1>3. Walk(LastPoint, now) = [bias |-> SumOver(W), slope |-> SumOver(S), ts |-> now]
  BY Reaches DEF TotalLine
<1>4. /\ locked' \in Locks /\ locked'[u] = new /\ \A v \in Users \ {u} : locked'[v] = locked[v]
  BY <1>1 DEF Locks
<1>5. ASSUME NEW f, NEW g, \A v \in Users : f[v] \in Nat /\ g[v] \in Nat,
             \A v \in Users \ {u} : g[v] = f[v]
      PROVE  /\ SumOver(f) \in Nat /\ SumOver(g) \in Nat
             /\ SumOver(g) = SumOver(f) + (g[u] - f[u])
  <2>1. SumOver(f) \in Nat /\ SumOver(g) \in Nat
    BY <1>5, SumNat, EscrowAssumption DEF SumOver
  <2>2. \A v \in Users : f[v] \in Int /\ g[v] \in Int
    BY <1>5
  <2>3. SumFunctionOnSet(g, Users) = SumFunctionOnSet(f, Users) + g[u] - f[u]
    BY <1>5, <2>2, SumChange, EscrowAssumption
  <2>4. f[u] \in Nat /\ g[u] \in Nat
    BY <1>5
  <2> QED BY <2>1, <2>3, <2>4 DEF SumOver
<1>6. ASSUME NEW t \in Int
      PROVE  /\ SumOver(Slopes(locked', t)) = SumOver(Slopes(locked, t))
                                               + (SlopeAt(new, t) - SlopeAt(old, t))
             /\ SumOver(Weights(locked', t)) = SumOver(Weights(locked, t))
                                               + (WeightAt(new, t) - WeightAt(old, t))
             /\ SumOver(Ending(locked', t)) = SumOver(Ending(locked, t))
                                               + (EndingAt(new, t) - EndingAt(old, t))
  <2> DEFINE next == locked'
  <2>1. next \in Locks /\ next[u] = new /\ \A v \in Users \ {u} : next[v] = locked[v]
    BY <1>4
  <2> HIDE DEF next
  <2>2. \A v \in Users :
          /\ Slopes(locked, t)[v] \in Nat /\ Weights(locked, t)[v] \in Nat
          /\ Ending(locked, t)[v] \in Nat
          /\ Slopes(next, t)[v] \in Nat /\ Weights(next, t)[v] \in Nat
          /\ Ending(next, t)[v] \in Nat
    BY <1>1, <2>1, TotalTypes
  <2>3. \A v \in Users \ {u} :
          /\ Slopes(next, t)[v] = Slopes(locked, t)[v]
          /\ Weights(next, t)[v] = Weights(locked, t)[v]
          /\ Ending(next, t)[v] = Ending(locked, t)[v]
    BY <2>1 DEF Slopes, Weights, Ending
  <2>4. /\ Slopes(next, t)[u] = SlopeAt(new, t) /\ Slopes(locked, t)[u] = SlopeAt(old, t)
        /\ Weights(next, t)[u] = WeightAt(new, t) /\ Weights(locked, t)[u] = WeightAt(old, t)
        /\ Ending(next, t)[u] = EndingAt(new, t) /\ Ending(locked, t)[u] = EndingAt(old, t)
    BY <2>1 DEF Slopes, Weights, Ending
  <2> HIDE DEF old
  <2>5. SumOver(Slopes(next, t))
          = SumOver(Slopes(locked, t)) + (Slopes(next, t)[u] - Slopes(locked, t)[u])
    BY <1>5, <2>2, <2>3
  <2>6. SumOver(Weights(next, t))
          = SumOver(Weights(locked, t)) + (Weights(next, t)[u] - Weights(locked, t)[u])
    BY <1>5, <2>2, <2>3
  <2>7. SumOver(Ending(next, t))
          = SumOver(Ending(locked, t)) + (Ending(next, t)[u] - Ending(locked, t)[u])
    BY <1>5, <2>2, <2>3
  <2> QED BY <2>4, <2>5, <2>6, <2>7 DEF next
<1>7. /\ SumOver(Slopes(locked', now)) \in Nat /\ SumOver(Weights(locked', now)) \in Nat
  BY <1>1, <1>4, TotalTypes
<1>8. point' = TotalLine(locked', now)
  <2> DEFINE s == SumOver(S) + (SlopeAt(new, now) - SlopeAt(old, now))
             b == SumOver(W) + (WeightAt(new, now) - WeightAt(old, now))
  <2>1. s = SumOver(Slopes(locked', now)) /\ b = SumOver(Weights(locked', now))
    BY <1>1, <1>6
  <2>2. NotNegative[s] = s /\ NotNegative[b] = b
    BY <1>7, <2>1, Clamp
  <2>3. point' = [Walk(LastPoint, now) EXCEPT
                     !.slope = NotNegative[@ + LineOf(new).slope - LineOf(old).slope],
                     !.bias  = NotNegative[@ + LineOf(new).bias - LineOf(old).bias]]
    BY DEF CheckpointUser
  <2> DEFINE r == Walk(LastPoint, now)
             d == LineOf(new).slope - LineOf(old).slope
             e == LineOf(new).bias - LineOf(old).bias
  <2>4. r = [bias |-> SumOver(W), slope |-> SumOver(S), ts |-> now]
    BY <1>3
  <2>5. point' = [r EXCEPT !.slope = NotNegative[@ + d], !.bias  = NotNegative[@ + e]]
    BY <2>3
  <2>6. s = SumOver(S) + d /\ b = SumOver(W) + e
    BY <1>2
  <2> HIDE DEF r, d, e, S, W, s, b
  <2>7. point' = [bias |-> NotNegative[b], slope |-> NotNegative[s], ts |-> now]
    BY <2>4, <2>5, <2>6
  <2> QED BY <2>1, <2>2, <2>7 DEF TotalLine
<1>9. point' \in Line /\ point'.ts = now /\ IsTotal(locked', point')
  BY <1>1, <1>7, <1>8 DEF TotalLine, Line, IsTotal
<1>10. slope_changes' = Reschedule(old, new)
  BY DEF CheckpointUser
<1>11. slope_changes' \in [Weeks -> Int]
  BY <1>1, <1>10, Rescheduled
<1>12. Scheduled(locked, point.ts)'
  <2> SUFFICES ASSUME NEW w \in Weeks, w > now
               PROVE  slope_changes'[w] = -SumOver(Ending(locked', w))
    BY <1>9 DEF Scheduled, Weeks
  <2>1. w \in Nat /\ w \in Int /\ point.ts <= now /\ point.ts \in Nat
    BY WeeksAre DEF EscrowInv, EscrowTyped, Line
  <2>2. w > point.ts
    BY <1>1, <2>1
  <2>3. slope_changes[w] = -SumOver(Ending(locked, w))
    BY <2>2 DEF EscrowInv, TotalFollowsLocks, Scheduled
  <2>4. slope_changes'[w] = slope_changes[w] + (EndingAt(old, w) - EndingAt(new, w))
    BY <1>1, <1>10, Rescheduled
  <2>5. SumOver(Ending(locked', w))
          = SumOver(Ending(locked, w)) + (EndingAt(new, w) - EndingAt(old, w))
    BY <1>6, <2>1
  <2>6. /\ EndingAt(old, w) \in Nat /\ EndingAt(new, w) \in Nat
        /\ SumOver(Ending(locked, w)) \in Nat
    BY <1>1, <2>1, LockTypes, TotalTypes
  <2> HIDE DEF old
  <2> QED BY <2>3, <2>4, <2>5, <2>6
<1>13. user_point' = [user_point EXCEPT ![u] = LineOf(new)]
  BY DEF CheckpointUser
<1>14. user_point' \in [Users -> Line]
  BY <1>1, <1>2, <1>13
<1>15. LinesFollowLocks'
  <2> SUFFICES ASSUME NEW v \in Users PROVE IsLineOf(locked[v], user_point[v])'
    BY DEF LinesFollowLocks
  <2>1. CASE v = u
    <3>1. locked'[v] = new /\ user_point'[v] = LineOf(new)
      BY <1>1, <1>4, <1>13, <2>1
    <3> DEFINE p == LineOf(new)
    <3>2. p.ts <= now /\ p.slope = SlopeAt(new, p.ts) /\ p.bias = WeightAt(new, p.ts)
      BY <1>2 DEF IsLineOf
    <3> HIDE DEF p
    <3>3. user_point'[v] = p
      BY <3>1 DEF p
    <3> QED BY <3>1, <3>2, <3>3 DEF IsLineOf, SlopeAt, WeightAt, SlopeOf
  <2>2. CASE v # u
    <3>1. locked'[v] = locked[v] /\ user_point'[v] = user_point[v]
      BY <1>1, <1>4, <1>13, <2>2
    <3>2. IsLineOf(locked[v], user_point[v])
      BY DEF EscrowInv, LinesFollowLocks
    <3> QED BY <3>1, <3>2 DEF IsLineOf, SlopeAt, WeightAt, SlopeOf
  <2> QED BY <2>1, <2>2
<1>16. TotalFollowsLocks'
  <2>1. IsTotal(locked, point)'
    BY <1>9 DEF IsTotal
  <2> QED BY <1>12, <2>1 DEF TotalFollowsLocks
<1> QED BY <1>4, <1>9, <1>11, <1>14, <1>15, <1>16

-----------------------------------------------------------------------------
(* The operations of the escrow.                                           *)
LEMMA UnlockFollows == NoLock \in LockType /\ \A lock : Follows(NoLock, lock)
<1>1. 0 * WEEK = 0 /\ LastEnd \in Nat
  BY EscrowAssumption DEF LastEnd
<1>2. 0 \in Weeks
  BY <1>1, MultipleIsWeek
<1> QED BY <1>2 DEF Follows, LockType, NoLock

LEMMA EscrowInvInit == VEInit => EscrowInv
<1> SUFFICES ASSUME VEInit PROVE EscrowInv
  OBVIOUS
<1>1. NoLock \in LockType
  BY UnlockFollows
<1>2. \A u \in Users : locked[u].amount = 0 /\ locked[u].end = 0
  BY DEF VEInit, NoLock
<1>3. locked \in Locks
  BY <1>1 DEF VEInit, Locks
<1>4. EscrowTyped
  <2>1. now \in Genesis .. MaxTime /\ supply \in Nat /\ is_unlocked \in BOOLEAN
    <3>1. now = Genesis /\ supply = 0
      BY DEF VEInit
    <3>2. is_unlocked \in BOOLEAN
      BY DEF VEInit
    <3> QED BY <3>1, <3>2, EscrowAssumption
  <2>4. point.ts <= now
    <3>1. now = Genesis /\ point.ts = 0
      BY DEF VEInit, Flat
    <3> QED BY <3>1, EscrowAssumption
  <2>2. sdl \in [Accounts -> Nat]
    BY EscrowAssumption DEF VEInit
  <2>3. point \in Line /\ user_point \in [Users -> Line] /\ slope_changes \in [Weeks -> Int]
    BY DEF VEInit, Line, Flat
  <2> QED BY <1>3, <2>1, <2>2, <2>3, <2>4 DEF EscrowTyped
<1>5. LocksAreBacked
  <2>1. SumOver([u \in Users |-> locked[u].amount]) = 0
    BY <1>2, SumZero, EscrowAssumption DEF SumOver
  <2>2. sdl[Escrow] = 0 /\ supply = 0
    BY EscrowAssumption DEF VEInit, Accounts
  <2> QED BY <2>1, <2>2 DEF LocksAreBacked
<1>6. \A u \in Users : locked[u] \in LockType
  BY <1>3 DEF Locks
<1>7. LinesFollowLocks
  <2> SUFFICES ASSUME NEW u \in Users PROVE IsLineOf(locked[u], user_point[u])
    BY DEF LinesFollowLocks
  <2>1. SlopeAt(locked[u], 0) = 0 /\ WeightAt(locked[u], 0) = 0
    BY <1>2, <1>6, LockTypes
  <2>2. user_point[u].ts = 0 /\ user_point[u].slope = 0 /\ user_point[u].bias = 0
    BY DEF VEInit, Flat
  <2>3. 0 <= now
    BY <1>4, Times
  <2> QED BY <2>1, <2>2, <2>3 DEF IsLineOf
<1>8. TotalFollowsLocks
  <2>1. point.ts = 0 /\ point.slope = 0 /\ point.bias = 0
    BY DEF VEInit, Flat
  <2>2. ASSUME NEW u \in Users
        PROVE  Slopes(locked, 0)[u] = 0 /\ Weights(locked, 0)[u] = 0
    <3>1. SlopeAt(locked[u], 0) = 0 /\ WeightAt(locked[u], 0) = 0
      BY <1>2, <1>6, LockTypes
    <3> QED BY <3>1 DEF Slopes, Weights
  <2>3. SumOver(Slopes(locked, 0)) = 0 /\ SumOver(Weights(locked, 0)) = 0
    BY <2>2, SumZero, EscrowAssumption DEF SumOver
  <2>4. ASSUME NEW w \in Weeks PROVE slope_changes[w] = -SumOver(Ending(locked, w))
    <3>1. \A u \in Users : SlopeOf(locked[u]) = 0
      BY <1>2, <1>6, LockTypes
    <3>2. \A u \in Users : Ending(locked, w)[u] = 0
      BY <3>1 DEF Ending, EndingAt
    <3>3. SumOver(Ending(locked, w)) = 0
      BY <3>2, SumZero, EscrowAssumption DEF SumOver
    <3>4. slope_changes[w] = 0
      BY DEF VEInit
    <3>5. ASSUME NEW i \in Int, NEW j \in Int, i = 0, j = 0 PROVE i = -j
      <4>1. i + j = 0
        BY <3>5
      <4> QED BY <4>1
    <3>6. SumOver(Ending(locked, w)) \in Int /\ slope_changes[w] \in Int
      BY <3>3, <3>4
    <3> QED BY <3>3, <3>4, <3>5, <3>6
  <2> QED BY <2>1, <2>3, <2>4 DEF TotalFollowsLocks, IsTotal, Scheduled
<1> QED BY <1>2, <1>4, <1>5, <1>7, <1>8 DEF EscrowInv, NoEndWithoutAmount, NotBegun

(* The locks of all together, when one of them changes.                    *)
LEMMA AmountsMove ==
  ASSUME EscrowInv, NEW u \in Users, NEW new \in LockType, locked' = [locked EXCEPT ![u] = new]
  PROVE  /\ supply = SumOver(Amounts(locked)) /\ supply \in Nat /\ sdl[Escrow] = supply
         /\ SumOver(Amounts(locked')) \in Nat
         /\ SumOver(Amounts(locked')) = supply + (new.amount - locked[u].amount)
         /\ locked[u].amount \in Nat /\ locked[u].amount <= supply
<1> DEFINE f == Amounts(locked)
           g == Amounts(locked')
<1>1. locked \in Locks /\ IsFiniteSet(Users) /\ supply \in Nat
  BY EscrowAssumption DEF EscrowInv, EscrowTyped
<1>2. \A v \in Users : f[v] \in Nat
  BY <1>1 DEF Amounts, Locks, LockType
<1>3. g[u] = new.amount /\ new.amount \in Nat /\ \A v \in Users \ {u} : g[v] = f[v]
  BY <1>1 DEF Amounts, Locks, LockType
<1>4. f[u] = locked[u].amount
  BY DEF Amounts
<1>5. supply = SumOver(f) /\ sdl[Escrow] = supply
  BY DEF EscrowInv, LocksAreBacked, Amounts
<1> HIDE DEF f, g
<1>6. \A v \in Users : g[v] \in Nat
  BY <1>2, <1>3
<1>7. \A v \in Users : f[v] \in Int /\ g[v] \in Int
  BY <1>2, <1>6
<1>8. SumFunctionOnSet(g, Users) = SumFunctionOnSet(f, Users) + g[u] - f[u]
  BY <1>1, <1>3, <1>7, SumChange
<1>9. f[u] <= SumFunctionOnSet(f, Users)
  BY <1>1, <1>2, SumPart
<1>10. SumFunctionOnSet(g, Users) \in Nat /\ SumFunctionOnSet(f, Users) \in Nat
  BY <1>1, <1>2, <1>6, SumNat
<1>11. f[u] \in Nat /\ g[u] \in Nat
  BY <1>2, <1>6
<1> QED BY <1>1, <1>3, <1>4, <1>5, <1>8, <1>9, <1>10, <1>11 DEF SumOver, f, g

(* Any operation that changes a lock and moves the SDL for it.             *)
LEMMA LockChanges ==
  ASSUME EscrowInv, NEW u \in Users, NEW new, Follows(new, locked[u]),
         CheckpointUser(u, locked[u], new), locked' = [locked EXCEPT ![u] = new],
         UNCHANGED <<now, is_unlocked>>,
         supply' = supply + (new.amount - locked[u].amount),
         sdl' \in [Accounts -> Nat], sdl'[Escrow] = sdl[Escrow] + (new.amount - locked[u].amount)
  PROVE  EscrowInv'
<1>1. new \in LockType /\ (new.amount = 0 => new.end = 0)
  BY DEF Follows
<1>2. /\ supply = SumOver(Amounts(locked)) /\ sdl[Escrow] = supply
      /\ SumOver(Amounts(locked')) \in Nat
      /\ SumOver(Amounts(locked')) = supply + (new.amount - locked[u].amount)
  BY <1>1, AmountsMove
<1>3. LocksAreBacked'
  BY <1>2 DEF LocksAreBacked, Amounts
<1>4. /\ point' \in Line /\ point'.ts = now /\ slope_changes' \in [Weeks -> Int]
      /\ user_point' \in [Users -> Line] /\ locked' \in Locks
      /\ LinesFollowLocks' /\ TotalFollowsLocks'
  BY CheckpointMoves
<1>5. now \in Nat /\ now # 0
  BY Times DEF EscrowInv
<1>6. EscrowTyped'
  BY <1>2, <1>4, <1>5 DEF EscrowInv, EscrowTyped
<1>7. NotBegun'
  BY <1>4, <1>5 DEF NotBegun
<1>8. NoEndWithoutAmount'
  <2> SUFFICES ASSUME NEW v \in Users, locked'[v].amount = 0 PROVE locked'[v].end = 0
    BY DEF NoEndWithoutAmount
  <2>1. locked \in Locks
    BY DEF EscrowInv, EscrowTyped
  <2>2. CASE v = u
    BY <1>1, <2>1, <2>2 DEF Locks
  <2>3. CASE v # u
    BY <2>1, <2>3 DEF EscrowInv, NoEndWithoutAmount, Locks
  <2> QED BY <2>2, <2>3
<1> QED BY <1>3, <1>4, <1>6, <1>7, <1>8 DEF EscrowInv

LEMMA DepositInv ==
  ASSUME EscrowInv, NEW from \in Accounts \ {Escrow}, NEW u \in Users, NEW value \in Nat,
         NEW end \in Weeks, locked[u].end <= end, locked[u].amount + value > 0,
         DepositFor(from, u, value, end)
  PROVE  EscrowInv'
<1> DEFINE new == [amount |-> locked[u].amount + value, end |-> end]
<1>1. locked[u] \in LockType /\ sdl \in [Accounts -> Nat] /\ Escrow \in Accounts
  BY DEF EscrowInv, EscrowTyped, Locks, Accounts
<1>2. locked[u].amount \in Nat /\ locked[u].end \in Nat /\ end \in Nat
  BY <1>1, LockTypes, WeeksAre
<1>3. Follows(new, locked[u])
  BY <1>2 DEF Follows, LockType
<1>4. /\ locked' = [locked EXCEPT ![u] = new] /\ CheckpointUser(u, locked[u], new)
      /\ UNCHANGED <<now, is_unlocked>>
      /\ supply' = supply + value /\ value <= sdl[from]
      /\ sdl' = [sdl EXCEPT ![from] = @ - value, ![Escrow] = @ + value]
  BY DEF DepositFor, Moved
<1>5. sdl' \in [Accounts -> Nat] /\ sdl'[Escrow] = sdl[Escrow] + value
  BY <1>1, <1>4
<1>6. new.amount - locked[u].amount = value
  BY <1>2
<1> HIDE DEF new
<1> QED BY <1>3, <1>4, <1>5, <1>6, LockChanges

LEMMA EndIsWeek ==
  ASSUME EscrowInv, NEW t \in Nat, WeekOf(t) <= now + MAXTIME PROVE WeekOf(t) \in Weeks
<1>1. t \div WEEK \in Nat /\ WeekOf(t) = (t \div WEEK) * WEEK /\ WeekOf(t) \in Nat
  BY WeekIsMultiple
<1>2. WeekOf(t) <= LastEnd
  BY <1>1, Times DEF EscrowInv
<1> QED BY <1>1, <1>2, MultipleIsWeek

LEMMA CreateLockInv ==
  ASSUME EscrowInv, NEW u \in Users, NEW value \in Nat, NEW t \in Nat, CreateLock(u, value, t)
  PROVE  EscrowInv'
<1>1. /\ value > 0 /\ locked[u].amount = 0 /\ WeekOf(t) <= now + MAXTIME
      /\ DepositFor(u, u, value, WeekOf(t))
  BY DEF CreateLock
<1>2. WeekOf(t) \in Weeks /\ WeekOf(t) \in Nat
  BY <1>1, EndIsWeek, WeeksAre
<1>3. locked[u].end = 0
  BY <1>1 DEF EscrowInv, NoEndWithoutAmount
<1>4. locked[u].end <= WeekOf(t) /\ locked[u].amount + value > 0
  BY <1>1, <1>2, <1>3
<1>5. u \in Accounts \ {Escrow}
  BY EscrowAssumption DEF Accounts
<1> QED BY <1>1, <1>2, <1>4, <1>5, DepositInv

LEMMA AddToLockInv ==
  ASSUME EscrowInv, NEW from \in Accounts \ {Escrow}, NEW u \in Users, NEW value \in Nat,
         AddToLock(from, u, value)
  PROVE  EscrowInv'
<1>1. DepositFor(from, u, value, locked[u].end) /\ value > 0
  BY DEF AddToLock
<1>2. locked[u].end \in Weeks /\ locked[u].end \in Nat /\ locked[u].amount \in Nat
  BY LockTypes DEF EscrowInv, EscrowTyped, Locks
<1>3. locked[u].end <= locked[u].end /\ locked[u].amount + value > 0
  BY <1>1, <1>2
<1> QED BY <1>1, <1>2, <1>3, DepositInv

LEMMA IncreaseUnlockTimeInv ==
  ASSUME EscrowInv, NEW u \in Users, NEW t \in Nat, IncreaseUnlockTime(u, t)
  PROVE  EscrowInv'
<1>1. /\ locked[u].amount > 0 /\ WeekOf(t) > locked[u].end /\ WeekOf(t) <= now + MAXTIME
      /\ DepositFor(u, u, 0, WeekOf(t))
  BY DEF IncreaseUnlockTime
<1>2. WeekOf(t) \in Weeks /\ WeekOf(t) \in Nat
  BY <1>1, EndIsWeek, WeeksAre
<1>3. locked[u].end \in Nat /\ locked[u].amount \in Nat
  BY LockTypes DEF EscrowInv, EscrowTyped, Locks
<1>4. locked[u].end <= WeekOf(t) /\ locked[u].amount + 0 > 0 /\ 0 \in Nat
  BY <1>1, <1>2, <1>3
<1>5. u \in Accounts \ {Escrow}
  BY EscrowAssumption DEF Accounts
<1> QED BY <1>1, <1>2, <1>4, <1>5, DepositInv

LEMMA UnlockInv ==
  ASSUME EscrowInv, NEW u \in Users, Unlock(u), sdl' \in [Accounts -> Nat],
         sdl'[Escrow] = sdl[Escrow] - locked[u].amount
  PROVE  EscrowInv'
<1>1. /\ locked' = [locked EXCEPT ![u] = NoLock] /\ CheckpointUser(u, locked[u], NoLock)
      /\ supply' = supply - locked[u].amount /\ UNCHANGED <<now, is_unlocked>>
  BY DEF Unlock
<1>2. Follows(NoLock, locked[u]) /\ NoLock \in LockType
  BY UnlockFollows
<1>3. NoLock.amount = 0
  BY DEF NoLock
<1>4. supply \in Nat /\ sdl[Escrow] = supply /\ locked[u].amount \in Nat
  BY <1>1, <1>2, AmountsMove
<1>5. /\ supply' = supply + (NoLock.amount - locked[u].amount)
      /\ sdl'[Escrow] = sdl[Escrow] + (NoLock.amount - locked[u].amount)
  BY <1>1, <1>3, <1>4
<1> QED BY <1>1, <1>2, <1>5, LockChanges

LEMMA WithdrawInv == ASSUME EscrowInv, NEW u \in Users, Withdraw(u) PROVE EscrowInv'
<1> DEFINE amount == locked[u].amount
<1>1. sdl' = [sdl EXCEPT ![Escrow] = @ - amount, ![u] = @ + amount] /\ Unlock(u)
  BY DEF Withdraw, Moved
<1>2. sdl \in [Accounts -> Nat] /\ Escrow \in Accounts /\ u \in Accounts /\ u # Escrow
  BY EscrowAssumption DEF EscrowInv, EscrowTyped, Accounts
<1>3. amount \in Nat /\ amount <= sdl[Escrow]
  BY <1>1, AmountsMove, UnlockFollows DEF Unlock
<1> HIDE DEF amount
<1>4. sdl' \in [Accounts -> Nat] /\ sdl'[Escrow] = sdl[Escrow] - amount
  BY <1>1, <1>2, <1>3
<1> QED BY <1>1, <1>4, UnlockInv DEF amount

LEMMA PenaltyIsPart ==
  ASSUME EscrowInv, NEW lock \in LockType, now < lock.end PROVE Penalty(lock) \in 0 .. lock.amount
<1> DEFINE M == MULTIPLIER
           a == (M * 3) \div 4
           b == (M * (lock.end - now)) \div MAXTIME
<1>1. M \in Nat \ {0} /\ MAXTIME \in Nat \ {0} /\ lock.amount \in Nat /\ lock.end - now \in Nat
  BY EscrowAssumption, LockTypes, Times DEF EscrowInv
<1>2. a \in 0 .. M
  BY <1>1, PartOf
<1>3. b \in Nat
  <2>1. M * (lock.end - now) \in Nat
    BY <1>1
  <2> QED BY <1>1, <2>1, DivDef
<1>4. Penalty(lock) = (lock.amount * Min({a, b})) \div M
  BY DEF Penalty
<1> HIDE DEF a, b, M
<1>5. Min({a, b}) = IF a <= b THEN a ELSE b
  BY <1>2, <1>3, MinOfTwo
<1>6. Min({a, b}) \in Nat /\ Min({a, b}) <= M
  BY <1>1, <1>2, <1>3, <1>5
<1> QED BY <1>1, <1>4, <1>6, PartOf

LEMMA ForceWithdrawInv == ASSUME EscrowInv, NEW u \in Users, ForceWithdraw(u) PROVE EscrowInv'
<1> DEFINE amount  == locked[u].amount
           penalty == Penalty(locked[u])
<1>1. /\ sdl' = [sdl EXCEPT ![Escrow]     = @ - amount,
                            ![u]          = @ + amount - penalty,
                            ![RewardPool] = @ + penalty]
      /\ Unlock(u) /\ now < locked[u].end
  BY DEF ForceWithdraw
<1>2. /\ sdl \in [Accounts -> Nat] /\ Escrow \in Accounts /\ u \in Accounts /\ u # Escrow
      /\ RewardPool \in Accounts /\ RewardPool # u /\ RewardPool # Escrow
      /\ locked[u] \in LockType
  BY EscrowAssumption DEF EscrowInv, EscrowTyped, Accounts, Locks
<1>3. amount \in Nat /\ amount <= sdl[Escrow]
  BY <1>1, AmountsMove, UnlockFollows DEF Unlock
<1>4. penalty \in 0 .. amount
  BY <1>1, <1>2, PenaltyIsPart
<1> HIDE DEF amount, penalty
<1>5. sdl' \in [Accounts -> Nat] /\ sdl'[Escrow] = sdl[Escrow] - amount
  BY <1>1, <1>2, <1>3, <1>4
<1> QED BY <1>1, <1>5, UnlockInv DEF amount

LEMMA CheckpointTotalInv == ASSUME EscrowInv, Checkpoint PROVE EscrowInv'
<1>1. /\ point' = TotalLine(locked, now)
      /\ UNCHANGED <<now, sdl, locked, supply, user_point, slope_changes, is_unlocked>>
  BY Reaches DEF Checkpoint
<1>2. now \in Nat /\ now \in Int /\ now # 0 /\ locked \in Locks
  BY Times DEF EscrowInv, EscrowTyped
<1>3. point' \in Line /\ point'.ts = now /\ IsTotal(locked, point)'
  BY <1>1, <1>2, TotalTypes DEF TotalLine, Line, IsTotal
<1>4. Scheduled(locked, point.ts)'
  <2> SUFFICES ASSUME NEW w \in Weeks, w > now
               PROVE  slope_changes[w] = -SumOver(Ending(locked, w))
    BY <1>1, <1>3 DEF Scheduled, Weeks
  <2>1. w > point.ts
    BY <1>2, WeeksAre DEF EscrowInv, EscrowTyped, Line
  <2> QED BY <2>1 DEF EscrowInv, TotalFollowsLocks, Scheduled
<1>5. EscrowTyped'
  BY <1>1, <1>2, <1>3 DEF EscrowInv, EscrowTyped
<1>6. LocksAreBacked' /\ NoEndWithoutAmount' /\ NotBegun' /\ LinesFollowLocks'
  BY <1>1, <1>2, <1>3
  DEF EscrowInv, LocksAreBacked, NoEndWithoutAmount, NotBegun, LinesFollowLocks, IsLineOf,
      SlopeAt, WeightAt, SlopeOf
<1> QED BY <1>3, <1>4, <1>5, <1>6 DEF EscrowInv, TotalFollowsLocks

LEMMA TickInv == ASSUME EscrowInv, Tick PROVE EscrowInv'
<1>1. now' = now + 1 /\ now < MaxTime /\ UNCHANGED <<sdl, escrowVars>>
  BY DEF Tick
<1>2. now \in Nat /\ point.ts <= now + 1 /\ \A u \in Users : user_point[u].ts <= now + 1
  BY Times DEF EscrowInv, EscrowTyped, Line, LinesFollowLocks, IsLineOf
<1>3. EscrowTyped'
  BY <1>1, <1>2, EscrowAssumption DEF escrowVars, EscrowInv, EscrowTyped
<1>4. LinesFollowLocks'
  BY <1>1, <1>2
  DEF escrowVars, EscrowInv, LinesFollowLocks, IsLineOf, SlopeAt, WeightAt, SlopeOf
<1> QED
  BY <1>1, <1>3, <1>4
  DEF escrowVars, EscrowInv, LocksAreBacked, NoEndWithoutAmount, NotBegun, TotalFollowsLocks, IsTotal,
      Scheduled

LEMMA EscrowStays ==
  ASSUME EscrowInv, sdl' \in [Accounts -> Nat], sdl'[Escrow] = sdl[Escrow], is_unlocked' \in BOOLEAN,
         UNCHANGED <<now, locked, supply, point, user_point, slope_changes>>
  PROVE  EscrowInv'
BY DEF EscrowInv, EscrowTyped, LocksAreBacked, NoEndWithoutAmount, NotBegun, LinesFollowLocks,
       IsLineOf, TotalFollowsLocks, IsTotal, Scheduled, SlopeAt, WeightAt, SlopeOf

LEMMA EscrowInvNext == EscrowInv /\ [VENext]_veVars => EscrowInv'
<1> SUFFICES ASSUME EscrowInv, [VENext]_veVars PROVE EscrowInv'
  OBVIOUS
<1>0. \A value \in Values, t \in UnlockTimes : value \in Nat /\ t \in Nat
  BY EscrowAssumption
<1>1. ASSUME NEW u \in Users, NEW value \in Values, NEW t \in UnlockTimes, CreateLock(u, value, t)
      PROVE  EscrowInv'
  BY <1>0, <1>1, CreateLockInv
<1>2. ASSUME NEW from \in Users, NEW u \in Users, NEW value \in Values, AddToLock(from, u, value)
      PROVE  EscrowInv'
  <2>1. from \in Accounts \ {Escrow} /\ value \in Nat
    BY <1>0, EscrowAssumption DEF Accounts
  <2> QED BY <1>2, <2>1, AddToLockInv
<1>3. ASSUME NEW u \in Users, NEW t \in UnlockTimes, IncreaseUnlockTime(u, t) PROVE EscrowInv'
  <2>1. t \in Nat
    BY EscrowAssumption
  <2> QED BY <1>3, <2>1, IncreaseUnlockTimeInv
<1>4. sdl \in [Accounts -> Nat] /\ is_unlocked \in BOOLEAN
  BY DEF EscrowInv, EscrowTyped
<1>5. ASSUME NEW unlocked \in BOOLEAN, SetFundsUnlocked(unlocked) PROVE EscrowInv'
  <2>1. /\ is_unlocked' \in BOOLEAN /\ sdl' \in [Accounts -> Nat] /\ sdl'[Escrow] = sdl[Escrow]
        /\ UNCHANGED <<now, locked, supply, point, user_point, slope_changes>>
    BY <1>4, <1>5 DEF SetFundsUnlocked
  <2> QED BY <2>1, EscrowStays
<1>6. CASE UNCHANGED veVars
  <2>1. /\ is_unlocked' \in BOOLEAN /\ sdl' \in [Accounts -> Nat] /\ sdl'[Escrow] = sdl[Escrow]
        /\ UNCHANGED <<now, locked, supply, point, user_point, slope_changes>>
    BY <1>4, <1>6 DEF veVars, escrowVars
  <2> QED BY <2>1, EscrowStays
<1> QED
  BY <1>1, <1>2, <1>3, <1>5, <1>6, WithdrawInv, ForceWithdrawInv, CheckpointTotalInv, TickInv
  DEF VENext

THEOREM EscrowInvariant == VESpec => []EscrowInv
BY EscrowInvInit, EscrowInvNext, PTL DEF VESpec

(* The variables of the escrow always have their types.                    *)
THEOREM EscrowTypes == VESpec => []VETypeOK
<1>1. EscrowInv => VETypeOK
  BY DEF EscrowInv, EscrowTyped, VETypeOK, Locks, LockType, Line
<1> QED BY <1>1, EscrowInvariant, PTL

LEMMA TotalIs == EscrowInv => TotalIsSum
<1> SUFFICES ASSUME EscrowInv, NEW t \in now .. (now + MAXTIME)
             PROVE  TotalSupply(t) = SumOver([u \in Users |-> BalanceOf(u, t)])
  BY DEF TotalIsSum
<1>1. now \in Nat /\ now <= t
  BY Times DEF EscrowInv
<1>2. TotalSupply(t) = SumOver(Weights(locked, t)) /\ t \in Nat
  BY TotalSupplyIs
<1>3. \A u \in Users : BalanceOf(u, t) = WeightAt(locked[u], t)
  BY <1>1, <1>2, BalanceOfIs
<1>4. [u \in Users |-> BalanceOf(u, t)] = Weights(locked, t)
  BY <1>3 DEF Weights
<1> QED BY <1>2, <1>4

(* The line of the total, which is kept apart from the lines of the users  *)
(* and moved by scheduled changes of its slope, always agrees with them:   *)
(* totalSupply is the sum of balanceOf, now and at every time to come.     *)
THEOREM TotalAlwaysSum == VESpec => []TotalIsSum
BY TotalIs, EscrowInvariant, PTL

(* A balance of veSDL is always that of the lock behind it: no sequence of *)
(* deposits, extensions and withdrawals leaves a line without its lock.    *)
THEOREM WeightAlwaysFromLock == VESpec => []WeightComesFromLock
<1>1. EscrowInv => WeightComesFromLock
  <2> SUFFICES ASSUME EscrowInv, NEW u \in Users
               PROVE  BalanceOf(u, now) =
                        (locked[u].amount \div MAXTIME) * NotNegative[locked[u].end - now]
    BY DEF WeightComesFromLock
  <2>1. now \in Nat /\ now <= now
    BY Times DEF EscrowInv
  <2> QED BY <2>1, BalanceOfIs DEF WeightAt, SlopeOf
<1> QED BY <1>1, EscrowInvariant, PTL

(* The escrow always holds the SDL of all locks, penalties being paid out  *)
(* of the lock that leaves early, and `supply` always counts it.           *)
THEOREM LocksAlwaysBacked == VESpec => []LocksAreBacked
<1>1. EscrowInv => LocksAreBacked
  BY DEF EscrowInv
<1> QED BY <1>1, EscrowInvariant, PTL

-----------------------------------------------------------------------------
(* The rewards.                                                            *)
RewardsTyped ==
  /\ periodFinish \in Nat /\ rewardRate \in Nat /\ queuedRewards \in Nat
  /\ lastUpdateTime \in Nat /\ rewardPerTokenStored \in Nat
  /\ userRewardPerTokenPaid \in [Users -> Nat]
  /\ rewards \in [Users -> Nat]

UpdatesInOrder ==
  /\ lastUpdateTime <= now /\ lastUpdateTime <= periodFinish
  /\ \A u \in Users : userRewardPerTokenPaid[u] <= rewardPerTokenStored

(* What each user can claim when the reward per token is r, times SCALE    *)
(* and before the division by it.                                          *)
OwedAt(r) ==
  [u \in Users |->
     SCALE * rewards[u] + WeightAt(locked[u], now) * (r - userRewardPerTokenPaid[u])]

(* What waits, and what is paid out from time t on, in the same unit.      *)
PaidFrom(t) == SCALE * (queuedRewards + rewardRate * (periodFinish - t))

Backed ==
  SumOver(OwedAt(rewardPerTokenStored)) + PaidFrom(lastUpdateTime) <= SCALE * sdl[RewardPool]

RewardsInv == EscrowInv /\ RewardsTyped /\ UpdatesInOrder /\ Backed

ViewsAgree ==
  /\ TotalSupply(now) = SumOver(Weights(locked, now)) /\ TotalSupply(now) \in Nat
  /\ \A u \in Users : /\ BalanceOf(u, now) = WeightAt(locked[u], now)
                      /\ BalanceOf(u, now) \in Nat /\ BalanceOf(u, now) <= TotalSupply(now)

LEMMA Views == EscrowInv => ViewsAgree
<1> SUFFICES ASSUME EscrowInv PROVE ViewsAgree
  OBVIOUS
<1>1. now \in Nat /\ now \in Int /\ now <= now /\ now \in now .. (now + MAXTIME) /\ locked \in Locks
  BY Times, EscrowAssumption DEF EscrowInv, EscrowTyped
<1>2. TotalSupply(now) = SumOver(Weights(locked, now))
  BY <1>1, TotalSupplyIs
<1>3. SumOver(Weights(locked, now)) \in Nat /\ \A u \in Users : Weights(locked, now)[u] \in Nat
  BY <1>1, TotalTypes
<1>4. ASSUME NEW u \in Users
      PROVE  /\ BalanceOf(u, now) = WeightAt(locked[u], now) /\ BalanceOf(u, now) \in Nat
             /\ BalanceOf(u, now) <= SumOver(Weights(locked, now))
  <2>1. BalanceOf(u, now) = WeightAt(locked[u], now)
    BY <1>1, BalanceOfIs
  <2>2. Weights(locked, now)[u] = WeightAt(locked[u], now)
    BY DEF Weights
  <2>3. Weights(locked, now)[u] <= SumOver(Weights(locked, now))
    BY <1>3, SumPart, EscrowAssumption DEF SumOver
  <2> QED BY <1>3, <2>1, <2>2, <2>3
<1> QED BY <1>2, <1>3, <1>4 DEF ViewsAgree

LEMMA ViewsNext == EscrowInv' => ViewsAgree'
BY Views, PTL

(* rewardPerToken() only grows, and by no more than what is paid out.      *)
LEMMA PerTokenGrows ==
  ASSUME now \in Nat, RewardsTyped, UpdatesInOrder, NEW total \in Nat
  PROVE  LET last == LastTimeRewardApplicable
             r == RewardPerToken(total)
         IN  /\ last = IF now <= periodFinish THEN now ELSE periodFinish
             /\ last \in Nat /\ lastUpdateTime <= last /\ last <= now /\ last <= periodFinish
             /\ r \in Nat /\ rewardPerTokenStored <= r
             /\ total * (r - rewardPerTokenStored) <= SCALE * (rewardRate * (last - lastUpdateTime))
<1> DEFINE last == LastTimeRewardApplicable
           r == RewardPerToken(total)
           paid == rewardRate * (last - lastUpdateTime)
           n == (last - lastUpdateTime) * rewardRate * SCALE
<1>1. last = IF now <= periodFinish THEN now ELSE periodFinish
  BY MinOfTwo DEF LastTimeRewardApplicable, RewardsTyped
<1>2. /\ last \in Nat /\ lastUpdateTime <= last /\ last <= now /\ last <= periodFinish
      /\ rewardRate \in Nat /\ SCALE \in Nat /\ rewardPerTokenStored \in Nat /\ lastUpdateTime \in Nat
  BY <1>1, RewardsAssumption DEF RewardsTyped, UpdatesInOrder
<1> HIDE DEF last
<1>3. paid \in Nat /\ n = SCALE * paid /\ n \in Nat
  <2> DEFINE d == last - lastUpdateTime
  <2>1. d \in Nat
    BY <1>2
  <2> HIDE DEF d
  <2>2. d * rewardRate \in Nat /\ d * rewardRate * SCALE = SCALE * (rewardRate * d)
    BY <1>2, <2>1
  <2>3. rewardRate * d \in Nat /\ SCALE * (rewardRate * d) \in Nat
    BY <1>2, <2>1
  <2> QED BY <2>2, <2>3 DEF d
<1>4. r = IF total = 0 THEN rewardPerTokenStored ELSE rewardPerTokenStored + n \div total
  BY DEF RewardPerToken, last
<1> HIDE DEF paid, n
<1>5. r \in Nat /\ rewardPerTokenStored <= r /\ total * (r - rewardPerTokenStored) <= SCALE * paid
  <2>1. CASE total = 0
    <3>1. r = rewardPerTokenStored /\ SCALE * paid \in Nat
      BY <1>2, <1>3, <1>4, <2>1
    <3> HIDE DEF r
    <3>2. total * (r - rewardPerTokenStored) = 0
      BY <1>2, <2>1, <3>1
    <3> QED BY <1>2, <3>1, <3>2
  <2>2. CASE total # 0
    <3> DEFINE q == n \div total
    <3>1. q \in Nat /\ total * q <= n
      BY <1>3, <2>2, DivDef
    <3>2. r = rewardPerTokenStored + q
      BY <1>4, <2>2
    <3> HIDE DEF q, r
    <3> QED BY <1>2, <1>3, <3>1, <3>2
  <2> QED BY <2>1, <2>2
<1> QED BY <1>1, <1>2, <1>5 DEF last, paid

LEMMA OwedType ==
  ASSUME EscrowInv, RewardsTyped, NEW r \in Int
  PROVE  SumOver(OwedAt(r)) \in Int /\ \A u \in Users : OwedAt(r)[u] \in Int
<1>1. ASSUME NEW u \in Users PROVE OwedAt(r)[u] \in Int
  <2>1. WeightAt(locked[u], now) \in Nat
    BY Views DEF ViewsAgree
  <2>2. rewards[u] \in Nat /\ userRewardPerTokenPaid[u] \in Nat /\ SCALE \in Nat
    BY RewardsAssumption DEF RewardsTyped
  <2>3. OwedAt(r)[u] = SCALE * rewards[u] + WeightAt(locked[u], now) * (r - userRewardPerTokenPaid[u])
    BY DEF OwedAt
  <2> QED BY <2>1, <2>2, <2>3
<1> QED BY <1>1, SumInt, EscrowAssumption DEF SumOver

LEMMA OwedGrows ==
  ASSUME EscrowInv, RewardsTyped, NEW a \in Int, NEW b \in Int
  PROVE  SumOver(OwedAt(b)) = SumOver(OwedAt(a)) + (b - a) * TotalSupply(now)
<1> DEFINE w == Weights(locked, now)
           c == b - a
           more == [u \in Users |-> c * w[u]]
<1>1. c \in Int /\ TotalSupply(now) = SumOver(w) /\ \A u \in Users : w[u] \in Int
  BY Views DEF ViewsAgree, Weights
<1>2. ASSUME NEW u \in Users
      PROVE  more[u] \in Int /\ OwedAt(a)[u] \in Int /\ OwedAt(b)[u] = OwedAt(a)[u] + more[u]
  <2> DEFINE x == WeightAt(locked[u], now)
             p == userRewardPerTokenPaid[u]
             o == SCALE * rewards[u]
  <2>1. x \in Int /\ p \in Int /\ o \in Int
    BY Views, RewardsAssumption DEF ViewsAgree, RewardsTyped
  <2>2. OwedAt(a)[u] = o + x * (a - p) /\ OwedAt(b)[u] = o + x * (b - p) /\ more[u] = c * x
    BY DEF OwedAt, Weights
  <2> HIDE DEF x, p, o, more
  <2>3. /\ x * (a - p) \in Int /\ x * (b - p) \in Int /\ (b - a) * x \in Int
        /\ x * (b - p) = x * (a - p) + (b - a) * x
    BY <2>1
  <2> QED BY <2>1, <2>2, <2>3
<1>3. \A u \in Users : more[u] = c * w[u]
  OBVIOUS
<1> HIDE DEF more, w, c
<1>4. SumOver(OwedAt(b)) = SumOver(OwedAt(a)) + SumOver(more)
  BY <1>2, SumPlus, EscrowAssumption DEF SumOver
<1>5. SumOver(more) = c * SumOver(w)
  BY <1>1, <1>3, SumTimes, EscrowAssumption DEF SumOver
<1> QED BY <1>1, <1>4, <1>5 DEF c

(* Brought up to date, the claims are covered all the same: what accrued   *)
(* since the last update was set aside for it.                             *)
LEMMA BackedNow ==
  ASSUME RewardsInv
  PROVE  /\ PerToken \in Nat /\ rewardPerTokenStored <= PerToken
         /\ SumOver(OwedAt(PerToken)) + PaidFrom(LastTimeRewardApplicable) <= SCALE * sdl[RewardPool]
<1> DEFINE last == LastTimeRewardApplicable
           r == PerToken
           total == TotalSupply(now)
           s == rewardPerTokenStored
           rate == rewardRate
           m == SCALE * sdl[RewardPool]
<1>1. EscrowInv /\ RewardsTyped /\ UpdatesInOrder /\ now \in Nat /\ total \in Nat
  BY Views, Times DEF RewardsInv, ViewsAgree, EscrowInv
<1>2. /\ last \in Nat /\ r \in Nat /\ s <= r /\ total * (r - s) <= SCALE * (rate * (last - lastUpdateTime))
  BY <1>1, PerTokenGrows DEF PerToken
<1>3. /\ s \in Nat /\ rate \in Nat /\ lastUpdateTime \in Nat /\ periodFinish \in Nat
      /\ queuedRewards \in Nat /\ SCALE \in Nat
  BY <1>1, RewardsAssumption DEF RewardsTyped
<1>4. m \in Nat
  BY <1>1, <1>3 DEF EscrowInv, EscrowTyped, Accounts
<1>5. SumOver(OwedAt(r)) = SumOver(OwedAt(s)) + (r - s) * total
  BY <1>1, <1>2, <1>3, OwedGrows
<1>6. SumOver(OwedAt(s)) \in Int
  BY <1>1, <1>3, OwedType
<1>7. SumOver(OwedAt(s)) + PaidFrom(lastUpdateTime) <= m
  BY DEF RewardsInv, Backed
<1>8. PaidFrom(lastUpdateTime) = PaidFrom(last) + SCALE * (rate * (last - lastUpdateTime))
  <2> DEFINE x == rate * (periodFinish - last)
             y == rate * (last - lastUpdateTime)
  <2> HIDE DEF last
  <2>1. x \in Int /\ y \in Int /\ rate * (periodFinish - lastUpdateTime) = x + y
    BY <1>2, <1>3
  <2>2. /\ PaidFrom(last) = SCALE * (queuedRewards + x)
        /\ PaidFrom(lastUpdateTime) = SCALE * (queuedRewards + (x + y))
    BY <2>1 DEF PaidFrom
  <2> HIDE DEF x, y
  <2> QED BY <1>3, <2>1, <2>2 DEF x, y
<1>9. PaidFrom(last) \in Int /\ SCALE * (rate * (last - lastUpdateTime)) \in Int
  BY <1>2, <1>3 DEF PaidFrom
<1>10. (r - s) * total = total * (r - s) /\ total * (r - s) \in Int
  BY <1>1, <1>2, <1>3
<1> HIDE DEF last, r, total, s, rate, m
<1>11. SumOver(OwedAt(r)) + PaidFrom(last) <= m
  BY <1>2, <1>4, <1>5, <1>6, <1>7, <1>8, <1>9, <1>10
<1> QED BY <1>2, <1>11 DEF last, r, s, m

-----------------------------------------------------------------------------
(* Three kinds of steps, to the rewards.  A user is settled: of what is    *)
(* earned `given` is handed out and `left` stays, `extra` is donated.      *)
Settles(u, left, given, extra) ==
  /\ given + left = Earned(u, BalanceOf(u, now), PerToken)
  /\ given > 0 => locked'[u] # locked[u] \/ sdl'[u] # sdl[u]
  /\ UpdatePerToken(PerToken)
  /\ userRewardPerTokenPaid' = [userRewardPerTokenPaid EXCEPT ![u] = PerToken]
  /\ rewards' = [rewards EXCEPT ![u] = left]
  /\ \A v \in Users \ {u} : locked'[v] = locked[v]
  /\ sdl'[RewardPool] = (sdl[RewardPool] + extra) - given
  /\ queuedRewards' = queuedRewards + extra
  /\ UNCHANGED <<now, periodFinish, rewardRate>>

(* The rate is set anew.                                                   *)
Renews(amount) ==
  /\ rewardPerTokenStored' = PerToken
  /\ lastUpdateTime' = now /\ periodFinish' = now + DURATION
  /\ rewardRate' = (amount + queuedRewards + Leftover) \div DURATION
  /\ queuedRewards' = 0
  /\ sdl'[RewardPool] = sdl[RewardPool] + amount
  /\ UNCHANGED <<now, locked, userRewardPerTokenPaid, rewards>>

(* Nothing is settled: locks only vanish, or time passes.                  *)
Rests ==
  /\ \A u \in Users : locked'[u] = locked[u] \/ locked'[u] = NoLock
  /\ now <= now'
  /\ queuedRewards' \in Nat
  /\ sdl'[RewardPool] = sdl[RewardPool] + (queuedRewards' - queuedRewards)
  /\ UNCHANGED <<userVars, periodFinish, rewardRate>>

OfAKind ==
  \/ \E u \in Users, left, given, extra \in Nat : Settles(u, left, given, extra)
  \/ \E amount \in Nat : Renews(amount)
  \/ Rests

LEMMA EarnedType ==
  ASSUME RewardsInv, NEW u \in Users
  PROVE  /\ Earned(u, BalanceOf(u, now), PerToken) \in Nat
         /\ Earned(u, BalanceOf(u, now), PerToken) =
              (BalanceOf(u, now) * (PerToken - userRewardPerTokenPaid[u])) \div SCALE + rewards[u]
         /\ SCALE * Earned(u, BalanceOf(u, now), PerToken) <= OwedAt(PerToken)[u]
<1> DEFINE b == BalanceOf(u, now)
           d == PerToken - userRewardPerTokenPaid[u]
           q == (b * d) \div SCALE
<1>1. b \in Nat /\ b = WeightAt(locked[u], now)
  BY Views DEF RewardsInv, ViewsAgree
<1>2. d \in Nat /\ rewards[u] \in Nat /\ SCALE \in Nat \ {0}
  <2>1. PerToken \in Nat /\ rewardPerTokenStored <= PerToken
    BY BackedNow
  <2>2. /\ userRewardPerTokenPaid[u] <= rewardPerTokenStored
        /\ userRewardPerTokenPaid[u] \in Nat /\ rewardPerTokenStored \in Nat /\ rewards[u] \in Nat
    BY DEF RewardsInv, RewardsTyped, UpdatesInOrder
  <2> QED BY <2>1, <2>2, RewardsAssumption
<1>3. Earned(u, b, PerToken) = q + rewards[u]
  BY DEF Earned
<1>4. OwedAt(PerToken)[u] = SCALE * rewards[u] + b * d
  BY <1>1 DEF OwedAt
<1> HIDE DEF b, d
<1>5. b * d \in Nat
  BY <1>1, <1>2
<1>6. q \in Nat /\ SCALE * q <= b * d
  BY <1>2, <1>5, DivDef
<1> HIDE DEF q
<1>7. SCALE * (q + rewards[u]) = SCALE * q + SCALE * rewards[u] /\ SCALE * q \in Nat
      /\ SCALE * rewards[u] \in Nat
  BY <1>2, <1>6
<1> QED BY <1>2, <1>3, <1>4, <1>5, <1>6, <1>7 DEF b, d, q

(* What the operations of the escrow do to the accounts.                   *)
LEMMA PoolAside ==
  ASSUME EscrowInv, NEW from \in Accounts \ {Escrow}, NEW u \in Users, NEW value \in Nat, NEW end,
         DepositFor(from, u, value, end)
  PROVE  /\ sdl'[RewardPool] = IF from = RewardPool THEN sdl[RewardPool] - value ELSE sdl[RewardPool]
         /\ \A v \in Users \ {u} : locked'[v] = locked[v]
         /\ locked'[u] = [amount |-> locked[u].amount + value, end |-> end]
         /\ now' = now /\ is_unlocked' = is_unlocked
<1>1. sdl' = [sdl EXCEPT ![from] = @ - value, ![Escrow] = @ + value]
  BY DEF DepositFor, Moved
<1>2. sdl \in [Accounts -> Nat] /\ RewardPool \in Accounts /\ RewardPool # Escrow /\ locked \in Locks
  BY EscrowAssumption DEF EscrowInv, EscrowTyped, Accounts
<1>3. sdl'[RewardPool] = IF from = RewardPool THEN sdl[RewardPool] - value ELSE sdl[RewardPool]
  BY <1>1, <1>2
<1>4. locked' = [locked EXCEPT ![u] = [amount |-> locked[u].amount + value, end |-> end]]
      /\ now' = now /\ is_unlocked' = is_unlocked
  BY DEF DepositFor
<1> QED BY <1>2, <1>3, <1>4 DEF Locks

LEMMA LockKind == ASSUME RewardsInv, Lock PROVE EscrowInv' /\ OfAKind
<1>1. PICK u \in Users :
        /\ Snapshot(u)
        /\ \/ \E value \in Values, t \in UnlockTimes : CreateLock(u, value, t)
           \/ \E from \in Users, value \in Values : AddToLock(from, u, value)
           \/ \E t \in UnlockTimes : IncreaseUnlockTime(u, t)
  BY DEF Lock
<1>2. EscrowInv /\ [VENext]_veVars
  BY <1>1 DEF RewardsInv, VENext
<1>3. EscrowInv'
  BY <1>2, EscrowInvNext
<1>4. PICK from \in Users, value \in Nat : \E end : DepositFor(from, u, value, end)
  BY <1>1, EscrowAssumption DEF CreateLock, AddToLock, IncreaseUnlockTime
<1>5. from \in Accounts \ {Escrow} /\ from # RewardPool
  BY EscrowAssumption DEF Accounts
<1>6. sdl'[RewardPool] = sdl[RewardPool] /\ now' = now /\ \A v \in Users \ {u} : locked'[v] = locked[v]
  BY <1>2, <1>4, <1>5, PoolAside
<1>7. UpdateReward(u, BalanceOf(u, now), PerToken) /\ UNCHANGED poolVars
  BY <1>1 DEF Snapshot, Lock
<1> DEFINE left == Earned(u, BalanceOf(u, now), PerToken)
<1>8. left \in Nat
  BY EarnedType
<1>9. sdl[RewardPool] \in Nat /\ queuedRewards \in Nat /\ 0 \in Nat
  BY DEF RewardsInv, RewardsTyped, EscrowInv, EscrowTyped, Accounts
<1>10. Settles(u, left, 0, 0)
  <2>1. 0 + left = left /\ (sdl[RewardPool] + 0) - 0 = sdl[RewardPool]
        /\ queuedRewards + 0 = queuedRewards /\ ~(0 > 0)
    <3> HIDE DEF left
    <3> QED BY <1>8, <1>9
  <2> QED BY <1>6, <1>7, <2>1 DEF Settles, UpdateReward, poolVars
<1> HIDE DEF left
<1> QED BY <1>3, <1>8, <1>9, <1>10 DEF OfAKind

LEMMA ForceLeaveKind == ASSUME RewardsInv, NEW u \in Users, ForceLeave(u) PROVE EscrowInv' /\ OfAKind
<1> DEFINE extra == Penalty(locked[u])
           left == Earned(u, BalanceOf(u, now), PerToken)
<1>1. /\ UpdateReward(u, BalanceOf(u, now), PerToken) /\ ForceWithdraw(u)
      /\ queuedRewards' = queuedRewards + extra /\ UNCHANGED <<periodFinish, rewardRate>>
  BY DEF ForceLeave, Snapshot
<1>2. EscrowInv /\ EscrowInv'
  BY <1>1, ForceWithdrawInv DEF RewardsInv
<1>3. locked \in Locks /\ locked[u] \in LockType
  BY <1>2 DEF EscrowInv, EscrowTyped, Locks
<1>4. /\ now < locked[u].end /\ now' = now /\ locked' = [locked EXCEPT ![u] = NoLock]
      /\ sdl' = [sdl EXCEPT ![Escrow]     = @ - locked[u].amount,
                            ![u]          = @ + locked[u].amount - extra,
                            ![RewardPool] = @ + extra]
  BY <1>1 DEF ForceWithdraw, Unlock
<1>5. extra \in Nat
  <2>1. extra \in 0 .. locked[u].amount /\ locked[u].amount \in Nat
    BY <1>2, <1>3, <1>4, PenaltyIsPart, LockTypes
  <2> HIDE DEF extra
  <2> QED BY <2>1
<1>6. left \in Nat
  BY EarnedType
<1>7. sdl \in [Accounts -> Nat] /\ RewardPool \in Accounts /\ RewardPool # u /\ RewardPool # Escrow
  BY <1>2, EscrowAssumption DEF EscrowInv, EscrowTyped, Accounts
<1>8. sdl'[RewardPool] = sdl[RewardPool] + extra /\ sdl[RewardPool] \in Nat
  <2> HIDE DEF extra
  <2> QED BY <1>4, <1>7
<1>9. \A v \in Users \ {u} : locked'[v] = locked[v]
  BY <1>3, <1>4 DEF Locks
<1>10. Settles(u, left, 0, extra)
  <2>1. 0 + left = left /\ (sdl[RewardPool] + extra) - 0 = sdl[RewardPool] + extra /\ ~(0 > 0)
    <3> HIDE DEF left, extra
    <3> QED BY <1>5, <1>6, <1>8
  <2> QED BY <1>1, <1>4, <1>8, <1>9, <2>1 DEF Settles, UpdateReward
<1> HIDE DEF left, extra
<1>11. 0 \in Nat
  OBVIOUS
<1> QED BY <1>2, <1>5, <1>6, <1>10, <1>11 DEF OfAKind

(* A lock whose end has come has no weight any more: the update after the  *)
(* withdrawal is the one that could have been made before it.              *)
LEMMA LeaveKind == ASSUME RewardsInv, NEW u \in Users, Leave(u) PROVE EscrowInv' /\ OfAKind
<1>1. EscrowInv /\ Withdraw(u) /\ UNCHANGED poolVars
  BY DEF Leave, RewardsInv
<1>2. EscrowInv'
  BY <1>1, WithdrawInv
<1>3. /\ now' = now /\ locked' = [locked EXCEPT ![u] = NoLock]
      /\ sdl' = [sdl EXCEPT ![Escrow] = @ - locked[u].amount, ![u] = @ + locked[u].amount]
  BY <1>1 DEF Withdraw, Unlock, Moved
<1>4. /\ sdl \in [Accounts -> Nat] /\ RewardPool \in Accounts /\ RewardPool # u /\ RewardPool # Escrow
      /\ locked \in Locks /\ locked[u] \in LockType /\ now \in Nat /\ now \in Int
  BY <1>1, Times, EscrowAssumption DEF EscrowInv, EscrowTyped, Accounts, Locks
<1>5. sdl'[RewardPool] = sdl[RewardPool] /\ sdl[RewardPool] \in Nat /\ queuedRewards \in Nat
  BY <1>3, <1>4 DEF RewardsInv, RewardsTyped
<1>6. locked'[u] = NoLock /\ \A v \in Users \ {u} : locked'[v] = locked[v]
  BY <1>3, <1>4 DEF Locks
<1>7. CASE is_unlocked
  <2>1. UNCHANGED userVars
    BY <1>7 DEF Leave
  <2>2. now <= now' /\ sdl[RewardPool] = sdl[RewardPool] + (queuedRewards - queuedRewards)
    BY <1>3, <1>4, <1>5
  <2>3. Rests
    BY <1>1, <1>5, <1>6, <2>1, <2>2 DEF Rests, poolVars
  <2> QED BY <1>2, <2>3 DEF OfAKind
<1>8. CASE ~is_unlocked
  <2>1. UpdateReward(u, BalanceOf(u, now)', RewardPerToken(TotalSupply(now)'))
    BY <1>8 DEF Leave
  <2>2. locked[u].end <= now
    <3>1. now >= locked[u].end
      BY <1>1, <1>8 DEF Withdraw
    <3>2. locked[u].end \in Nat
      BY <1>4, LockTypes
    <3> QED BY <1>4, <3>1, <3>2
  <2>3. WeightAt(locked[u], now) = 0
    BY <1>4, <2>2, LockTypes
  <2>4. WeightAt(NoLock, now) = 0
    <3>1. NoLock \in LockType /\ NoLock.end = 0 /\ 0 <= now
      BY <1>4, UnlockFollows DEF NoLock
    <3> QED BY <1>4, <3>1, LockTypes
  <2>5. Weights(locked', now') = Weights(locked, now)
    <3>1. \A v \in Users : WeightAt(locked'[v], now') = WeightAt(locked[v], now)
      BY <1>3, <1>6, <2>3, <2>4
    <3> QED BY <3>1 DEF Weights
  <2>6. /\ TotalSupply(now)' = SumOver(Weights(locked', now'))
        /\ BalanceOf(u, now)' = WeightAt(locked'[u], now')
    BY <1>2, ViewsNext DEF ViewsAgree, Weights, WeightAt, SlopeOf, SumOver
  <2>7. /\ TotalSupply(now) = SumOver(Weights(locked, now))
        /\ BalanceOf(u, now) = WeightAt(locked[u], now)
    BY <1>1, Views DEF ViewsAgree
  <2>8. TotalSupply(now)' = TotalSupply(now) /\ BalanceOf(u, now)' = BalanceOf(u, now)
    BY <1>3, <1>6, <2>3, <2>4, <2>5, <2>6, <2>7
  <2> DEFINE left == Earned(u, BalanceOf(u, now), PerToken)
  <2>9. UpdateReward(u, BalanceOf(u, now), PerToken)
    BY <2>1, <2>8 DEF PerToken
  <2>10. left \in Nat
    BY EarnedType
  <2>11. Settles(u, left, 0, 0)
    <3>1. 0 + left = left /\ (sdl[RewardPool] + 0) - 0 = sdl[RewardPool]
          /\ queuedRewards + 0 = queuedRewards /\ ~(0 > 0)
      <4> HIDE DEF left
      <4> QED BY <1>5, <2>10
    <3> QED BY <1>1, <1>3, <1>5, <1>6, <2>9, <3>1 DEF Settles, UpdateReward, poolVars
  <2> HIDE DEF left
  <2>12. 0 \in Nat
    OBVIOUS
  <2> QED BY <1>2, <2>10, <2>11, <2>12 DEF OfAKind
<1> QED BY <1>7, <1>8

LEMMA GetRewardKind ==
  ASSUME RewardsInv, NEW u \in Users, NEW lock \in BOOLEAN, GetReward(u, lock)
  PROVE  EscrowInv' /\ OfAKind
<1> DEFINE reward == Earned(u, BalanceOf(u, now), PerToken)
<1>1. reward \in Nat /\ 0 \in Nat
  BY EarnedType
<1>2. /\ UpdatePerToken(PerToken) /\ UNCHANGED poolVars
      /\ userRewardPerTokenPaid' = [userRewardPerTokenPaid EXCEPT ![u] = PerToken]
      /\ rewards' = [rewards EXCEPT ![u] = 0]
  BY DEF GetReward
<1>3. \/ reward > 0 /\ AddToLock(RewardPool, u, reward)
      \/ /\ reward <= sdl[RewardPool] /\ sdl' = Moved(RewardPool, u, reward)
         /\ UNCHANGED <<now, escrowVars>>
  BY DEF GetReward
<1> HIDE DEF reward
<1>4. /\ EscrowInv /\ sdl \in [Accounts -> Nat] /\ RewardPool \in Accounts \ {Escrow}
      /\ u \in Accounts /\ u # RewardPool /\ u # Escrow /\ locked \in Locks /\ locked[u] \in LockType
      /\ queuedRewards \in Nat /\ Escrow \in Accounts /\ RewardPool \in Accounts
      /\ is_unlocked \in BOOLEAN
  BY EscrowAssumption DEF RewardsInv, RewardsTyped, EscrowInv, EscrowTyped, Accounts, Locks
<1>5. /\ EscrowInv' /\ now' = now /\ \A v \in Users \ {u} : locked'[v] = locked[v]
      /\ sdl'[RewardPool] = sdl[RewardPool] - reward
      /\ reward > 0 => locked'[u] # locked[u] \/ sdl'[u] # sdl[u]
  <2>1. CASE reward > 0 /\ AddToLock(RewardPool, u, reward)
    <3>1. EscrowInv'
      BY <1>1, <1>4, <2>1, AddToLockInv
    <3>2. DepositFor(RewardPool, u, reward, locked[u].end)
      BY <2>1 DEF AddToLock
    <3>3. /\ sdl'[RewardPool] = sdl[RewardPool] - reward /\ now' = now
          /\ \A v \in Users \ {u} : locked'[v] = locked[v]
          /\ locked'[u] = [amount |-> locked[u].amount + reward, end |-> locked[u].end]
      BY <1>1, <1>4, <3>2, PoolAside
    <3>4. locked'[u].amount = locked[u].amount + reward /\ locked[u].amount \in Nat
      BY <1>4, <3>3, LockTypes
    <3>5. locked'[u].amount # locked[u].amount
      BY <1>1, <2>1, <3>4
    <3> QED BY <3>1, <3>3, <3>5
  <2>2. CASE /\ reward <= sdl[RewardPool] /\ sdl' = Moved(RewardPool, u, reward)
             /\ UNCHANGED <<now, escrowVars>>
    <3>1. sdl' = [sdl EXCEPT ![RewardPool] = @ - reward, ![u] = @ + reward]
      BY <2>2 DEF Moved
    <3>2. /\ sdl'[RewardPool] = sdl[RewardPool] - reward /\ sdl'[u] = sdl[u] + reward
          /\ sdl'[Escrow] = sdl[Escrow] /\ sdl' \in [Accounts -> Nat] /\ sdl[u] \in Nat
      BY <1>1, <1>4, <2>2, <3>1
    <3>3. /\ UNCHANGED <<now, locked, supply, point, user_point, slope_changes>>
          /\ is_unlocked' \in BOOLEAN
      BY <1>4, <2>2 DEF escrowVars
    <3>4. EscrowInv'
      BY <1>4, <3>2, <3>3, EscrowStays
    <3>5. reward > 0 => sdl'[u] # sdl[u]
      BY <1>1, <3>2
    <3> QED BY <3>2, <3>3, <3>4, <3>5
  <2> QED BY <1>3, <2>1, <2>2
<1>6. Settles(u, 0, reward, 0)
  <2>1. /\ reward + 0 = reward /\ queuedRewards + 0 = queuedRewards
        /\ (sdl[RewardPool] + 0) - reward = sdl[RewardPool] - reward
    BY <1>1, <1>4
  <2> QED BY <1>2, <1>5, <2>1 DEF Settles, poolVars, reward
<1> QED BY <1>1, <1>5, <1>6 DEF OfAKind

LEMMA PaysIn ==
  ASSUME RewardsInv, NEW from \in Payers, NEW amount \in Nat, amount <= sdl[from],
         sdl' = Moved(from, RewardPool, amount), UNCHANGED <<now, escrowVars>>
  PROVE  /\ EscrowInv' /\ sdl'[RewardPool] = sdl[RewardPool] + amount /\ sdl[RewardPool] \in Nat
         /\ UNCHANGED <<now, locked>>
<1>1. from \in Accounts /\ from # RewardPool /\ from # Escrow
  BY EscrowAssumption, RewardsAssumption DEF Accounts
<1>2. /\ EscrowInv /\ sdl \in [Accounts -> Nat] /\ RewardPool \in Accounts /\ RewardPool # Escrow
      /\ Escrow \in Accounts /\ is_unlocked \in BOOLEAN
  BY EscrowAssumption DEF RewardsInv, EscrowInv, EscrowTyped, Accounts
<1>3. sdl' = [sdl EXCEPT ![from] = @ - amount, ![RewardPool] = @ + amount]
  BY DEF Moved
<1>4. /\ sdl'[RewardPool] = sdl[RewardPool] + amount /\ sdl'[Escrow] = sdl[Escrow]
      /\ sdl' \in [Accounts -> Nat] /\ sdl[RewardPool] \in Nat
  BY <1>1, <1>2, <1>3
<1>5. /\ UNCHANGED <<now, locked, supply, point, user_point, slope_changes>>
      /\ is_unlocked' \in BOOLEAN
  BY <1>2 DEF escrowVars
<1>6. EscrowInv'
  BY <1>2, <1>4, <1>5, EscrowStays
<1> QED BY <1>4, <1>5, <1>6

LEMMA DonateKind ==
  ASSUME RewardsInv, NEW from \in Payers, NEW amount \in Nat, Donate(from, amount)
  PROVE  EscrowInv' /\ OfAKind
<1>1. /\ amount <= sdl[from] /\ sdl' = Moved(from, RewardPool, amount)
      /\ queuedRewards' = queuedRewards + amount
      /\ UNCHANGED <<now, escrowVars, userVars, periodFinish, rewardRate>>
  BY DEF Donate
<1>2. /\ EscrowInv' /\ sdl'[RewardPool] = sdl[RewardPool] + amount /\ sdl[RewardPool] \in Nat
      /\ UNCHANGED <<now, locked>>
  BY <1>1, PaysIn
<1>3. queuedRewards \in Nat /\ now \in Nat
  BY Times DEF RewardsInv, RewardsTyped, EscrowInv
<1>4. /\ queuedRewards' \in Nat /\ now <= now'
      /\ sdl'[RewardPool] = sdl[RewardPool] + (queuedRewards' - queuedRewards)
  BY <1>1, <1>2, <1>3
<1>5. Rests
  BY <1>1, <1>2, <1>4 DEF Rests
<1> QED BY <1>2, <1>5 DEF OfAKind

LEMMA QueueKind ==
  ASSUME RewardsInv, NEW from \in Payers, NEW amount \in Nat, QueueNewRewards(from, amount)
  PROVE  EscrowInv' /\ OfAKind
<1>1. /\ amount <= sdl[from] /\ sdl' = Moved(from, RewardPool, amount)
      /\ UNCHANGED <<now, escrowVars>>
  BY DEF QueueNewRewards
<1>2. EscrowInv' /\ sdl'[RewardPool] = sdl[RewardPool] + amount /\ UNCHANGED <<now, locked>>
  BY <1>1, PaysIn
<1>3. Renews(amount)
  BY <1>2 DEF QueueNewRewards, Renews
<1> QED BY <1>2, <1>3 DEF OfAKind

LEMMA RestKind ==
  ASSUME RewardsInv, EscrowStep \/ UNCHANGED <<veVars, rewardVars>> PROVE EscrowInv' /\ OfAKind
<1>1. EscrowInv /\ [VENext]_veVars /\ UNCHANGED rewardVars
  BY DEF RewardsInv, EscrowStep, VENext
<1>2. EscrowInv'
  BY <1>1, EscrowInvNext
<1>3. UNCHANGED <<sdl, locked>> /\ (now' = now + 1 \/ now' = now)
  BY DEF EscrowStep, Checkpoint, SetFundsUnlocked, Tick, veVars, escrowVars
<1>4. now \in Nat /\ queuedRewards \in Nat /\ sdl[RewardPool] \in Nat
  BY Times DEF RewardsInv, RewardsTyped, EscrowInv, EscrowTyped, Accounts
<1>5. UNCHANGED <<queuedRewards, userVars, periodFinish, rewardRate>>
  BY <1>1 DEF rewardVars, poolVars
<1>6. /\ now <= now' /\ queuedRewards' \in Nat
      /\ sdl'[RewardPool] = sdl[RewardPool] + (queuedRewards' - queuedRewards)
  BY <1>3, <1>4, <1>5
<1>7. Rests
  BY <1>3, <1>5, <1>6 DEF Rests
<1> QED BY <1>2, <1>7 DEF OfAKind

LEMMA Kinds ==
  ASSUME RewardsInv, [Next]_<<veVars, rewardVars>> PROVE EscrowInv' /\ OfAKind
<1>1. \A amount \in Rewards : amount \in Nat
  BY RewardsAssumption
<1>2. ASSUME NEW from \in Payers, NEW amount \in Rewards, Donate(from, amount) \/ QueueNewRewards(from, amount)
      PROVE  EscrowInv' /\ OfAKind
  BY <1>1, <1>2, DonateKind, QueueKind
<1> QED BY <1>2, LockKind, LeaveKind, ForceLeaveKind, RestKind, GetRewardKind DEF Next

-----------------------------------------------------------------------------
(* Every kind of step keeps the rewards covered.                           *)
OwedNextIs ==
  \A u \in Users :
     OwedAt(rewardPerTokenStored)'[u] =
        SCALE * rewards'[u]
          + WeightAt(locked'[u], now') * (rewardPerTokenStored' - userRewardPerTokenPaid'[u])

LEMMA OwedNextShape == OwedNextIs
BY DEF OwedNextIs, OwedAt, WeightAt, SlopeOf

OwedTyped ==
  /\ SumOver(OwedAt(rewardPerTokenStored)) \in Int
  /\ \A u \in Users : OwedAt(rewardPerTokenStored)[u] \in Int

LEMMA OwedNow == EscrowInv /\ RewardsTyped => OwedTyped
BY OwedType DEF OwedTyped, RewardsTyped

LEMMA OwedNext == EscrowInv' /\ RewardsTyped' => OwedTyped'
BY OwedNow, PTL

LEMMA SettlesCovered ==
  ASSUME RewardsInv, EscrowInv', NEW u \in Users, NEW left \in Nat, NEW given \in Nat, NEW extra \in Nat,
         Settles(u, left, given, extra)
  PROVE  RewardsInv'
<1> DEFINE r == PerToken
           last == LastTimeRewardApplicable
           f == OwedAt(r)
           g == OwedAt(rewardPerTokenStored)'
           m == sdl[RewardPool]
<1>1. /\ r \in Nat /\ rewardPerTokenStored <= r
      /\ SumOver(f) + PaidFrom(last) <= SCALE * m
  BY BackedNow
<1>2. /\ EscrowInv /\ RewardsTyped /\ UpdatesInOrder /\ now \in Nat /\ TotalSupply(now) \in Nat
      /\ m \in Nat /\ SCALE \in Nat
  BY Views, Times, RewardsAssumption
  DEF RewardsInv, ViewsAgree, EscrowInv, EscrowTyped, Accounts
<1>3. last \in Nat /\ last <= now /\ last <= periodFinish
  BY <1>2, PerTokenGrows
<1> HIDE DEF last, r
<1>4. /\ rewardPerTokenStored' = r /\ lastUpdateTime' = last
      /\ userRewardPerTokenPaid' = [userRewardPerTokenPaid EXCEPT ![u] = r]
      /\ rewards' = [rewards EXCEPT ![u] = left]
      /\ queuedRewards' = queuedRewards + extra /\ sdl'[RewardPool] = (m + extra) - given
      /\ UNCHANGED <<now, periodFinish, rewardRate>>
      /\ \A v \in Users \ {u} : locked'[v] = locked[v]
  BY DEF Settles, UpdatePerToken, r, last
<1>5. RewardsTyped'
  BY <1>1, <1>2, <1>3, <1>4 DEF RewardsTyped
<1>6. UpdatesInOrder'
  <2> SUFFICES ASSUME NEW v \in Users PROVE userRewardPerTokenPaid'[v] <= rewardPerTokenStored'
    BY <1>3, <1>4 DEF UpdatesInOrder
  <2>1. /\ userRewardPerTokenPaid[v] <= rewardPerTokenStored /\ userRewardPerTokenPaid[v] \in Nat
        /\ rewardPerTokenStored \in Nat
    BY <1>2 DEF UpdatesInOrder, RewardsTyped
  <2>2. userRewardPerTokenPaid'[v] = IF v = u THEN r ELSE userRewardPerTokenPaid[v]
    BY <1>2, <1>4 DEF RewardsTyped
  <2> QED BY <1>1, <1>4, <2>1, <2>2
<1>7. ASSUME NEW v \in Users \ {u} PROVE g[v] = f[v]
  <2>1. rewards'[v] = rewards[v] /\ userRewardPerTokenPaid'[v] = userRewardPerTokenPaid[v]
    BY <1>2, <1>4 DEF RewardsTyped
  <2>2. g[v] = SCALE * rewards'[v]
                 + WeightAt(locked'[v], now') * (rewardPerTokenStored' - userRewardPerTokenPaid'[v])
    BY OwedNextShape DEF OwedNextIs
  <2>3. f[v] = SCALE * rewards[v] + WeightAt(locked[v], now) * (r - userRewardPerTokenPaid[v])
    BY DEF OwedAt
  <2> HIDE DEF f, g
  <2> QED BY <1>4, <2>1, <2>2, <2>3
<1>8. g[u] = SCALE * left
  <2>1. rewards'[u] = left /\ userRewardPerTokenPaid'[u] = r
    BY <1>2, <1>4 DEF RewardsTyped
  <2>2. g[u] = SCALE * left + WeightAt(locked'[u], now') * (r - r)
    BY <1>4, <2>1, OwedNextShape DEF OwedNextIs
  <2>3. WeightAt(locked'[u], now') \in Nat
    <3>1. locked'[u] \in LockType /\ now' \in Int
      BY Times, <1>2, <1>4 DEF EscrowInv, EscrowTyped, Locks, LockType
    <3> QED BY <3>1, LockTypes
  <2>4. WeightAt(locked'[u], now') * (r - r) = 0 /\ SCALE * left \in Nat
    BY <1>1, <1>2, <2>3
  <2> HIDE DEF g
  <2> QED BY <2>2, <2>4
<1>9. SCALE * (given + left) <= f[u]
  <2>1. SCALE * Earned(u, BalanceOf(u, now), r) <= f[u]
    BY EarnedType DEF r
  <2>2. given + left = Earned(u, BalanceOf(u, now), r)
    BY DEF Settles, r
  <2> QED BY <2>1, <2>2
<1>10. \A v \in Users : f[v] \in Int
  BY <1>1, <1>2, OwedType
<1>11. SumOver(f) \in Int
  BY <1>1, <1>2, OwedType
<1>12. \A v \in Users : g[v] \in Int
  BY <1>5, OwedNext DEF OwedTyped
<1>13. SumOver(OwedAt(rewardPerTokenStored))' = SumOver(g)
  BY DEF SumOver
<1>14. PaidFrom(lastUpdateTime)' = PaidFrom(last) + SCALE * extra /\ PaidFrom(last) \in Int
  <2> DEFINE x == rewardRate * (periodFinish - last)
  <2>1. x \in Int /\ queuedRewards \in Nat
    BY <1>2, <1>3 DEF RewardsTyped
  <2>2. PaidFrom(last) = SCALE * (queuedRewards + x)
    BY DEF PaidFrom
  <2>3. PaidFrom(lastUpdateTime)' = SCALE * ((queuedRewards + extra) + x)
    BY <1>4 DEF PaidFrom
  <2> HIDE DEF x
  <2> QED BY <1>2, <2>1, <2>2, <2>3
<1> HIDE DEF f, g, m
<1>15. SumOver(g) = SumOver(f) + (g[u] - f[u])
  <2>1. \A v \in Users : f[v] \in Int /\ g[v] \in Int
    BY <1>10, <1>12
  <2>2. SumFunctionOnSet(g, Users) = SumFunctionOnSet(f, Users) + g[u] - f[u]
    BY <1>7, <2>1, SumChange, EscrowAssumption
  <2>3. g[u] \in Int /\ f[u] \in Int /\ SumFunctionOnSet(f, Users) \in Int
    BY <1>11, <2>1 DEF SumOver
  <2> QED BY <2>2, <2>3 DEF SumOver
<1>16. Backed'
  <2>1. /\ SCALE * (given + left) = SCALE * given + SCALE * left
        /\ SCALE * ((m + extra) - given) = SCALE * m + SCALE * extra - SCALE * given
        /\ SCALE * given \in Nat /\ SCALE * left \in Nat /\ SCALE * m \in Nat /\ SCALE * extra \in Nat
    BY <1>2
  <2>2. f[u] \in Int
    BY <1>10
  <2>3. SumOver(g) + (PaidFrom(last) + SCALE * extra) <= SCALE * m + SCALE * extra - SCALE * given
    BY <1>1, <1>8, <1>9, <1>11, <1>14, <1>15, <2>1, <2>2
  <2>4. Backed' = (SumOver(OwedAt(rewardPerTokenStored))' + PaidFrom(lastUpdateTime)'
                     <= SCALE * sdl'[RewardPool])
    BY DEF Backed
  <2> QED BY <1>4, <1>13, <1>14, <2>1, <2>3, <2>4
<1> QED BY <1>5, <1>6, <1>16 DEF RewardsInv

LEMMA LeftoverIs ==
  ASSUME RewardsInv
  PROVE  /\ Leftover \in Nat /\ PaidFrom(LastTimeRewardApplicable) = SCALE * (queuedRewards + Leftover)
         /\ queuedRewards \in Nat
<1> DEFINE last == LastTimeRewardApplicable
<1>1. /\ now \in Nat /\ periodFinish \in Nat /\ rewardRate \in Nat /\ queuedRewards \in Nat
      /\ RewardsTyped /\ UpdatesInOrder
  BY Times DEF RewardsInv, RewardsTyped, EscrowInv
<1>2. last = IF now <= periodFinish THEN now ELSE periodFinish
  BY <1>1, PerTokenGrows
<1>3. PaidFrom(last) = SCALE * (queuedRewards + rewardRate * (periodFinish - last))
  BY DEF PaidFrom
<1> HIDE DEF last
<1>4. CASE now < periodFinish
  <2>1. Leftover = (periodFinish - now) * rewardRate /\ last = now
    BY <1>1, <1>2, <1>4 DEF Leftover
  <2>2. periodFinish - now \in Nat
    BY <1>1, <1>4
  <2>3. (periodFinish - now) * rewardRate = rewardRate * (periodFinish - now)
        /\ (periodFinish - now) * rewardRate \in Nat
    BY <1>1, <2>2
  <2> QED BY <1>1, <1>3, <2>1, <2>3 DEF last
<1>5. CASE now >= periodFinish
  <2>1. Leftover = 0 /\ last = periodFinish
    BY <1>1, <1>2, <1>5 DEF Leftover
  <2>2. rewardRate * (periodFinish - last) = 0
    BY <1>1, <2>1
  <2> QED BY <1>1, <1>3, <2>1, <2>2 DEF last
<1> QED BY <1>1, <1>4, <1>5

LEMMA RenewsCovered ==
  ASSUME RewardsInv, EscrowInv', NEW amount \in Nat, Renews(amount) PROVE RewardsInv'
<1> DEFINE r == PerToken
           m == sdl[RewardPool]
           n == amount + queuedRewards + Leftover
           rate == n \div DURATION
<1>1. /\ r \in Nat /\ rewardPerTokenStored <= r
      /\ SumOver(OwedAt(r)) + SCALE * (queuedRewards + Leftover) <= SCALE * m
      /\ Leftover \in Nat /\ queuedRewards \in Nat
  BY BackedNow, LeftoverIs
<1>2. /\ EscrowInv /\ RewardsTyped /\ UpdatesInOrder /\ now \in Nat /\ m \in Nat
      /\ SCALE \in Nat /\ DURATION \in Nat \ {0}
  BY Times, RewardsAssumption DEF RewardsInv, EscrowInv, EscrowTyped, Accounts
<1>3. n \in Nat /\ n = amount + (queuedRewards + Leftover)
  BY <1>1
<1>4. /\ rewardPerTokenStored' = r /\ lastUpdateTime' = now /\ periodFinish' = now + DURATION
      /\ rewardRate' = rate /\ queuedRewards' = 0 /\ sdl'[RewardPool] = m + amount
      /\ UNCHANGED <<now, locked, userRewardPerTokenPaid, rewards>>
  BY DEF Renews
<1> HIDE DEF r, n
<1>5. rate \in Nat /\ DURATION * rate <= n
  BY <1>2, <1>3, DivDef
<1> HIDE DEF rate, m
<1>6. RewardsTyped'
  BY <1>1, <1>2, <1>4, <1>5 DEF RewardsTyped
<1>7. UpdatesInOrder'
  <2> SUFFICES ASSUME NEW v \in Users PROVE userRewardPerTokenPaid'[v] <= rewardPerTokenStored'
    BY <1>2, <1>4 DEF UpdatesInOrder
  <2>1. /\ userRewardPerTokenPaid[v] <= rewardPerTokenStored /\ userRewardPerTokenPaid[v] \in Nat
        /\ rewardPerTokenStored \in Nat
    BY <1>2 DEF UpdatesInOrder, RewardsTyped
  <2> QED BY <1>1, <1>4, <2>1
<1>8. OwedAt(rewardPerTokenStored)' = OwedAt(r)
  BY <1>4 DEF OwedAt, WeightAt, SlopeOf
<1>9. SumOver(OwedAt(rewardPerTokenStored))' = SumOver(OwedAt(r)) /\ SumOver(OwedAt(r)) \in Int
  BY <1>1, <1>2, <1>8, OwedType DEF SumOver
<1>10. PaidFrom(lastUpdateTime)' = SCALE * (DURATION * rate)
  <2>1. PaidFrom(lastUpdateTime)' = SCALE * (0 + rate * ((now + DURATION) - now))
    BY <1>4 DEF PaidFrom
  <2>2. (now + DURATION) - now = DURATION
    BY <1>2
  <2>3. 0 + rate * DURATION = DURATION * rate
    BY <1>2, <1>5
  <2> QED BY <2>1, <2>2, <2>3
<1>11. Backed'
  <2>1. SCALE * (DURATION * rate) <= SCALE * n
    <3>1. DURATION * rate \in Nat
      BY <1>2, <1>5
    <3> QED BY <1>2, <1>3, <1>5, <3>1
  <2>2. /\ SCALE * n = SCALE * amount + SCALE * (queuedRewards + Leftover)
        /\ SCALE * (m + amount) = SCALE * m + SCALE * amount
        /\ SCALE * amount \in Nat /\ SCALE * (queuedRewards + Leftover) \in Nat /\ SCALE * m \in Nat
        /\ SCALE * (DURATION * rate) \in Nat
    BY <1>1, <1>2, <1>3, <1>5
  <2>3. SumOver(OwedAt(r)) + SCALE * (DURATION * rate) <= SCALE * (m + amount)
    BY <1>1, <1>9, <2>1, <2>2
  <2>4. Backed' = (SumOver(OwedAt(rewardPerTokenStored))' + PaidFrom(lastUpdateTime)'
                     <= SCALE * sdl'[RewardPool])
    BY DEF Backed
  <2> QED BY <1>4, <1>9, <1>10, <2>3, <2>4
<1> QED BY <1>6, <1>7, <1>11 DEF RewardsInv

(* A weight never grows by itself.                                         *)
LEMMA WeightFalls ==
  ASSUME NEW lock \in LockType, NEW a \in Nat, NEW b \in Nat, a <= b
  PROVE  /\ WeightAt(lock, b) <= WeightAt(lock, a) /\ WeightAt(lock, a) \in Nat
         /\ WeightAt(lock, b) \in Nat /\ WeightAt(NoLock, b) = 0
<1> DEFINE s == SlopeOf(lock)
           e == lock.end
<1>1. /\ s \in Nat /\ e \in Nat
      /\ \A t \in Int : /\ WeightAt(lock, t) \in Nat
                        /\ e <= t => WeightAt(lock, t) = 0
                        /\ e > t => WeightAt(lock, t) = s * (e - t)
  BY LockTypes
<1>2. WeightAt(NoLock, b) = 0
  <2>1. NoLock \in LockType /\ NoLock.end = 0 /\ 0 <= b /\ b \in Int
    BY UnlockFollows DEF NoLock
  <2> QED BY <2>1, LockTypes
<1> HIDE DEF s, e
<1>3. WeightAt(lock, b) <= WeightAt(lock, a)
  <2>1. CASE e <= b
    BY <1>1, <2>1
  <2>2. CASE e > b
    <3>1. WeightAt(lock, b) = s * (e - b) /\ WeightAt(lock, a) = s * (e - a)
      BY <1>1, <2>2
    <3>2. s * (e - a) = s * (e - b) + s * (b - a) /\ s * (e - b) \in Int /\ s * (b - a) \in Nat
      <4>1. b - a \in Nat
        OBVIOUS
      <4> QED BY <1>1, <4>1
    <3> QED BY <3>1, <3>2
  <2> QED BY <1>1, <2>1, <2>2
<1> QED BY <1>1, <1>2, <1>3

LEMMA RestWeights ==
  ASSUME RewardsInv, EscrowInv', Rests, NEW u \in Users
  PROVE  /\ WeightAt(locked'[u], now') <= WeightAt(locked[u], now)
         /\ WeightAt(locked'[u], now') \in Nat /\ WeightAt(locked[u], now) \in Nat
<1>1. now \in Nat /\ locked[u] \in LockType
  BY Times DEF RewardsInv, EscrowInv, EscrowTyped, Locks
<1>2. now' \in Nat
  BY EscrowAssumption DEF EscrowInv, EscrowTyped
<1>3. now <= now' /\ (locked'[u] = locked[u] \/ locked'[u] = NoLock)
  BY DEF Rests
<1>4. /\ WeightAt(locked[u], now') <= WeightAt(locked[u], now) /\ WeightAt(locked[u], now) \in Nat
      /\ WeightAt(locked[u], now') \in Nat /\ WeightAt(NoLock, now') = 0
  BY <1>1, <1>2, <1>3, WeightFalls
<1>5. CASE locked'[u] = locked[u]
  BY <1>4, <1>5
<1>6. CASE locked'[u] = NoLock
  <2>1. WeightAt(locked'[u], now') = 0
    BY <1>4, <1>6
  <2> QED BY <1>4, <2>1
<1> QED BY <1>3, <1>5, <1>6

LEMMA RestsCovered == ASSUME RewardsInv, EscrowInv', Rests PROVE RewardsInv'
<1> DEFINE f == OwedAt(rewardPerTokenStored)
           g == OwedAt(rewardPerTokenStored)'
           m == sdl[RewardPool]
           extra == queuedRewards' - queuedRewards
<1>1. /\ EscrowInv /\ RewardsTyped /\ UpdatesInOrder /\ now \in Nat /\ now' \in Nat /\ m \in Nat
      /\ SCALE \in Nat
  BY Times, EscrowAssumption, RewardsAssumption DEF RewardsInv, EscrowInv, EscrowTyped, Accounts
<1>2. /\ now <= now' /\ queuedRewards' \in Nat /\ sdl'[RewardPool] = m + extra
      /\ UNCHANGED <<periodFinish, rewardRate, lastUpdateTime, rewardPerTokenStored>>
      /\ UNCHANGED <<userRewardPerTokenPaid, rewards>>
  BY DEF Rests, userVars
<1>3. RewardsTyped'
  BY <1>1, <1>2 DEF RewardsTyped
<1>4. UpdatesInOrder'
  <2>1. lastUpdateTime \in Nat /\ lastUpdateTime <= now
    BY <1>1 DEF RewardsTyped, UpdatesInOrder
  <2>2. lastUpdateTime' <= now'
    BY <1>1, <1>2, <2>1
  <2> QED BY <1>1, <1>2, <2>2 DEF UpdatesInOrder
<1>5. ASSUME NEW u \in Users PROVE g[u] <= f[u] /\ g[u] \in Int /\ f[u] \in Int
  <2> DEFINE x == WeightAt(locked[u], now)
             y == WeightAt(locked'[u], now')
             d == rewardPerTokenStored - userRewardPerTokenPaid[u]
             o == SCALE * rewards[u]
  <2>1. x \in Nat /\ y \in Nat /\ y <= x
    BY RestWeights
  <2>2. d \in Nat /\ o \in Nat
    BY <1>1 DEF RewardsTyped, UpdatesInOrder
  <2>3. f[u] = o + x * d
    BY DEF OwedAt
  <2>4. g[u] = o + y * d
    BY <1>2, OwedNextShape DEF OwedNextIs
  <2> HIDE DEF f, g, x, y, d, o
  <2>5. x * d = y * d + (x - y) * d /\ x - y \in Nat /\ y * d \in Nat
    BY <2>1, <2>2
  <2>6. (x - y) * d \in Nat
    BY <2>2, <2>5
  <2> QED BY <2>2, <2>3, <2>4, <2>5, <2>6
<1>6. SumOver(g) <= SumOver(f)
  <2> HIDE DEF f, g
  <2> QED BY <1>5, SumMonotone, EscrowAssumption DEF SumOver
<1>7. SumOver(f) \in Int /\ SumOver(g) \in Int
  <2> HIDE DEF f, g
  <2> QED BY <1>5, SumInt, EscrowAssumption DEF SumOver
<1>8. SumOver(OwedAt(rewardPerTokenStored))' = SumOver(g)
  BY DEF SumOver
<1>9. /\ PaidFrom(lastUpdateTime)' = PaidFrom(lastUpdateTime) + SCALE * extra
      /\ PaidFrom(lastUpdateTime) \in Int /\ extra \in Int
  <2> DEFINE x == rewardRate * (periodFinish - lastUpdateTime)
  <2>1. x \in Int /\ queuedRewards \in Nat
    BY <1>1 DEF RewardsTyped
  <2>2. PaidFrom(lastUpdateTime) = SCALE * (queuedRewards + x)
    BY DEF PaidFrom
  <2>3. PaidFrom(lastUpdateTime)' = SCALE * (queuedRewards' + x)
    BY <1>2 DEF PaidFrom
  <2> HIDE DEF x
  <2> QED BY <1>1, <1>2, <2>1, <2>2, <2>3
<1>10. Backed'
  <2>1. SumOver(f) + PaidFrom(lastUpdateTime) <= SCALE * m
    BY DEF RewardsInv, Backed
  <2> HIDE DEF f, g, m, extra
  <2>2. SCALE * (m + extra) = SCALE * m + SCALE * extra /\ SCALE * m \in Int /\ SCALE * extra \in Int
    BY <1>1, <1>9
  <2>3. SumOver(g) + (PaidFrom(lastUpdateTime) + SCALE * extra) <= SCALE * (m + extra)
    BY <1>6, <1>7, <1>9, <2>1, <2>2
  <2>4. Backed' = (SumOver(OwedAt(rewardPerTokenStored))' + PaidFrom(lastUpdateTime)'
                     <= SCALE * sdl'[RewardPool])
    BY DEF Backed
  <2> QED BY <1>2, <1>8, <1>9, <2>3, <2>4
<1> QED BY <1>3, <1>4, <1>10 DEF RewardsInv

LEMMA RewardsInvNext == RewardsInv /\ [Next]_<<veVars, rewardVars>> => RewardsInv'
<1> SUFFICES ASSUME RewardsInv, [Next]_<<veVars, rewardVars>> PROVE RewardsInv'
  OBVIOUS
<1>1. EscrowInv' /\ OfAKind
  BY Kinds
<1> QED BY <1>1, SettlesCovered, RenewsCovered, RestsCovered DEF OfAKind

LEMMA RewardsInvInit == Init => RewardsInv
<1> SUFFICES ASSUME Init PROVE RewardsInv
  OBVIOUS
<1>1. EscrowInv
  BY EscrowInvInit DEF Init
<1>2. /\ periodFinish = 0 /\ rewardRate = 0 /\ queuedRewards = 0 /\ lastUpdateTime = 0
      /\ rewardPerTokenStored = 0 /\ 0 \in Nat
      /\ userRewardPerTokenPaid = [u \in Users |-> 0] /\ rewards = [u \in Users |-> 0]
  BY DEF Init
<1>3. RewardsTyped
  BY <1>2 DEF RewardsTyped
<1>4. UpdatesInOrder
  <2>1. 0 <= now
    BY <1>1, Times DEF EscrowInv
  <2> QED BY <1>2, <2>1 DEF UpdatesInOrder
<1>5. SCALE \in Nat /\ sdl[RewardPool] \in Nat
  BY <1>1, RewardsAssumption DEF EscrowInv, EscrowTyped, Accounts
<1>6. ASSUME NEW u \in Users PROVE OwedAt(0)[u] = 0
  <2>1. WeightAt(locked[u], now) \in Nat
    BY <1>1, Views DEF ViewsAgree
  <2>2. OwedAt(0)[u] = SCALE * 0 + WeightAt(locked[u], now) * (0 - 0)
    BY <1>2 DEF OwedAt
  <2> QED BY <1>5, <2>1, <2>2
<1>7. SumOver(OwedAt(0)) = 0
  BY <1>6, SumZero, EscrowAssumption DEF SumOver
<1>8. PaidFrom(0) = 0
  <2>1. PaidFrom(0) = SCALE * (0 + 0 * (0 - 0))
    BY <1>2 DEF PaidFrom
  <2> QED BY <1>5, <2>1
<1>9. 0 + 0 <= SCALE * sdl[RewardPool]
  BY <1>5
<1> QED BY <1>1, <1>2, <1>3, <1>4, <1>7, <1>8, <1>9 DEF RewardsInv, Backed

THEOREM RewardsInvariant == Spec => []RewardsInv
BY RewardsInvInit, RewardsInvNext, PTL DEF Spec

LEMMA CoveredIs == RewardsInv => RewardsAreCovered
<1> SUFFICES ASSUME RewardsInv PROVE RewardsAreCovered
  OBVIOUS
<1> DEFINE r == PerToken
           f == EarnedAt(r)
           g == OwedAt(r)
           scaled == [u \in Users |-> SCALE * f[u]]
           m == sdl[RewardPool]
<1>1. /\ r \in Nat /\ SumOver(g) + SCALE * (queuedRewards + Leftover) <= SCALE * m
      /\ Leftover \in Nat /\ queuedRewards \in Nat
  BY BackedNow, LeftoverIs
<1>2. SCALE \in Nat \ {0} /\ m \in Nat /\ EscrowInv /\ RewardsTyped
  BY RewardsAssumption DEF RewardsInv, EscrowInv, EscrowTyped, Accounts
<1>3. ASSUME NEW u \in Users
      PROVE  f[u] \in Nat /\ scaled[u] = SCALE * f[u] /\ scaled[u] <= g[u] /\ g[u] \in Int
  <2>1. f[u] = Earned(u, BalanceOf(u, now), r)
    BY DEF EarnedAt
  <2>2. /\ Earned(u, BalanceOf(u, now), r) \in Nat
        /\ SCALE * Earned(u, BalanceOf(u, now), r) <= g[u]
    BY EarnedType
  <2>3. g[u] \in Int
    BY <1>1, <1>2, OwedType
  <2> QED BY <2>1, <2>2, <2>3
<1>4. RewardsAreCovered <=> m >= SumOver(f) + queuedRewards + Leftover
  BY DEF RewardsAreCovered
<1> HIDE DEF r, f, g, scaled, m
<1>5. \A u \in Users : f[u] \in Int /\ scaled[u] \in Int
  BY <1>2, <1>3
<1>6. SumOver(scaled) = SCALE * SumOver(f) /\ SumOver(f) \in Nat
  BY <1>2, <1>3, <1>5, SumTimes, SumNat, EscrowAssumption DEF SumOver
<1>7. SumOver(scaled) <= SumOver(g)
  BY <1>3, <1>5, SumMonotone, EscrowAssumption DEF SumOver
<1>8. SumOver(g) \in Int
  BY <1>3, SumInt, EscrowAssumption DEF SumOver
<1>9. SCALE * (SumOver(f) + (queuedRewards + Leftover)) <= SCALE * m
  <2>1. SCALE * (SumOver(f) + (queuedRewards + Leftover))
          = SCALE * SumOver(f) + SCALE * (queuedRewards + Leftover)
    BY <1>1, <1>2, <1>6
  <2>2. SCALE * SumOver(f) \in Nat /\ SCALE * (queuedRewards + Leftover) \in Nat /\ SCALE * m \in Nat
    BY <1>1, <1>2, <1>6
  <2> QED BY <1>1, <1>6, <1>7, <1>8, <2>1, <2>2
<1>10. SumOver(f) + (queuedRewards + Leftover) <= m
  <2> DEFINE n == SumOver(f) + (queuedRewards + Leftover)
  <2>1. n \in Nat /\ SCALE * n <= SCALE * m
    BY <1>1, <1>6, <1>9
  <2> HIDE DEF n
  <2>2. n <= m
    <3>1. ASSUME n >= m + 1 PROVE FALSE
      <4>1. SCALE * n >= SCALE * (m + 1)
        BY <1>2, <2>1, <3>1
      <4>2. SCALE * (m + 1) = SCALE * m + SCALE /\ SCALE * m \in Nat /\ SCALE * n \in Nat
        BY <1>2, <2>1
      <4> QED BY <1>2, <2>1, <4>1, <4>2
    <3> QED BY <1>2, <2>1, <3>1
  <2> QED BY <2>2 DEF n
<1> QED BY <1>1, <1>2, <1>4, <1>6, <1>10

(* Whatever the order of updates, deposits, withdrawals, early exits, new  *)
(* rewards and expiring locks, VeSDLRewards holds the SDL that all users   *)
(* have earned, that is queued and that is still to be paid out.           *)
THEOREM RewardsAlwaysCovered == Spec => []RewardsAreCovered
BY CoveredIs, RewardsInvariant, PTL

(* updateReward, which every operation of the escrow calls, never reverts  *)
(* on a subtraction: time and reward per token are never behind what was   *)
(* recorded, so no lock is held by its rewards.                            *)
THEOREM UpdatesNeverRevert == Spec => []UpdateNeverReverts
<1>1. RewardsInv => UpdateNeverReverts
  <2> SUFFICES ASSUME RewardsInv PROVE UpdateNeverReverts
    OBVIOUS
  <2>1. now \in Nat /\ RewardsTyped /\ UpdatesInOrder
    BY Times DEF RewardsInv, EscrowInv
  <2>2. lastUpdateTime <= LastTimeRewardApplicable
    BY <2>1, PerTokenGrows
  <2> QED BY <2>1, <2>2 DEF UpdateNeverReverts, UpdatesInOrder
<1> QED BY <1>1, RewardsInvariant, PTL

-----------------------------------------------------------------------------
(* What a user has earned is kept when others act in the same block.       *)
PerTokenAbove == PerToken \in Nat /\ rewardPerTokenStored <= PerToken
LEMMA PerTokenNow == RewardsInv => PerTokenAbove
BY BackedNow DEF PerTokenAbove
LEMMA PerTokenNext == RewardsInv' => PerTokenAbove'
BY PerTokenNow, PTL

EarnedIs ==
  \A u \in Users :
     \A r \in Nat :
        EarnedAt(r)[u] = (WeightAt(locked[u], now) * (r - userRewardPerTokenPaid[u])) \div SCALE
                           + rewards[u]
LEMMA EarnedShape == EscrowInv => EarnedIs
BY Views DEF ViewsAgree, EarnedIs, EarnedAt, Earned
LEMMA EarnedShapeNext == EscrowInv' => EarnedIs'
BY EarnedShape, PTL

(* The smaller the total, the more accrues per token, if there is a total. *)
LEMMA LessSharesMore ==
  ASSUME now \in Nat, RewardsTyped, UpdatesInOrder, NEW a \in Nat, NEW b \in Nat \ {0}, b <= a
  PROVE  RewardPerToken(a) <= RewardPerToken(b)
<1> DEFINE last == LastTimeRewardApplicable
           n == (last - lastUpdateTime) * rewardRate * SCALE
<1>1. last \in Nat /\ lastUpdateTime <= last /\ 0 \in Nat
  BY PerTokenGrows
<1>2. n \in Nat
  <2>1. last - lastUpdateTime \in Nat /\ rewardRate \in Nat /\ SCALE \in Nat
    BY <1>1, RewardsAssumption DEF RewardsTyped
  <2> HIDE DEF last
  <2>2. (last - lastUpdateTime) * rewardRate \in Nat
    BY <2>1
  <2> QED BY <2>1, <2>2
<1>3. /\ RewardPerToken(a) = rewardPerTokenStored + n \div a
      /\ RewardPerToken(b) = rewardPerTokenStored + n \div b
  BY DEF RewardPerToken
<1> HIDE DEF n
<1>4. n \div a <= n \div b /\ n \div a \in Nat /\ n \div b \in Nat
  <2>1. n <= n /\ a \in Nat \ {0}
    BY <1>2
  <2> QED BY <1>2, <2>1, DivMonotone, DivDef
<1> QED BY <1>3, <1>4 DEF RewardsTyped

(* For one user: when the reward per token is not below what it was, or    *)
(* the user has no weight.                                                 *)
LEMMA EarnsMore ==
  ASSUME NEW w \in Nat, NEW p \in Nat, NEW r \in Nat, NEW s \in Nat, p <= r, p <= s,
         r <= s \/ w = 0
  PROVE  /\ (w * (r - p)) \div SCALE <= (w * (s - p)) \div SCALE
         /\ (w * (r - p)) \div SCALE \in Nat /\ (w * (s - p)) \div SCALE \in Nat
<1>1. SCALE \in Nat \ {0} /\ SCALE <= SCALE
  BY RewardsAssumption
<1>2. r - p \in Nat /\ s - p \in Nat
  OBVIOUS
<1>3. w * (r - p) \in Nat /\ w * (s - p) \in Nat
  BY <1>2
<1>4. w * (r - p) <= w * (s - p)
  <2>1. CASE r <= s
    <3>1. w * (s - p) = w * (r - p) + w * (s - r) /\ w * (s - r) \in Nat
      <4>1. s - r \in Nat
        BY <2>1
      <4> QED BY <1>2, <4>1
    <3> QED BY <1>3, <3>1
  <2>2. CASE w = 0
    <3>1. w * (r - p) = 0 /\ w * (s - p) = 0
      BY <1>2, <2>2
    <3> QED BY <3>1
  <2> QED BY <2>1, <2>2
<1> QED BY <1>1, <1>3, <1>4, DivMonotone, DivDef

LEMMA EarnedNext ==
  ASSUME EscrowInv', NEW v \in Users, NEW next \in Nat
  PROVE  EarnedAt(next)'[v] =
           (WeightAt(locked'[v], now') * (next - userRewardPerTokenPaid'[v])) \div SCALE + rewards'[v]
BY EarnedShapeNext DEF EarnedIs, WeightAt, SlopeOf

(* A user who is not settled keeps the weight or loses it with the lock.   *)
LEMMA UnsettledKept ==
  ASSUME RewardsInv, RewardsInv', now' = now, NEW v \in Users, NEW next \in Nat, next = PerToken',
         locked'[v] = locked[v], userRewardPerTokenPaid'[v] = userRewardPerTokenPaid[v],
         rewards'[v] = rewards[v], PerToken <= next \/ WeightAt(locked[v], now) = 0
  PROVE  EarnedAt(next)'[v] >= EarnedAt(PerToken)[v]
<1> DEFINE r == PerToken
           w == WeightAt(locked[v], now)
           p == userRewardPerTokenPaid[v]
<1>1. r \in Nat /\ rewardPerTokenStored <= r /\ rewardPerTokenStored' <= next
  BY PerTokenNow, PerTokenNext DEF PerTokenAbove
<1>2. /\ p \in Nat /\ p <= rewardPerTokenStored /\ rewardPerTokenStored \in Nat /\ rewards[v] \in Nat
      /\ p <= rewardPerTokenStored' /\ rewardPerTokenStored' \in Nat
  BY DEF RewardsInv, RewardsTyped, UpdatesInOrder
<1>3. w \in Nat
  BY Views DEF ViewsAgree, RewardsInv
<1>4. EarnedAt(r)[v] = (w * (r - p)) \div SCALE + rewards[v]
  BY <1>1, EarnedShape DEF EarnedIs, RewardsInv
<1>5. EarnedAt(next)'[v] = (w * (next - p)) \div SCALE + rewards[v]
  BY EarnedNext DEF RewardsInv
<1> HIDE DEF r, w, p
<1>6. /\ (w * (r - p)) \div SCALE <= (w * (next - p)) \div SCALE
      /\ (w * (r - p)) \div SCALE \in Nat /\ (w * (next - p)) \div SCALE \in Nat
  <2>1. p <= r /\ p <= next /\ (r <= next \/ w = 0)
    BY <1>1, <1>2 DEF r, w
  <2> QED BY <1>1, <1>2, <1>3, <2>1, EarnsMore
<1>7. EarnedAt(next)'[v] >= EarnedAt(r)[v]
  BY <1>2, <1>4, <1>5, <1>6
<1> QED BY <1>7 DEF r

LEMMA SettlesKept ==
  ASSUME RewardsInv, RewardsInv', NEW u \in Users, NEW left \in Nat, NEW given \in Nat, NEW extra \in Nat,
         Settles(u, left, given, extra), NEW v \in Users, locked'[v] = locked[v], sdl'[v] = sdl[v],
         NEW next \in Nat, next = PerToken'
  PROVE  EarnedAt(next)'[v] >= EarnedAt(PerToken)[v]
<1> DEFINE r == PerToken
<1>1. r \in Nat /\ r = rewardPerTokenStored' /\ rewardPerTokenStored' <= next
  BY PerTokenNow, PerTokenNext DEF PerTokenAbove, Settles, UpdatePerToken
<1>2. /\ userRewardPerTokenPaid' = [userRewardPerTokenPaid EXCEPT ![u] = r]
      /\ rewards' = [rewards EXCEPT ![u] = left] /\ now' = now
      /\ given + left = Earned(u, BalanceOf(u, now), r)
      /\ given > 0 => locked'[u] # locked[u] \/ sdl'[u] # sdl[u]
  BY DEF Settles
<1>3. userRewardPerTokenPaid \in [Users -> Nat] /\ rewards \in [Users -> Nat]
  BY DEF RewardsInv, RewardsTyped
<1>4. CASE v = u
  <2>1. given = 0 /\ left = Earned(u, BalanceOf(u, now), r)
    BY <1>2, <1>4
  <2>2. EarnedAt(r)[v] = left
    BY <1>4, <2>1 DEF EarnedAt
  <2>3. EarnedAt(next)'[v] = (WeightAt(locked'[v], now') * (next - r)) \div SCALE + left
    BY <1>2, <1>3, <1>4, EarnedNext DEF RewardsInv
  <2>4. WeightAt(locked'[v], now') \in Nat
    BY <1>2, Views DEF ViewsAgree, RewardsInv
  <2> HIDE DEF r
  <2>5. (WeightAt(locked'[v], now') * (next - r)) \div SCALE \in Nat
    <3>1. next - r \in Nat /\ SCALE \in Nat \ {0}
      <4>1. SCALE \in Nat \ {0} /\ r \in Nat /\ next \in Nat /\ r <= next
        BY <1>1, RewardsAssumption
      <4>2. \A a, b \in Nat : a <= b => b - a \in Nat
        OBVIOUS
      <4> QED BY <4>1, <4>2
    <3>2. WeightAt(locked'[v], now') * (next - r) \in Nat
      BY <2>4, <3>1
    <3> QED BY <3>1, <3>2, DivDef
  <2>6. EarnedAt(next)'[v] >= EarnedAt(r)[v]
    BY <2>2, <2>3, <2>5
  <2> QED BY <2>6 DEF r
<1>5. CASE v # u
  <2>1. userRewardPerTokenPaid'[v] = userRewardPerTokenPaid[v] /\ rewards'[v] = rewards[v]
    BY <1>2, <1>3, <1>5
  <2> QED BY <1>1, <1>2, <2>1, UnsettledKept
<1> QED BY <1>4, <1>5

LEMMA RenewsKept ==
  ASSUME RewardsInv, RewardsInv', NEW amount \in Nat, Renews(amount), NEW v \in Users,
         NEW next \in Nat, next = PerToken'
  PROVE  EarnedAt(next)'[v] >= EarnedAt(PerToken)[v]
<1>1. /\ rewardPerTokenStored' = PerToken /\ now' = now /\ locked' = locked
      /\ userRewardPerTokenPaid' = userRewardPerTokenPaid /\ rewards' = rewards
  BY DEF Renews
<1>2. PerToken <= next
  BY <1>1, PerTokenNext DEF PerTokenAbove
<1> QED BY <1>1, <1>2, UnsettledKept

(* Without an update, the total may only have become less; and with it the *)
(* weight of everybody when it is zero.                                    *)
LEMMA RestsKept ==
  ASSUME RewardsInv, RewardsInv', Rests, now' = now, NEW v \in Users, locked'[v] = locked[v],
         NEW next \in Nat, next = PerToken'
  PROVE  EarnedAt(next)'[v] >= EarnedAt(PerToken)[v]
<1> DEFINE total == TotalSupply(now)
           rest  == TotalSupply(now)'
           f == Weights(locked, now)
           g == Weights(locked', now)
<1>1. /\ total = SumOver(f) /\ total \in Nat /\ now \in Nat
      /\ EscrowInv /\ RewardsTyped /\ UpdatesInOrder
  BY Views, Times DEF RewardsInv, ViewsAgree, EscrowInv
<1>2. rest = SumOver(Weights(locked, now))' /\ rest \in Nat
  BY ViewsNext DEF RewardsInv, ViewsAgree
<1>3. rest = SumOver(g)
  BY <1>2 DEF SumOver, Weights, WeightAt, SlopeOf
<1>4. ASSUME NEW x \in Users PROVE g[x] <= f[x] /\ g[x] \in Nat /\ f[x] \in Nat
  <2>1. /\ WeightAt(locked'[x], now) <= WeightAt(locked[x], now)
        /\ WeightAt(locked'[x], now) \in Nat /\ WeightAt(locked[x], now) \in Nat
    BY RestWeights DEF RewardsInv
  <2> QED BY <2>1 DEF Weights
<1>5. /\ UNCHANGED <<lastUpdateTime, rewardPerTokenStored, userRewardPerTokenPaid, rewards>>
      /\ UNCHANGED <<periodFinish, rewardRate>>
  BY DEF Rests, userVars
<1>6. next = RewardPerToken(rest)
  BY <1>5 DEF PerToken, RewardPerToken, LastTimeRewardApplicable
<1>7. PerToken = RewardPerToken(total)
  BY DEF PerToken
<1>8. g[v] = WeightAt(locked[v], now)
  BY DEF Weights
<1> HIDE DEF total, rest, f, g
<1>9. rest <= total
  <2>1. \A x \in Users : g[x] \in Int /\ f[x] \in Int /\ g[x] <= f[x]
    BY <1>4
  <2> QED BY <1>1, <1>3, <2>1, SumMonotone, EscrowAssumption DEF SumOver
<1>10. PerToken <= next \/ WeightAt(locked[v], now) = 0
  <2>1. CASE rest = 0
    <3>1. g[v] <= SumOver(g) /\ g[v] \in Nat
      BY <1>4, SumPart, EscrowAssumption DEF SumOver
    <3> QED BY <1>3, <1>8, <2>1, <3>1
  <2>2. CASE rest # 0
    <3>1. RewardPerToken(total) <= RewardPerToken(rest)
      BY <1>1, <1>2, <1>9, <2>2, LessSharesMore
    <3> QED BY <1>6, <1>7, <3>1
  <2> QED BY <2>1, <2>2
<1> QED BY <1>5, <1>10, UnsettledKept

(* Whoever neither moves a lock nor SDL loses nothing of what is earned to *)
(* anybody else's step in the same block, be it an update, a withdrawal of *)
(* a released lock that is not updated, or a new reward.                   *)
THEOREM EarnedAlwaysKept == Spec => EarnedIsKept
<1> DEFINE Kept ==
      now' = now =>
        \E r \in {PerToken}, next \in {PerToken'} :
           \A u \in Users :
              locked'[u] = locked[u] /\ sdl'[u] = sdl[u]
                => EarnedAt(next)'[u] >= EarnedAt(r)[u]
<1>1. RewardsInv /\ RewardsInv' /\ [Next]_<<veVars, rewardVars>> => [Kept]_<<veVars, rewardVars>>
  <2> SUFFICES ASSUME RewardsInv, RewardsInv', [Next]_<<veVars, rewardVars>>, now' = now
               PROVE  \E next \in {PerToken'} :
                        \A u \in Users :
                           locked'[u] = locked[u] /\ sdl'[u] = sdl[u]
                             => EarnedAt(next)'[u] >= EarnedAt(PerToken)[u]
    OBVIOUS
  <2>1. PICK next \in {PerToken'} : TRUE
    OBVIOUS
  <2>2. next = PerToken' /\ next \in Nat
    BY PerTokenNext DEF PerTokenAbove
  <2>3. OfAKind
    BY Kinds
  <2>4. ASSUME NEW v \in Users, locked'[v] = locked[v], sdl'[v] = sdl[v]
        PROVE  EarnedAt(next)'[v] >= EarnedAt(PerToken)[v]
    BY <2>2, <2>3, <2>4, SettlesKept, RenewsKept, RestsKept DEF OfAKind
  <2> QED BY <2>4
<1> QED BY <1>1, RewardsInvariant, PTL DEF Spec, EarnedIsKept
==============================================================================
