--------------------------- MODULE ChildGaugeProofs ---------------------------
(***************************************************************************)
(* Proofs about the root and the child gauge, for any users, amounts,      *)
(* boosts and delays.  GaugeInv, the types and the three sums, holds       *)
(* whatever users call.  What is owed to the stakers, AccruedIsKept and    *)
(* MintsAreCovered, is proved under ToThemselves: the gauge checkpoints    *)
(* the receiver of a withdrawal, and loses count of a staker who sends the *)
(* tokens to somebody else.  A payment is covered because every checkpoint *)
(* rounds down twice, from SDL to a rate and from the integral to a share; *)
(* CoveredInv adds it all up in the units of the integral.                 *)
(***************************************************************************)
EXTENDS ChildGauge, ArithmeticLemmas

Weeks == 0 .. WeekOf(MaxTime)

ClockTyped == now \in Genesis .. MaxTime /\ period \in [ts : Genesis .. now, integral : Nat]

RootTyped ==
  /\ lastPeriod \in 0 .. WeekOf(now)
  /\ totalEmissions \in Nat /\ rootMinted \in 0 .. totalEmissions
  /\ requests \in Nat /\ lastRequest \in 0 .. now

IsFlight(bag) == IsABag(bag) /\ IsFiniteSet(DOMAIN bag) /\ DOMAIN bag \subseteq Nat

StreamTyped ==
  /\ gaugeSDL \in Nat /\ factorySDL \in Nat /\ minted \in [Users -> Nat]
  /\ inflation_rate \in [Weeks -> Nat]
  /\ integrate_fraction \in [Users -> Nat]
  /\ integrate_inv_supply_of \in [Users -> Nat]
  /\ \A u \in Users : integrate_inv_supply_of[u] <= period.integral

StakesTyped ==
  /\ totalSupply \in 0 .. MaxStake /\ balanceOf \in [Users -> Nat]
  /\ working_supply \in Nat /\ working_balances \in [Users -> Nat]
  /\ \A u \in Users : working_balances[u] <= balanceOf[u]

VeTyped ==
  ve \in [balance : [Users -> VeBalances \union {0}], total : VeTotals \union {0}]

GaugeInv ==
  /\ ClockTyped /\ RootTyped /\ IsFlight(inFlight) /\ StreamTyped /\ StakesTyped /\ VeTyped
  /\ WorkingIsSum /\ SDLIsConserved

Total(f) == SumFunctionOnSet(f, Users)

-----------------------------------------------------------------------------
(* Weeks.                                                                  *)
LEMMA WeekType ==
  ASSUME NEW t \in Nat
  PROVE  /\ WeekOf(t) \in Nat
         /\ WeekOf(t) * WEEK <= t /\ t < WeekEnd(t) /\ WeekEnd(t) \in Nat
         /\ WeekEnd(t) - t \in Nat \ {0}
<1>1. WeekOf(t) \in Nat /\ WEEK * WeekOf(t) <= t /\ t < WEEK * WeekOf(t) + WEEK
  BY DivDef, ChildGaugeAssumption DEF WeekOf
<1>2. WeekEnd(t) = WEEK * WeekOf(t) + WEEK /\ WeekOf(t) * WEEK = WEEK * WeekOf(t)
  BY <1>1, ChildGaugeAssumption DEF WeekEnd
<1>3. WEEK * WeekOf(t) \in Nat
  BY <1>1, ChildGaugeAssumption
<1> QED BY <1>1, <1>2, <1>3, ChildGaugeAssumption

LEMMA WeekMonotone ==
  ASSUME NEW t \in Nat, NEW s \in Nat, t <= s PROVE WeekOf(t) <= WeekOf(s)
<1>1. WEEK \in Nat \ {0} /\ WEEK \in Nat /\ WEEK <= WEEK
  BY ChildGaugeAssumption
<1> QED BY <1>1, DivMonotone DEF WeekOf

LEMMA MinOfTwo ==
  ASSUME NEW a \in Int, NEW b \in Int
  PROVE  Min({a, b}) = (IF a <= b THEN a ELSE b) /\ Max({a, b}) = (IF a <= b THEN b ELSE a)
BY DEF Min, Max

(* The times of a state.                                                   *)
LEMMA Times ==
  ASSUME ClockTyped
  PROVE  /\ now \in Nat /\ period.ts \in Nat /\ period.ts <= now /\ now <= MaxTime
         /\ period.integral \in Nat /\ Genesis <= period.ts
         /\ WeekOf(now) \in Weeks /\ WeekOf(period.ts) \in Weeks
         /\ WeekOf(now) \in Nat /\ WeekOf(period.ts) \in Nat /\ WeekOf(MaxTime) \in Nat
         /\ WeekOf(period.ts) <= WeekOf(now) /\ WeekOf(now) <= WeekOf(MaxTime)
<1>1. /\ now \in Nat /\ period.ts \in Nat /\ period.ts <= now /\ now <= MaxTime
      /\ period.integral \in Nat /\ Genesis <= period.ts
  BY ChildGaugeAssumption DEF ClockTyped
<1>2. /\ WeekOf(now) \in Nat /\ WeekOf(period.ts) \in Nat /\ WeekOf(MaxTime) \in Nat
      /\ WeekOf(period.ts) <= WeekOf(now) /\ WeekOf(now) <= WeekOf(MaxTime)
  BY <1>1, WeekType, WeekMonotone, ChildGaugeAssumption
<1> QED BY <1>1, <1>2 DEF Weeks

LEMMA PassedType ==
  ASSUME ClockTyped, NEW w \in WeekOf(period.ts) .. WeekOf(now)
  PROVE  w \in Weeks /\ Passed(w) \in Nat
<1> DEFINE a == w * WEEK
           b == (w + 1) * WEEK
<1>1. w \in Nat /\ w \in Weeks
  BY Times DEF Weeks
<1>2. WeekOf(now) * WEEK <= now /\ now \in Nat /\ period.ts \in Nat /\ period.ts <= now
      /\ period.ts < WeekEnd(period.ts)
  BY Times, WeekType
<1>3. w <= WeekOf(now) /\ WeekOf(period.ts) <= w /\ WeekOf(now) \in Nat /\ WeekOf(period.ts) \in Nat
      /\ WEEK \in Nat
  BY <1>2, WeekType, ChildGaugeAssumption
<1>4. a <= WeekOf(now) * WEEK /\ a \in Nat /\ b \in Nat /\ a <= b
  BY <1>1, <1>3
<1>5. WeekEnd(period.ts) <= b
  BY <1>1, <1>3 DEF WeekEnd
<1>6. WeekOf(now) * WEEK \in Nat /\ WeekEnd(period.ts) \in Nat
  BY <1>2, <1>3, WeekType
<1> HIDE DEF a, b
<1>7. Passed(w) = (IF now <= b THEN now ELSE b) - (IF period.ts <= a THEN a ELSE period.ts)
  <2>1. now \in Int /\ b \in Int /\ period.ts \in Int /\ a \in Int
    BY <1>2, <1>4
  <2>2. /\ Min({now, b}) = (IF now <= b THEN now ELSE b)
        /\ Max({period.ts, a}) = (IF period.ts <= a THEN a ELSE period.ts)
    BY <2>1, MinOfTwo
  <2>3. Passed(w) = Min({now, b}) - Max({period.ts, a})
    BY DEF Passed, a, b
  <2> QED BY <2>2, <2>3
<1> QED BY <1>1, <1>2, <1>4, <1>5, <1>6, <1>7

(* What a week gives for a share of the stakes that count.                 *)
Gained == [w \in WeekOf(period.ts) .. WeekOf(now) |->
             (inflation_rate[w] * SCALE * Passed(w)) \div working_supply]

LEMMA IntegralGrows ==
  ASSUME GaugeInv PROVE IntegralNow \in Nat /\ period.integral <= IntegralNow
<1>1. period.integral \in Nat
  BY Times DEF GaugeInv
<1>2. CASE working_supply = 0
  BY <1>1, <1>2 DEF IntegralNow
<1>3. CASE working_supply # 0
  <2> DEFINE S == WeekOf(period.ts) .. WeekOf(now)
  <2>1. ASSUME NEW w \in S PROVE Gained[w] \in Nat
    <3>1. inflation_rate[w] \in Nat /\ Passed(w) \in Nat /\ SCALE \in Nat
      BY PassedType, ChildGaugeAssumption DEF GaugeInv, StreamTyped
    <3>2. inflation_rate[w] * SCALE * Passed(w) \in Nat
      BY <3>1
    <3>3. working_supply \in Nat \ {0}
      BY <1>3 DEF GaugeInv, StakesTyped
    <3> QED BY <3>2, <3>3, DivDef DEF Gained
  <2>2. IsFiniteSet(S)
    BY FS_Interval, Times DEF GaugeInv
  <2>3. SumFunctionOnSet(Gained, S) \in Nat
    BY <2>1, <2>2, SumNat
  <2>4. IntegralNow = period.integral + SumFunctionOnSet(Gained, S)
    BY <1>3 DEF IntegralNow, SumFunction, Gained
  <2> QED BY <1>1, <2>3, <2>4
<1> QED BY <1>2, <1>3

LEMMA FractionGrows ==
  ASSUME GaugeInv, NEW u \in Users, NEW i \in Nat, period.integral <= i
  PROVE  /\ FractionAt(u, i) \in Nat /\ integrate_fraction[u] <= FractionAt(u, i)
         /\ SCALE * (FractionAt(u, i) - integrate_fraction[u])
              <= working_balances[u] * (i - integrate_inv_supply_of[u])
<1> DEFINE d == i - integrate_inv_supply_of[u]
           m == working_balances[u] * d
           q == m \div SCALE
<1>1. /\ integrate_fraction[u] \in Nat /\ working_balances[u] \in Nat
      /\ integrate_inv_supply_of[u] \in Nat /\ integrate_inv_supply_of[u] <= period.integral
      /\ period.integral \in Nat /\ SCALE \in Nat \ {0}
  BY Times, ChildGaugeAssumption DEF GaugeInv, StreamTyped, StakesTyped
<1>2. d \in Nat
  BY <1>1
<1>3. m \in Nat
  BY <1>1, <1>2
<1> HIDE DEF d, m
<1>4. q \in Nat /\ SCALE * q <= m
  BY <1>1, <1>3, DivDef
<1> HIDE DEF q
<1>5. FractionAt(u, i) = integrate_fraction[u] + q
  BY DEF FractionAt, q, m, d
<1>6. FractionAt(u, i) - integrate_fraction[u] = q
  BY <1>1, <1>4, <1>5
<1> QED BY <1>1, <1>4, <1>5, <1>6 DEF m, d

-----------------------------------------------------------------------------
(* The three sums, over indices the lemmas on sums speak of.               *)
Carried(bag) == SumFunctionOnSet([amount \in DOMAIN bag |-> amount * bag[amount]], DOMAIN bag)

LEMMA WorkingSums ==
  StakesTyped => (WorkingIsSum <=> working_supply = Total(working_balances)
                                     /\ totalSupply = Total(balanceOf))
BY DEF StakesTyped, WorkingIsSum, SumFunction, Total
LEMMA WorkingSumsNext ==
  StakesTyped' => (WorkingIsSum' <=> working_supply' = Total(working_balances')
                                       /\ totalSupply' = Total(balanceOf'))
BY DEF StakesTyped, WorkingIsSum, SumFunction, Total

LEMMA SDLSum ==
  StreamTyped =>
    (SDLIsConserved <=> rootMinted = Carried(inFlight) + gaugeSDL + factorySDL + Total(minted))
BY DEF StreamTyped, SDLIsConserved, SumFunction, Total, Carried, BagToSet
LEMMA SDLSumNext ==
  StreamTyped' =>
    (SDLIsConserved' <=>
       rootMinted' = Carried(inFlight') + gaugeSDL' + factorySDL' + Total(minted'))
BY DEF StreamTyped, SDLIsConserved, SumFunction, Total, Carried, BagToSet

LEMMA TotalType ==
  ASSUME NEW f, \A u \in Users : f[u] \in Nat PROVE Total(f) \in Nat
BY SumNat, ChildGaugeAssumption DEF Total

(* The bridge: an amount more, an amount less.                             *)
LEMMA CarriedType ==
  ASSUME NEW bag, IsFlight(bag) PROVE Carried(bag) \in Nat
<1> DEFINE value == [amount \in DOMAIN bag |-> amount * bag[amount]]
<1>1. \A amount \in DOMAIN bag : value[amount] \in Nat
  BY DEF IsFlight, IsABag
<1> QED BY <1>1, SumNat DEF Carried, IsFlight

LEMMA Sent ==
  ASSUME NEW bag, IsFlight(bag), NEW amount \in Nat
  PROVE  /\ IsFlight(bag (+) SetToBag({amount}))
         /\ Carried(bag (+) SetToBag({amount})) = Carried(bag) + amount
<1> DEFINE more == bag (+) SetToBag({amount})
           S    == DOMAIN bag \union {amount}
           old  == [x \in S |-> x * (IF x \in DOMAIN bag THEN bag[x] ELSE 0)]
           new  == [x \in S |-> x * more[x]]
<1>1. /\ DOMAIN more = S
      /\ \A x \in S : more[x] = (IF x \in DOMAIN bag THEN bag[x] ELSE 0)
                                  + (IF x = amount THEN 1 ELSE 0)
  BY DEF (+), SetToBag
<1>2. /\ DOMAIN bag \subseteq Nat /\ IsFiniteSet(DOMAIN bag)
      /\ \A x \in DOMAIN bag : bag[x] \in Nat /\ bag[x] > 0
  BY DEF IsFlight, IsABag
<1>3. IsFiniteSet(S) /\ S \subseteq Nat
  BY <1>2, FS_AddElement
<1>4. more = [x \in S |-> more[x]]
  BY <1>1 DEF (+)
<1> HIDE DEF more
<1>5. ASSUME NEW x \in S PROVE more[x] \in Nat /\ more[x] > 0
  <2>1. CASE x \in DOMAIN bag
    BY <1>1, <1>2, <2>1
  <2>2. CASE x \notin DOMAIN bag
    BY <1>1, <2>2
  <2> QED BY <2>1, <2>2
<1>6. IsFlight(more)
  BY <1>1, <1>3, <1>4, <1>5 DEF IsFlight, IsABag
<1>7. \A x \in S : old[x] \in Int /\ new[x] \in Int
  BY <1>2, <1>3, <1>5
<1>8. \A x \in S \ {amount} : new[x] = old[x]
  BY <1>1, <1>2
<1>9. new[amount] = old[amount] + amount
  BY <1>1, <1>2
<1>10. Carried(more) = SumFunctionOnSet(new, S)
  BY <1>1 DEF Carried
<1>11. SumFunctionOnSet(new, S) = SumFunctionOnSet(old, S) + new[amount] - old[amount]
  <2> HIDE DEF new, old
  <2> QED BY <1>3, <1>7, <1>8, SumChange
<1>12. SumFunctionOnSet(old, S) = Carried(bag)
  <2> DEFINE value == [x \in DOMAIN bag |-> x * bag[x]]
  <2>1. \A x \in S \ DOMAIN bag : old[x] = 0
    BY <1>3
  <2>2. \A x \in DOMAIN bag : old[x] \in Int /\ old[x] = value[x]
    BY <1>7
  <2> HIDE DEF old
  <2>3. SumFunctionOnSet(old, S) = SumFunctionOnSet(old, DOMAIN bag)
    BY <1>3, <1>7, <2>1, SumOutside
  <2>4. SumFunctionOnSet(old, DOMAIN bag) = SumFunctionOnSet(value, DOMAIN bag)
    BY <1>2, <2>2, SumCongruent
  <2> QED BY <2>3, <2>4 DEF Carried
<1>13. old[amount] \in Int /\ new[amount] \in Int
  BY <1>7
<1> HIDE DEF old, new
<1> QED BY <1>6, <1>9, <1>10, <1>11, <1>12, <1>13, CarriedType DEF more

LEMMA Delivered ==
  ASSUME NEW bag, IsFlight(bag), NEW amount \in BagToSet(bag)
  PROVE  /\ IsFlight(bag (-) SetToBag({amount}))
         /\ Carried(bag (-) SetToBag({amount})) = Carried(bag) - amount
<1> DEFINE less == bag (-) SetToBag({amount})
           S    == DOMAIN bag
           left(x) == bag[x] - (IF x = amount THEN 1 ELSE 0)
           old  == [x \in S |-> x * bag[x]]
           new  == [x \in S |-> x * left(x)]
<1>1. /\ S \subseteq Nat /\ IsFiniteSet(S) /\ amount \in S
      /\ \A x \in S : bag[x] \in Nat /\ bag[x] > 0
  BY DEF IsFlight, IsABag, BagToSet
<1>2. \A x \in S : left(x) \in Nat
  BY <1>1
<1>3. less = [x \in {y \in S : left(y) > 0} |-> left(x)]
  <2> DEFINE B == [e \in S |-> IF e \in {amount} THEN bag[e] - 1 ELSE bag[e]]
  <2>1. \A e \in S : B[e] = left(e)
    BY <1>1
  <2>2. less = [e \in {d \in DOMAIN B : B[d] > 0} |-> B[e]]
    BY DEF (-), SetToBag
  <2> QED BY <2>1, <2>2
<1>4. DOMAIN less = {y \in S : left(y) > 0} /\ \A x \in DOMAIN less : less[x] = left(x)
  BY <1>3
<1>5. IsFlight(less)
  <2>1. IsFiniteSet(DOMAIN less) /\ DOMAIN less \subseteq S
    BY <1>1, <1>4, FS_Subset
  <2>2. less \in [DOMAIN less -> {n \in Nat : n > 0}]
    BY <1>2, <1>3
  <2> QED BY <1>1, <2>1, <2>2 DEF IsFlight, IsABag
<1>6. \A x \in S : old[x] \in Int /\ new[x] \in Int
  BY <1>1, <1>2
<1>7. \A x \in S \ {amount} : new[x] = old[x]
  BY <1>1
<1>8. new[amount] = old[amount] - amount
  BY <1>1
<1>9. Carried(less) = SumFunctionOnSet(new, S)
  <2> DEFINE value == [x \in DOMAIN less |-> x * less[x]]
  <2>1. \A x \in S \ DOMAIN less : new[x] = 0
    BY <1>1, <1>2, <1>4
  <2>2. DOMAIN less \in SUBSET S /\ \A x \in DOMAIN less : new[x] \in Int /\ new[x] = value[x]
    BY <1>4, <1>6
  <2> HIDE DEF new
  <2>3. SumFunctionOnSet(new, S) = SumFunctionOnSet(new, DOMAIN less)
    BY <1>1, <1>6, <2>1, <2>2, SumOutside
  <2>4. SumFunctionOnSet(new, DOMAIN less) = SumFunctionOnSet(value, DOMAIN less)
    BY <1>5, <2>2, SumCongruent DEF IsFlight
  <2> QED BY <2>3, <2>4 DEF Carried
<1>10. SumFunctionOnSet(new, S) = SumFunctionOnSet(old, S) + new[amount] - old[amount]
  <2> HIDE DEF new, old
  <2> QED BY <1>1, <1>6, <1>7, SumChange
<1>11. SumFunctionOnSet(old, S) = Carried(bag)
  BY DEF Carried
<1>12. old[amount] \in Int /\ new[amount] \in Int
  BY <1>1, <1>6
<1> HIDE DEF old, new, less
<1> QED BY <1>1, <1>5, <1>8, <1>9, <1>10, <1>11, <1>12, CarriedType DEF less

-----------------------------------------------------------------------------
(* A checkpoint of some users, after which the factory pays.               *)
LEMMA AddedRateType ==
  ASSUME GaugeInv
  PROVE  /\ AddedRate(gaugeSDL) \in Nat
         /\ AddedRate(gaugeSDL) * (WeekEnd(now) - now) <= gaugeSDL
<1> DEFINE rest == WeekEnd(now) - now
<1>1. rest \in Nat \ {0} /\ gaugeSDL \in Nat
  BY Times, WeekType DEF GaugeInv, StreamTyped
<1> HIDE DEF rest
<1>2. gaugeSDL \div rest \in Nat /\ rest * (gaugeSDL \div rest) <= gaugeSDL
  BY <1>1, DivDef
<1>3. (gaugeSDL \div rest) * rest = rest * (gaugeSDL \div rest)
  BY <1>1, <1>2
<1> QED BY <1>2, <1>3 DEF AddedRate, rest

LEMMA CheckpointMoves ==
  ASSUME GaugeInv, NEW us \in SUBSET Users, NEW paid \in Int, CheckpointAndPay(us, paid),
         paid <= factorySDL + gaugeSDL, UNCHANGED now, minted' \in [Users -> Nat]
  PROVE  /\ ClockTyped' /\ StreamTyped'
         /\ period' = [ts |-> now, integral |-> IntegralNow]
         /\ \A u \in us : /\ integrate_fraction'[u] = FractionAt(u, IntegralNow)
                          /\ integrate_inv_supply_of'[u] = IntegralNow
         /\ \A u \in Users \ us : /\ integrate_fraction'[u] = integrate_fraction[u]
                                  /\ integrate_inv_supply_of'[u] = integrate_inv_supply_of[u]
         /\ inflation_rate'
              = [inflation_rate EXCEPT ![WeekOf(now)] = @ + AddedRate(gaugeSDL)]
         /\ gaugeSDL' = 0 /\ factorySDL' = factorySDL + gaugeSDL - paid
<1> DEFINE i == IntegralNow
<1>1. i \in Nat /\ period.integral <= i /\ period.integral \in Nat
  BY IntegralGrows, Times DEF GaugeInv
<1>2. /\ period' = [ts |-> now, integral |-> i]
      /\ integrate_fraction' =
           [u \in Users |-> IF u \in us THEN FractionAt(u, i) ELSE integrate_fraction[u]]
      /\ integrate_inv_supply_of' =
           [u \in Users |-> IF u \in us THEN i ELSE integrate_inv_supply_of[u]]
      /\ inflation_rate' = [inflation_rate EXCEPT ![WeekOf(now)] = @ + AddedRate(gaugeSDL)]
      /\ gaugeSDL' = 0 /\ factorySDL' = factorySDL + gaugeSDL - paid
  BY DEF CheckpointAndPay
<1> HIDE DEF i
<1>3. /\ integrate_fraction \in [Users -> Nat] /\ integrate_inv_supply_of \in [Users -> Nat]
      /\ \A u \in Users : integrate_inv_supply_of[u] <= period.integral
      /\ inflation_rate \in [Weeks -> Nat] /\ gaugeSDL \in Nat /\ factorySDL \in Nat
  BY DEF GaugeInv, StreamTyped
<1>4. \A u \in Users : FractionAt(u, i) \in Nat
  BY <1>1, FractionGrows
<1>5. integrate_fraction' \in [Users -> Nat]
  BY <1>2, <1>3, <1>4
<1>6. /\ integrate_inv_supply_of' \in [Users -> Nat]
      /\ \A u \in Users : integrate_inv_supply_of'[u] <= period'.integral
  BY <1>1, <1>2, <1>3
<1>7. inflation_rate' \in [Weeks -> Nat]
  <2>1. WeekOf(now) \in Weeks /\ AddedRate(gaugeSDL) \in Nat
    BY Times, AddedRateType DEF GaugeInv
  <2>2. inflation_rate[WeekOf(now)] + AddedRate(gaugeSDL) \in Nat
    BY <1>3, <2>1
  <2> QED BY <1>2, <1>3, <2>2
<1>8. factorySDL' \in Nat
  BY <1>2, <1>3
<1>9. StreamTyped'
  BY <1>2, <1>5, <1>6, <1>7, <1>8 DEF StreamTyped
<1>10. ClockTyped'
  BY <1>1, <1>2, Times, ChildGaugeAssumption DEF GaugeInv, ClockTyped
<1> QED BY <1>2, <1>3, <1>9, <1>10 DEF i

(* SDL only moves from the gauge to the factory and to those who mint.     *)
LEMMA CheckpointConserves ==
  ASSUME GaugeInv, StreamTyped', NEW paid \in Int, UNCHANGED <<rootMinted, inFlight>>,
         gaugeSDL' = 0, factorySDL' = factorySDL + gaugeSDL - paid,
         Total(minted') = Total(minted) + paid
  PROVE  SDLIsConserved'
<1>1. rootMinted = Carried(inFlight) + gaugeSDL + factorySDL + Total(minted)
  BY SDLSum DEF GaugeInv
<1>2. Carried(inFlight) \in Nat /\ gaugeSDL \in Nat /\ factorySDL \in Nat /\ Total(minted) \in Nat
  BY CarriedType, TotalType DEF GaugeInv, StreamTyped
<1>3. rootMinted' = Carried(inFlight') + gaugeSDL' + factorySDL' + Total(minted')
  BY <1>1, <1>2
<1> QED BY <1>3, SDLSumNext

(* What counts of a stake.                                                 *)
LEMMA WorkingBalanceType ==
  ASSUME GaugeInv, NEW u \in Users, NEW stake \in Nat, NEW supply \in Nat
  PROVE  WorkingBalance(u, stake, supply) \in Nat /\ WorkingBalance(u, stake, supply) <= stake
<1> DEFINE base  == (stake * TOKENLESS_PRODUCTION) \div 100
           boost == (((supply * ve.balance[u]) \div ve.total) * (100 - TOKENLESS_PRODUCTION)) \div 100
<1>1. base \in 0 .. stake
  BY PartOf DEF TOKENLESS_PRODUCTION
<1>2. ve.total # 0 => boost \in Nat
  <2>1. ve.balance[u] \in Nat /\ ve.total \in Nat
    <3>1. ve.balance \in [Users -> VeBalances \union {0}] /\ ve.total \in VeTotals \union {0}
      BY DEF GaugeInv, VeTyped
    <3>2. VeBalances \subseteq Nat /\ VeTotals \subseteq Nat
      BY ChildGaugeAssumption
    <3>3. ve.balance[u] \in VeBalances \union {0}
      BY <3>1
    <3>4. \A x \in VeBalances \union {0} : x \in Nat
      BY <3>2
    <3>5. \A x \in VeTotals \union {0} : x \in Nat
      BY <3>2
    <3> QED BY <3>1, <3>3, <3>4, <3>5
  <2>2. supply * ve.balance[u] \in Nat
    BY <2>1
  <2>3. SUFFICES ASSUME ve.total # 0 PROVE boost \in Nat
    OBVIOUS
  <2>4. (supply * ve.balance[u]) \div ve.total \in Nat
    BY <2>1, <2>2, <2>3, DivDef
  <2>5. ((supply * ve.balance[u]) \div ve.total) * (100 - TOKENLESS_PRODUCTION) \in Nat
    BY <2>4 DEF TOKENLESS_PRODUCTION
  <2> QED BY <2>5, DivDef
<1>3. WorkingBalance(u, stake, supply)
        = IF ve.total = 0 THEN base ELSE Min({stake, base + boost})
  BY DEF WorkingBalance
<1> HIDE DEF base, boost
<1>4. CASE ve.total = 0
  BY <1>1, <1>3, <1>4
<1>5. CASE ve.total # 0
  <2>1. stake \in Int /\ base + boost \in Int
    BY <1>1, <1>2, <1>5
  <2>2. Min({stake, base + boost}) = IF stake <= base + boost THEN stake ELSE base + boost
    BY <2>1, MinOfTwo
  <2> QED BY <1>1, <1>2, <1>3, <1>5, <2>2
<1> QED BY <1>4, <1>5

LEMMA StakesMove ==
  ASSUME GaugeInv, NEW us \in SUBSET Users, NEW stakes \in [Users -> Nat],
         NEW supply \in 0 .. MaxStake, SetStakes(us, stakes, supply),
         \A u \in Users \ us : stakes[u] = balanceOf[u], supply = Total(stakes)
  PROVE  /\ StakesTyped' /\ WorkingIsSum'
         /\ \A u \in Users \ us : working_balances'[u] = working_balances[u]
<1> DEFINE working == [u \in Users |-> IF u \in us THEN WorkingBalance(u, stakes[u], supply)
                                                   ELSE working_balances[u]]
           change  == [u \in us |-> working[u] - working_balances[u]]
<1>1. /\ working_balances \in [Users -> Nat] /\ \A u \in Users : working_balances[u] <= balanceOf[u]
      /\ balanceOf \in [Users -> Nat] /\ supply \in Nat /\ working_supply \in Nat
      /\ working_supply = Total(working_balances)
  BY WorkingSums, ChildGaugeAssumption DEF GaugeInv, StakesTyped
<1>2. ASSUME NEW u \in Users PROVE working[u] \in Nat /\ working[u] <= stakes[u]
  <2>1. CASE u \in us
    BY <1>1, <2>1, WorkingBalanceType
  <2>2. CASE u \notin us
    BY <1>1, <2>2
  <2> QED BY <2>1, <2>2
<1>3. working \in [Users -> Nat]
  BY <1>2
<1>4. /\ balanceOf' = stakes /\ totalSupply' = supply /\ working_balances' = working
      /\ working_supply' = working_supply + SumFunctionOnSet(change, us)
  BY DEF SetStakes, SumFunction
<1>5. \A u \in Users \ us : working[u] = working_balances[u]
  OBVIOUS
<1>6. \A u \in us : change[u] = working[u] - working_balances[u]
  OBVIOUS
<1>7. Total(working) = Total(working_balances) + SumFunctionOnSet(change, us)
  <2>1. \A u \in Users : working_balances[u] \in Int /\ working[u] \in Int
    BY <1>1, <1>2
  <2>2. IsFiniteSet(Users)
    BY ChildGaugeAssumption
  <2> HIDE DEF working, change
  <2>3. SumFunctionOnSet(working, Users)
          = SumFunctionOnSet(working_balances, Users) + SumFunctionOnSet(change, us)
    BY <1>5, <1>6, <2>1, <2>2, SumDifference
  <2> QED BY <2>3 DEF Total
<1>8. Total(working) \in Nat
  BY <1>2, TotalType
<1> HIDE DEF working, change
<1>9. StakesTyped'
  BY <1>1, <1>2, <1>3, <1>4, <1>7, <1>8 DEF StakesTyped
<1>10. WorkingIsSum'
  BY <1>1, <1>4, <1>7, <1>9, WorkingSumsNext
<1> QED BY <1>4, <1>5, <1>9, <1>10

-----------------------------------------------------------------------------
(* The operations of the child chain.                                      *)
LEMMA CheckpointInv ==
  ASSUME GaugeInv, NEW us \in SUBSET Users, CheckpointOf(us), ChildStep, UNCHANGED minted
  PROVE  ClockTyped' /\ StreamTyped' /\ SDLIsConserved'
<1>1. CheckpointAndPay(us, 0) /\ 0 \in Int /\ UNCHANGED <<now, rootMinted, inFlight>>
  BY DEF CheckpointOf, ChildStep, rootVars
<1>2. minted \in [Users -> Nat] /\ 0 <= factorySDL + gaugeSDL
      /\ gaugeSDL \in Nat /\ factorySDL \in Nat
  BY DEF GaugeInv, StreamTyped
<1>3. /\ ClockTyped' /\ StreamTyped'
      /\ gaugeSDL' = 0 /\ factorySDL' = factorySDL + gaugeSDL - 0
  BY <1>1, <1>2, CheckpointMoves
<1>4. Total(minted') = Total(minted) + 0
  BY <1>2, TotalType
<1> QED BY <1>1, <1>3, <1>4, CheckpointConserves

LEMMA StakesStay ==
  ASSUME GaugeInv, UNCHANGED stakeVars PROVE StakesTyped' /\ WorkingIsSum'
BY DEF GaugeInv, StakesTyped, WorkingIsSum, stakeVars

(* Stakes move the total with them.                                        *)
LEMMA StakeChanges ==
  ASSUME GaugeInv, NEW u \in Users, NEW d \in Int, balanceOf[u] + d \in Nat
  PROVE  /\ [balanceOf EXCEPT ![u] = @ + d] \in [Users -> Nat]
         /\ \A v \in Users \ {u} : [balanceOf EXCEPT ![u] = @ + d][v] = balanceOf[v]
         /\ Total([balanceOf EXCEPT ![u] = @ + d]) = totalSupply + d
         /\ totalSupply + d \in Nat
<1> DEFINE stakes == [balanceOf EXCEPT ![u] = @ + d]
<1>1. balanceOf \in [Users -> Nat] /\ totalSupply = Total(balanceOf) /\ totalSupply \in Nat
      /\ IsFiniteSet(Users)
  BY WorkingSums, ChildGaugeAssumption DEF GaugeInv, StakesTyped
<1>2. /\ stakes \in [Users -> Nat] /\ stakes[u] = balanceOf[u] + d
      /\ \A v \in Users \ {u} : stakes[v] = balanceOf[v]
  BY <1>1
<1> HIDE DEF stakes
<1>3. \A v \in Users : balanceOf[v] \in Int /\ stakes[v] \in Int
  BY <1>1, <1>2
<1>4. SumFunctionOnSet(stakes, Users)
        = SumFunctionOnSet(balanceOf, Users) + stakes[u] - balanceOf[u]
  BY <1>1, <1>2, <1>3, SumChange
<1>5. Total(stakes) = totalSupply + d
  BY <1>1, <1>2, <1>4 DEF Total
<1>6. Total(stakes) \in Nat
  BY <1>2, TotalType
<1> QED BY <1>2, <1>5, <1>6 DEF stakes

LEMMA StakeIsPart ==
  ASSUME GaugeInv, NEW u \in Users PROVE balanceOf[u] \in Nat /\ balanceOf[u] <= totalSupply
<1>1. balanceOf \in [Users -> Nat] /\ totalSupply = Total(balanceOf)
  BY WorkingSums DEF GaugeInv, StakesTyped
<1> QED BY <1>1, SumPart, ChildGaugeAssumption DEF Total

LEMMA DepositStakes ==
  ASSUME GaugeInv, NEW u \in Users, NEW value \in Amounts \union {0}, Deposit(u, value)
  PROVE  /\ StakesTyped' /\ WorkingIsSum'
         /\ \A v \in Users \ {u} : working_balances'[v] = working_balances[v]
<1>1. CASE value = 0
  BY <1>1, StakesStay DEF Deposit, stakeVars
<1>2. CASE value # 0
  <2> DEFINE stakes == [balanceOf EXCEPT ![u] = @ + value]
  <2>1. value \in Nat /\ value \in Int /\ balanceOf[u] + value \in Nat
    BY ChildGaugeAssumption, StakeIsPart
  <2>2. totalSupply + value <= MaxStake /\ SetStakes({u}, stakes, totalSupply + value)
    BY <1>2 DEF Deposit
  <2>3. /\ stakes \in [Users -> Nat] /\ \A v \in Users \ {u} : stakes[v] = balanceOf[v]
        /\ Total(stakes) = totalSupply + value /\ totalSupply + value \in Nat
    BY <2>1, StakeChanges
  <2> HIDE DEF stakes
  <2>4. totalSupply + value \in 0 .. MaxStake /\ {u} \in SUBSET Users
    BY <2>2, <2>3, ChildGaugeAssumption
  <2> QED BY <2>2, <2>3, <2>4, StakesMove
<1> QED BY <1>1, <1>2

LEMMA WithdrawStakes ==
  ASSUME GaugeInv, NEW u \in Users, NEW value \in Amounts \union {0}, NEW to \in Users,
         Withdraw(u, to, value)
  PROVE  /\ StakesTyped' /\ WorkingIsSum'
         /\ \A v \in Users \ {u} : working_balances'[v] = working_balances[v]
<1>1. CASE value = 0
  BY <1>1, StakesStay DEF Withdraw, stakeVars
<1>2. CASE value # 0
  <2> DEFINE stakes == [balanceOf EXCEPT ![u] = @ + (-value)]
  <2>1. value \in Nat /\ -value \in Int /\ balanceOf[u] + (-value) \in Nat
    BY ChildGaugeAssumption, StakeIsPart DEF Withdraw
  <2>2. SetStakes({u}, stakes, totalSupply + (-value))
    <3>1. balanceOf[u] \in Nat /\ totalSupply \in Nat /\ value \in Nat
      BY <2>1, StakeIsPart, ChildGaugeAssumption DEF GaugeInv, StakesTyped
    <3>2. balanceOf[u] - value = balanceOf[u] + (-value) /\ totalSupply - value = totalSupply + (-value)
      BY <3>1
    <3>3. [balanceOf EXCEPT ![u] = @ - value] = stakes
      BY <3>2
    <3> HIDE DEF stakes
    <3> QED BY <1>2, <3>2, <3>3 DEF Withdraw
  <2>3. /\ stakes \in [Users -> Nat] /\ \A v \in Users \ {u} : stakes[v] = balanceOf[v]
        /\ Total(stakes) = totalSupply + (-value) /\ totalSupply + (-value) \in Nat
    BY <2>1, StakeChanges
  <2> HIDE DEF stakes
  <2>4. totalSupply + (-value) \in 0 .. MaxStake /\ {u} \in SUBSET Users
    BY <2>1, <2>3, ChildGaugeAssumption DEF GaugeInv, StakesTyped
  <2> QED BY <2>2, <2>3, <2>4, StakesMove
<1> QED BY <1>1, <1>2

LEMMA SameStakes ==
  ASSUME GaugeInv, NEW u \in Users, SetStakes({u}, balanceOf, totalSupply)
  PROVE  /\ StakesTyped' /\ WorkingIsSum'
         /\ \A v \in Users \ {u} : working_balances'[v] = working_balances[v]
<1>1. /\ balanceOf \in [Users -> Nat] /\ totalSupply \in 0 .. MaxStake
      /\ totalSupply = Total(balanceOf) /\ {u} \in SUBSET Users
  BY WorkingSums DEF GaugeInv, StakesTyped
<1> QED BY <1>1, StakesMove

LEMMA TransferStakes ==
  ASSUME GaugeInv, NEW from \in Users, NEW to \in Users, NEW value \in Amounts \union {0},
         Transfer(from, to, value)
  PROVE  /\ StakesTyped' /\ WorkingIsSum'
         /\ \A v \in Users \ {from, to} : working_balances'[v] = working_balances[v]
<1> DEFINE paid   == [balanceOf EXCEPT ![from] = @ - value]
           stakes == [paid EXCEPT ![to] = @ + value]
<1>1. /\ value \in Nat /\ value <= balanceOf[from] /\ SetStakes({from, to}, stakes, totalSupply)
  <2>1. value \in Nat /\ value <= balanceOf[from]
    BY ChildGaugeAssumption DEF Transfer
  <2>2. \E p \in {paid} : SetStakes({from, to}, [p EXCEPT ![to] = @ + value], totalSupply)
    BY DEF Transfer
  <2> HIDE DEF paid
  <2>3. SetStakes({from, to}, stakes, totalSupply)
    BY <2>2
  <2> QED BY <2>1, <2>3
<1>2. /\ balanceOf \in [Users -> Nat] /\ totalSupply = Total(balanceOf) /\ totalSupply \in 0 .. MaxStake
      /\ IsFiniteSet(Users)
  BY WorkingSums, ChildGaugeAssumption DEF GaugeInv, StakesTyped
<1>3. /\ paid \in [Users -> Nat] /\ paid[from] = balanceOf[from] - value
      /\ \A v \in Users \ {from} : paid[v] = balanceOf[v]
  BY <1>1, <1>2
<1> HIDE DEF paid
<1>4. /\ stakes \in [Users -> Nat] /\ stakes[to] = paid[to] + value
      /\ \A v \in Users \ {to} : stakes[v] = paid[v]
  BY <1>1, <1>3
<1> HIDE DEF stakes
<1>5. SumFunctionOnSet(paid, Users)
        = SumFunctionOnSet(balanceOf, Users) + paid[from] - balanceOf[from]
  <2>1. \A v \in Users : balanceOf[v] \in Int /\ paid[v] \in Int
    BY <1>2, <1>3
  <2> QED BY <1>2, <1>3, <2>1, SumChange
<1>6. SumFunctionOnSet(stakes, Users) = SumFunctionOnSet(paid, Users) + stakes[to] - paid[to]
  <2>1. \A v \in Users : stakes[v] \in Int /\ paid[v] \in Int
    BY <1>3, <1>4
  <2> QED BY <1>2, <1>4, <2>1, SumChange
<1>7. /\ paid[from] \in Nat /\ balanceOf[from] \in Nat /\ stakes[to] \in Nat /\ paid[to] \in Nat
      /\ SumFunctionOnSet(balanceOf, Users) \in Nat
  BY <1>2, <1>3, <1>4, TotalType DEF Total
<1>8. Total(stakes) = totalSupply
  BY <1>1, <1>2, <1>3, <1>4, <1>5, <1>6, <1>7 DEF Total
<1>9. {from, to} \in SUBSET Users /\ \A v \in Users \ {from, to} : stakes[v] = balanceOf[v]
  BY <1>3, <1>4
<1> QED BY <1>1, <1>2, <1>4, <1>8, <1>9, StakesMove

(* A mint checkpoints the user and pays what it has earned and not got.    *)
LEMMA MintPays ==
  ASSUME GaugeInv, NEW u \in Users, Mint(u)
  PROVE  \E paid \in Int :
           /\ CheckpointAndPay({u}, paid) /\ paid <= factorySDL + gaugeSDL
           /\ UNCHANGED <<now, rootMinted, inFlight>>
           /\ minted' \in [Users -> Nat] /\ Total(minted') = Total(minted) + paid
           /\ \A v \in Users \ {u} : minted'[v] = minted[v]
<1> DEFINE total == FractionAt(u, IntegralNow)
           paid  == total - minted[u]
<1>1. total \in Nat /\ minted \in [Users -> Nat]
  BY IntegralGrows, FractionGrows DEF GaugeInv, StreamTyped
<1>2. /\ paid <= factorySDL + gaugeSDL /\ CheckpointAndPay({u}, paid)
      /\ minted' = [minted EXCEPT ![u] = total]
      /\ UNCHANGED <<now, rootMinted, inFlight>>
  <2>1. factorySDL + gaugeSDL >= paid /\ gaugeSDL \in Nat /\ factorySDL \in Nat
    BY DEF Mint, GaugeInv, StreamTyped
  <2>2. paid \in Int
    BY <1>1
  <2>3. paid <= factorySDL + gaugeSDL
    BY <2>1, <2>2
  <2> QED BY <2>3 DEF Mint, Pays, ChildStep, rootVars
<1> HIDE DEF total
<1>3. paid \in Int /\ minted' \in [Users -> Nat]
      /\ minted'[u] = minted[u] + paid /\ \A v \in Users \ {u} : minted'[v] = minted[v]
  BY <1>1, <1>2
<1> HIDE DEF paid
<1>4. Total(minted') = Total(minted) + paid
  <2>1. \A v \in Users : minted[v] \in Int /\ minted'[v] \in Int
    BY <1>1, <1>3
  <2>2. SumFunctionOnSet(minted', Users)
          = SumFunctionOnSet(minted, Users) + minted'[u] - minted[u]
    BY <1>3, <2>1, SumChange, ChildGaugeAssumption
  <2>3. SumFunctionOnSet(minted, Users) \in Nat /\ minted[u] \in Nat
    BY <1>1, TotalType DEF Total
  <2> QED BY <1>3, <2>2, <2>3 DEF Total
<1> QED BY <1>2, <1>3, <1>4

LEMMA MintSDL ==
  ASSUME GaugeInv, NEW u \in Users, Mint(u)
  PROVE  ClockTyped' /\ StreamTyped' /\ SDLIsConserved'
<1>1. PICK paid \in Int :
        /\ CheckpointAndPay({u}, paid) /\ paid <= factorySDL + gaugeSDL
        /\ UNCHANGED <<now, rootMinted, inFlight>>
        /\ minted' \in [Users -> Nat] /\ Total(minted') = Total(minted) + paid
  BY MintPays
<1>2. {u} \in SUBSET Users
  OBVIOUS
<1>3. /\ ClockTyped' /\ StreamTyped'
      /\ gaugeSDL' = 0 /\ factorySDL' = factorySDL + gaugeSDL - paid
  BY <1>1, <1>2, CheckpointMoves
<1> QED BY <1>1, <1>3, CheckpointConserves

-----------------------------------------------------------------------------
(* The root chain, the bridge, the oracle and time.                        *)
LEMMA GaugeInvInit == Init => GaugeInv
<1> SUFFICES ASSUME Init PROVE GaugeInv
  OBVIOUS
<1>1. /\ Genesis \in Nat /\ MaxTime \in Nat /\ Genesis <= MaxTime /\ MaxStake \in Nat
      /\ IsFiniteSet(Users)
  BY ChildGaugeAssumption
<1>2. ClockTyped /\ VeTyped
  BY <1>1 DEF Init, ClockTyped, VeTyped
<1>3. WeekOf(Genesis) \in Nat
  BY <1>1, WeekType
<1>4. RootTyped
  BY <1>1, <1>3 DEF Init, RootTyped
<1>5. IsFlight(inFlight) /\ DOMAIN inFlight = {}
  BY FS_EmptySet DEF Init, EmptyBag, SetToBag, IsFlight, IsABag
<1>6. StreamTyped
  BY DEF Init, StreamTyped, Weeks
<1>7. StakesTyped
  BY <1>1 DEF Init, StakesTyped
<1>8. WorkingIsSum
  <2>1. \A u \in Users : working_balances[u] = 0 /\ balanceOf[u] = 0
    BY DEF Init
  <2>2. Total(working_balances) = 0 /\ Total(balanceOf) = 0
    BY <1>1, <2>1, SumZero DEF Total
  <2> QED BY <1>7, <2>2, WorkingSums DEF Init
<1>9. SDLIsConserved
  <2>1. Carried(inFlight) = 0
    BY <1>5, SumEmpty DEF Carried
  <2>2. \A u \in Users : minted[u] = 0
    BY DEF Init
  <2>3. Total(minted) = 0
    BY <1>1, <2>2, SumZero DEF Total
  <2> QED BY <1>6, <2>1, <2>3, SDLSum DEF Init
<1> QED BY <1>2, <1>4, <1>5, <1>6, <1>7, <1>8, <1>9 DEF GaugeInv

LEMMA CountsType ==
  ASSUME GaugeInv, NEW emission \in Emissions \union {0}, Counts(emission)
  PROVE  /\ lastPeriod' \in 0 .. WeekOf(now) /\ totalEmissions' = totalEmissions + emission
         /\ totalEmissions \in Nat /\ totalEmissions' \in Nat /\ totalEmissions <= totalEmissions'
<1>1. emission \in Nat /\ totalEmissions \in Nat
  BY ChildGaugeAssumption DEF GaugeInv, RootTyped
<1>2. WeekOf(now) \in Nat
  BY Times DEF GaugeInv
<1> QED BY <1>1, <1>2 DEF Counts

LEMMA TransmitsInv ==
  ASSUME GaugeInv, Transmits, UNCHANGED <<now, lastRequest, streamVars, minted, stakeVars, ve>>,
         requests' \in Nat
  PROVE  GaugeInv'
<1>1. PICK emission \in Emissions \union {0} :
        /\ Counts(emission) /\ totalEmissions + emission > rootMinted
        /\ rootMinted' = totalEmissions + emission
        /\ inFlight' = inFlight (+) SetToBag({totalEmissions + emission - rootMinted})
  BY DEF Transmits
<1> DEFINE amount == totalEmissions + emission - rootMinted
<1>2. /\ lastPeriod' \in 0 .. WeekOf(now) /\ totalEmissions' = totalEmissions + emission
      /\ totalEmissions' \in Nat
  BY <1>1, CountsType
<1>3. rootMinted \in Nat /\ amount \in Nat /\ rootMinted' = rootMinted + amount
  <2>1. emission \in Nat /\ totalEmissions \in Nat /\ rootMinted \in Nat
        /\ rootMinted <= totalEmissions
    BY ChildGaugeAssumption DEF GaugeInv, RootTyped
  <2> QED BY <1>1, <2>1
<1>4. inFlight' = inFlight (+) SetToBag({amount})
  BY <1>1
<1> HIDE DEF amount
<1>5. IsFlight(inFlight') /\ Carried(inFlight') = Carried(inFlight) + amount
  BY <1>3, <1>4, Sent DEF GaugeInv
<1>6. UNCHANGED <<now, lastRequest, gaugeSDL, factorySDL, period, inflation_rate,
                  integrate_fraction, integrate_inv_supply_of, minted, balanceOf, totalSupply,
                  working_balances, working_supply, ve>>
  BY DEF streamVars, stakeVars
<1>7. ClockTyped' /\ StreamTyped' /\ StakesTyped' /\ VeTyped' /\ WorkingIsSum'
  BY <1>6 DEF GaugeInv, ClockTyped, StreamTyped, StakesTyped, VeTyped, WorkingIsSum
<1>8. RootTyped'
  BY <1>1, <1>2, <1>3, <1>6 DEF GaugeInv, RootTyped
<1>9. SDLIsConserved'
  <2>1. rootMinted = Carried(inFlight) + gaugeSDL + factorySDL + Total(minted)
    BY SDLSum DEF GaugeInv
  <2>2. Carried(inFlight) \in Nat /\ gaugeSDL \in Nat /\ factorySDL \in Nat /\ Total(minted) \in Nat
    BY CarriedType, TotalType DEF GaugeInv, StreamTyped
  <2>3. rootMinted' = Carried(inFlight') + gaugeSDL' + factorySDL' + Total(minted')
    BY <1>3, <1>5, <1>6, <2>1, <2>2
  <2> QED BY <1>7, <2>3, SDLSumNext
<1> QED BY <1>5, <1>7, <1>8, <1>9 DEF GaugeInv

LEMMA SumsKept ==
  ASSUME GaugeInv, UNCHANGED <<rootMinted, inFlight, streamVars, minted, stakeVars>>
  PROVE  WorkingIsSum' /\ SDLIsConserved'
BY DEF GaugeInv, WorkingIsSum, SDLIsConserved, streamVars, stakeVars, BagToSet

LEMMA RootInv ==
  ASSUME GaugeInv, RootCheckpoint \/ TransmitEmissions \/ AnswerRequest PROVE GaugeInv'
<1>1. CASE RootCheckpoint
  <2>1. PICK emission \in Emissions : Counts(emission)
    BY <1>1 DEF RootCheckpoint
  <2>2. /\ lastPeriod' \in 0 .. WeekOf(now) /\ totalEmissions' \in Nat
        /\ totalEmissions \in Nat /\ totalEmissions <= totalEmissions'
    BY <2>1, CountsType
  <2>3. WorkingIsSum' /\ SDLIsConserved'
    BY <1>1, SumsKept DEF RootCheckpoint
  <2> QED
    BY <1>1, <2>2, <2>3
    DEF RootCheckpoint, callVars, streamVars, stakeVars, GaugeInv, ClockTyped, RootTyped,
        StreamTyped, StakesTyped, VeTyped
<1>2. CASE TransmitEmissions
  BY <1>2, TransmitsInv DEF TransmitEmissions, callVars, GaugeInv, RootTyped
<1>3. CASE AnswerRequest
  <2>1. requests' \in Nat
    BY <1>3 DEF AnswerRequest, GaugeInv, RootTyped
  <2>2. CASE Transmits
    BY <1>3, <2>1, <2>2, TransmitsInv DEF AnswerRequest
  <2>3. CASE UNCHANGED <<rootVars, inFlight>>
    <3>1. WorkingIsSum' /\ SDLIsConserved'
      BY <1>3, <2>3, SumsKept DEF AnswerRequest, rootVars
    <3> QED
      BY <1>3, <2>1, <2>3, <3>1
      DEF AnswerRequest, rootVars, streamVars, stakeVars, GaugeInv, ClockTyped, RootTyped,
          StreamTyped, StakesTyped, VeTyped
  <2> QED BY <1>3, <2>2, <2>3 DEF AnswerRequest
<1> QED BY <1>1, <1>2, <1>3

LEMMA DeliverInv == ASSUME GaugeInv, Deliver PROVE GaugeInv'
<1>1. PICK amount \in BagToSet(inFlight) :
        inFlight' = inFlight (-) SetToBag({amount}) /\ gaugeSDL' = gaugeSDL + amount
  BY DEF Deliver
<1>2. amount \in Nat
  BY DEF GaugeInv, IsFlight, BagToSet
<1>3. IsFlight(inFlight') /\ Carried(inFlight') = Carried(inFlight) - amount
  BY <1>1, Delivered DEF GaugeInv
<1>4. UNCHANGED <<now, lastPeriod, totalEmissions, rootMinted, requests, lastRequest, factorySDL,
                  period, inflation_rate, integrate_fraction, integrate_inv_supply_of, minted,
                  balanceOf, totalSupply, working_balances, working_supply, ve>>
  BY DEF Deliver, rootVars, callVars, stakeVars
<1>5. ClockTyped' /\ RootTyped' /\ StakesTyped' /\ VeTyped' /\ WorkingIsSum'
  BY <1>4 DEF GaugeInv, ClockTyped, RootTyped, StakesTyped, VeTyped, WorkingIsSum
<1>6. StreamTyped'
  BY <1>1, <1>2, <1>4 DEF GaugeInv, StreamTyped
<1>7. SDLIsConserved'
  <2>1. rootMinted = Carried(inFlight) + gaugeSDL + factorySDL + Total(minted)
    BY SDLSum DEF GaugeInv
  <2>2. Carried(inFlight) \in Nat /\ gaugeSDL \in Nat /\ factorySDL \in Nat /\ Total(minted) \in Nat
    BY CarriedType, TotalType DEF GaugeInv, StreamTyped
  <2>3. rootMinted' = Carried(inFlight') + gaugeSDL' + factorySDL' + Total(minted')
    BY <1>1, <1>2, <1>3, <1>4, <2>1, <2>2
  <2> QED BY <1>6, <2>3, SDLSumNext
<1> QED BY <1>3, <1>5, <1>6, <1>7 DEF GaugeInv

LEMMA ChildInv ==
  ASSUME GaugeInv, ChildStep, requests' \in Nat, lastRequest' \in 0 .. now,
         ClockTyped', StreamTyped', SDLIsConserved', StakesTyped', WorkingIsSum'
  PROVE  GaugeInv'
BY DEF ChildStep, rootVars, GaugeInv, RootTyped, VeTyped

LEMMA GaugeInvNext == GaugeInv /\ [Next]_cgVars => GaugeInv'
<1> SUFFICES ASSUME GaugeInv, [Next]_cgVars PROVE GaugeInv'
  OBVIOUS
<1>0. requests \in Nat /\ lastRequest \in 0 .. now /\ now \in Nat
  BY Times DEF GaugeInv, RootTyped
<1>1. ASSUME NEW u \in Users, NEW value \in Amounts \union {0}, Deposit(u, value)
      PROVE  GaugeInv'
  <2>1. {u} \in SUBSET Users /\ CheckpointOf({u}) /\ ChildStep /\ UNCHANGED <<callVars, minted>>
    BY <1>1 DEF Deposit
  <2>2. ClockTyped' /\ StreamTyped' /\ SDLIsConserved'
    BY <2>1, CheckpointInv
  <2>3. StakesTyped' /\ WorkingIsSum'
    BY <1>1, DepositStakes
  <2> QED BY <1>0, <2>1, <2>2, <2>3, ChildInv DEF callVars
<1>2. ASSUME NEW u \in Users, NEW value \in Amounts \union {0}, NEW to \in Receivers[u],
             Withdraw(u, to, value)
      PROVE  GaugeInv'
  <2>1. to \in Users
    BY ChildGaugeAssumption
  <2>2. {to} \in SUBSET Users /\ CheckpointOf({to}) /\ ChildStep /\ UNCHANGED <<callVars, minted>>
    BY <1>2, <2>1 DEF Withdraw
  <2>3. ClockTyped' /\ StreamTyped' /\ SDLIsConserved'
    BY <2>2, CheckpointInv
  <2>4. StakesTyped' /\ WorkingIsSum'
    BY <1>2, <2>1, WithdrawStakes
  <2> QED BY <1>0, <2>2, <2>3, <2>4, ChildInv DEF callVars
<1>3. ASSUME NEW u \in Users, NEW value \in Amounts \union {0}, NEW to \in Users,
             Transfer(u, to, value)
      PROVE  GaugeInv'
  <2>1. {u, to} \in SUBSET Users /\ CheckpointOf({u, to}) /\ ChildStep
        /\ UNCHANGED <<callVars, minted>>
    BY <1>3 DEF Transfer
  <2>2. ClockTyped' /\ StreamTyped' /\ SDLIsConserved'
    BY <2>1, CheckpointInv
  <2>3. StakesTyped' /\ WorkingIsSum'
    BY <1>3, TransferStakes
  <2> QED BY <1>0, <2>1, <2>2, <2>3, ChildInv DEF callVars
<1>4. ASSUME NEW u \in Users, UserCheckpoint(u) PROVE GaugeInv'
  <2>1. {u} \in SUBSET Users /\ CheckpointOf({u}) /\ ChildStep /\ UNCHANGED <<callVars, minted>>
    BY <1>4 DEF UserCheckpoint
  <2>2. ClockTyped' /\ StreamTyped' /\ SDLIsConserved'
    BY <2>1, CheckpointInv
  <2>3. StakesTyped' /\ WorkingIsSum'
    BY <1>4, SameStakes DEF UserCheckpoint
  <2> QED BY <1>0, <2>1, <2>2, <2>3, ChildInv DEF callVars
<1>5. ASSUME NEW u \in Users, Mint(u) PROVE GaugeInv'
  <2>1. requests' \in Nat /\ lastRequest' \in 0 .. now /\ ChildStep
    BY <1>0, <1>5 DEF Mint, callVars
  <2>2. ClockTyped' /\ StreamTyped' /\ SDLIsConserved'
    BY <1>5, MintSDL
  <2>3. StakesTyped' /\ WorkingIsSum'
    BY <1>5, SameStakes DEF Mint
  <2> QED BY <2>1, <2>2, <2>3, ChildInv
<1>6. CASE VeChanges
  <2>1. WorkingIsSum' /\ SDLIsConserved'
    BY <1>6, SumsKept DEF VeChanges, rootVars
  <2>2. VeTyped'
    <3>1. PICK u \in Users, b \in VeBalances, t \in VeTotals :
            ve' = [balance |-> [ve.balance EXCEPT ![u] = b], total |-> t]
      BY <1>6 DEF VeChanges
    <3>2. ve.balance \in [Users -> VeBalances \union {0}]
      BY DEF GaugeInv, VeTyped
    <3>3. [ve.balance EXCEPT ![u] = b] \in [Users -> VeBalances \union {0}]
      BY <3>2
    <3> QED BY <3>1, <3>3 DEF VeTyped
  <2> QED
    BY <1>6, <2>1, <2>2
    DEF VeChanges, rootVars, callVars, streamVars, stakeVars, GaugeInv, ClockTyped, RootTyped,
        StreamTyped, StakesTyped
<1>7. CASE Tick
  <2>1. WorkingIsSum' /\ SDLIsConserved'
    BY <1>7, SumsKept DEF Tick, rootVars
  <2>2. ClockTyped'
    BY <1>7, Times, ChildGaugeAssumption DEF Tick, streamVars, GaugeInv, ClockTyped
  <2>3. WeekOf(now) <= WeekOf(now') /\ WeekOf(now) \in Nat /\ WeekOf(now') \in Nat
    BY <1>0, <1>7, WeekMonotone, WeekType DEF Tick
  <2>4. RootTyped'
    BY <1>0, <1>7, <2>3 DEF Tick, rootVars, callVars, GaugeInv, RootTyped, WeekOf
  <2> QED
    BY <1>7, <2>1, <2>2, <2>4
    DEF Tick, streamVars, stakeVars, GaugeInv, StreamTyped, StakesTyped, VeTyped
<1>8. CASE UNCHANGED cgVars
  <2>1. WorkingIsSum' /\ SDLIsConserved'
    BY <1>8, SumsKept DEF cgVars, rootVars
  <2> QED
    BY <1>8, <2>1
    DEF cgVars, rootVars, callVars, streamVars, stakeVars, GaugeInv, ClockTyped, RootTyped,
        StreamTyped, StakesTyped, VeTyped
<1> QED
  BY <1>1, <1>2, <1>3, <1>4, <1>5, <1>6, <1>7, <1>8, RootInv, DeliverInv DEF Next

(* Every reachable state has the types, and the three sums hold in it.     *)
THEOREM GaugeInvariant == Spec => []GaugeInv
<1> QED BY GaugeInvInit, GaugeInvNext, PTL DEF Spec

(* Every payment comes from SDL that is there, no stake counts for more    *)
(* than it is, and no subtraction of either gauge goes below zero.         *)
THEOREM GaugeTypes == Spec => []CGTypeOK
<1>1. GaugeInv => CGTypeOK
  <2> SUFFICES ASSUME GaugeInv PROVE CGTypeOK
    OBVIOUS
  <2>1. /\ period.ts \in Genesis .. now /\ period.integral \in Nat
        /\ ve.balance \in [Users -> VeBalances \union {0}] /\ ve.total \in VeTotals \union {0}
    BY DEF GaugeInv, ClockTyped, VeTyped
  <2>2. integrate_inv_supply_of \in [Users -> 0 .. period.integral]
    BY <2>1 DEF GaugeInv, StreamTyped
  <2>3. \A u \in Users : working_balances[u] \in 0 .. balanceOf[u]
    BY DEF GaugeInv, StakesTyped
  <2> QED
    BY <2>1, <2>2, <2>3
    DEF GaugeInv, ClockTyped, RootTyped, IsFlight, StreamTyped, StakesTyped, Weeks, CGTypeOK
<1> QED BY <1>1, GaugeInvariant, PTL

(* The supplies rewards are divided by are the sums of the stakes, for any *)
(* boosts and any order of their updates.                                  *)
THEOREM WorkingAlwaysSum == Spec => []WorkingIsSum
<1>1. GaugeInv => WorkingIsSum
  BY DEF GaugeInv
<1> QED BY <1>1, GaugeInvariant, PTL

(* However late and in whatever order the bridge delivers, what the root   *)
(* gauge was minted is on its way, at the gauge, at the factory or paid.   *)
THEOREM SDLAlwaysConserved == Spec => []SDLIsConserved
<1>1. GaugeInv => SDLIsConserved
  BY DEF GaugeInv
<1> QED BY <1>1, GaugeInvariant, PTL

-----------------------------------------------------------------------------
(* What has accrued.  After a checkpoint the integral is up to date.       *)
UpToDate == period.ts = now => IntegralNow = period.integral

LEMMA CheckedIntegral == GaugeInv => UpToDate
<1> SUFFICES ASSUME GaugeInv, period.ts = now PROVE IntegralNow = period.integral
  BY DEF UpToDate
<1>1. now \in Nat /\ WeekOf(now) \in Nat /\ period.integral \in Nat
  BY Times DEF GaugeInv
<1>2. CASE working_supply = 0
  BY <1>2 DEF IntegralNow
<1>3. CASE working_supply # 0
  <2> DEFINE S == WeekOf(period.ts) .. WeekOf(now)
  <2>1. S = {WeekOf(now)} /\ IsFiniteSet(S)
    <3>1. WeekOf(period.ts) = WeekOf(now)
      OBVIOUS
    <3>2. S = {WeekOf(now)}
      BY <1>1, <3>1
    <3> HIDE DEF S
    <3> QED BY <3>2, FS_Singleton
  <2>2. ASSUME NEW w \in S PROVE Gained[w] = 0
    <3> DEFINE a == w * WEEK
               b == (w + 1) * WEEK
    <3>1. w = WeekOf(now)
      BY <2>1
    <3>2. a \in Int /\ b \in Int /\ a <= now /\ now < b
      BY <1>1, <3>1, WeekType, ChildGaugeAssumption DEF WeekEnd
    <3> HIDE DEF a, b
    <3>3. Min({now, b}) = now /\ Max({period.ts, a}) = now
      BY <1>1, <3>2, MinOfTwo
    <3>4. Passed(w) = Min({now, b}) - Max({period.ts, a})
      BY DEF Passed, a, b
    <3>5. Passed(w) = 0
      BY <1>1, <3>3, <3>4
    <3>6. inflation_rate[w] \in Nat /\ SCALE \in Nat /\ working_supply \in Nat \ {0}
      BY <1>3, PassedType, ChildGaugeAssumption DEF GaugeInv, StreamTyped, StakesTyped
    <3>7. inflation_rate[w] * SCALE * 0 = 0
      BY <3>6
    <3>8. 0 \div working_supply = 0
      BY <3>6, RampStart
    <3> QED BY <3>5, <3>7, <3>8 DEF Gained
  <2>3. SumFunctionOnSet(Gained, S) = 0
    BY <2>1, <2>2, SumZero
  <2>4. IntegralNow = period.integral + SumFunctionOnSet(Gained, S)
    BY <1>3 DEF IntegralNow, SumFunction, Gained
  <2> QED BY <1>1, <2>3, <2>4
<1> QED BY <1>2, <1>3

LEMMA CheckedIntegralNext == GaugeInv' => UpToDate'
BY CheckedIntegral, PTL

(* An operation that checkpoints every user whose stake it changes.        *)
Checkpoints(us, paid) ==
  /\ CheckpointAndPay(us, paid) /\ paid <= factorySDL + gaugeSDL /\ paid \in Int
  /\ us \in SUBSET Users /\ UNCHANGED now
  /\ minted' \in [Users -> Nat] /\ Total(minted') = Total(minted) + paid
  /\ \A u \in Users \ us : /\ working_balances'[u] = working_balances[u]
                           /\ minted'[u] = minted[u]

(* The other operations change nothing the rewards depend on.              *)
RewardsStay ==
  UNCHANGED <<now, factorySDL, period, inflation_rate, integrate_fraction,
              integrate_inv_supply_of, minted, working_balances, working_supply>>

(* Users withdraw to themselves, as the gauge's checkpoints suppose.       *)
ToThemselves == \A u \in Users : Receivers[u] = {u}

LEMMA Unpaying ==
  ASSUME GaugeInv, NEW us \in SUBSET Users, CheckpointOf(us), ChildStep, UNCHANGED minted,
         \A u \in Users \ us : working_balances'[u] = working_balances[u]
  PROVE  Checkpoints(us, 0)
<1>1. minted \in [Users -> Nat] /\ 0 <= factorySDL + gaugeSDL
  BY DEF GaugeInv, StreamTyped
<1>2. Total(minted') = Total(minted) + 0
  BY <1>1, TotalType
<1> QED BY <1>1, <1>2 DEF Checkpoints, CheckpointOf, ChildStep

(* Every step is of one of three kinds.                                    *)
LEMMA Kinds ==
  ASSUME GaugeInv, ToThemselves, [Next]_cgVars
  PROVE  (\E us \in SUBSET Users, paid \in Int : Checkpoints(us, paid)) \/ Tick \/ RewardsStay
<1>1. ASSUME NEW u \in Users, NEW value \in Amounts \union {0}, Deposit(u, value)
      PROVE  Checkpoints({u}, 0)
  <2>1. CheckpointOf({u}) /\ ChildStep /\ UNCHANGED minted /\ {u} \in SUBSET Users
    BY <1>1 DEF Deposit
  <2> QED BY <1>1, <2>1, DepositStakes, Unpaying
<1>2. ASSUME NEW u \in Users, NEW value \in Amounts \union {0}, NEW to \in Receivers[u],
             Withdraw(u, to, value)
      PROVE  Checkpoints({u}, 0)
  <2>1. to = u
    BY DEF ToThemselves
  <2>2. Withdraw(u, u, value)
    BY <1>2, <2>1
  <2>3. CheckpointOf({u}) /\ ChildStep /\ UNCHANGED minted /\ {u} \in SUBSET Users
    BY <2>2 DEF Withdraw
  <2>4. \A v \in Users \ {u} : working_balances'[v] = working_balances[v]
    BY <2>2, WithdrawStakes
  <2> QED BY <2>3, <2>4, Unpaying
<1>3. ASSUME NEW u \in Users, NEW value \in Amounts \union {0}, NEW to \in Users,
             Transfer(u, to, value)
      PROVE  Checkpoints({u, to}, 0)
  <2>1. CheckpointOf({u, to}) /\ ChildStep /\ UNCHANGED minted /\ {u, to} \in SUBSET Users
    BY <1>3 DEF Transfer
  <2> QED BY <1>3, <2>1, TransferStakes, Unpaying
<1>4. ASSUME NEW u \in Users, UserCheckpoint(u) PROVE Checkpoints({u}, 0)
  <2>1. /\ CheckpointOf({u}) /\ ChildStep /\ UNCHANGED minted /\ {u} \in SUBSET Users
        /\ SetStakes({u}, balanceOf, totalSupply)
    BY <1>4 DEF UserCheckpoint
  <2> QED BY <2>1, SameStakes, Unpaying
<1>5. ASSUME NEW u \in Users, Mint(u)
      PROVE  \E us \in SUBSET Users, paid \in Int : Checkpoints(us, paid)
  <2>1. PICK paid \in Int :
          /\ CheckpointAndPay({u}, paid) /\ paid <= factorySDL + gaugeSDL
          /\ UNCHANGED <<now, rootMinted, inFlight>>
          /\ minted' \in [Users -> Nat] /\ Total(minted') = Total(minted) + paid
          /\ \A v \in Users \ {u} : minted'[v] = minted[v]
    BY <1>5, MintPays
  <2>2. \A v \in Users \ {u} : working_balances'[v] = working_balances[v]
    BY <1>5, SameStakes DEF Mint
  <2>3. Checkpoints({u}, paid)
    BY <2>1, <2>2 DEF Checkpoints
  <2> QED BY <2>3
<1>6. RootCheckpoint \/ TransmitEmissions \/ AnswerRequest \/ Deliver \/ VeChanges => RewardsStay
  BY DEF RootCheckpoint, TransmitEmissions, AnswerRequest, Deliver, VeChanges, streamVars, stakeVars,
         RewardsStay
<1>7. UNCHANGED cgVars => RewardsStay
  BY DEF cgVars, streamVars, stakeVars, RewardsStay
<1>8. \A u, v \in Users : {u, v} \in SUBSET Users /\ {u} \in SUBSET Users
  OBVIOUS
<1>9. 0 \in Int
  OBVIOUS
<1> QED BY <1>1, <1>2, <1>3, <1>4, <1>5, <1>6, <1>7, <1>8, <1>9 DEF Next

Accrues == \A u \in Users : FractionAt(u, IntegralNow)' >= FractionAt(u, IntegralNow)

LEMMA CheckpointAccrues ==
  ASSUME GaugeInv, GaugeInv', NEW us, NEW paid, Checkpoints(us, paid) PROVE Accrues
<1> SUFFICES ASSUME NEW u \in Users
             PROVE  FractionAt(u, IntegralNow)' >= FractionAt(u, IntegralNow)
  BY DEF Accrues
<1> DEFINE i == IntegralNow
<1>1. /\ period' = [ts |-> now, integral |-> i]
      /\ u \in us => /\ integrate_fraction'[u] = FractionAt(u, i)
                     /\ integrate_inv_supply_of'[u] = i
      /\ u \notin us => /\ integrate_fraction'[u] = integrate_fraction[u]
                        /\ integrate_inv_supply_of'[u] = integrate_inv_supply_of[u]
  BY CheckpointMoves DEF Checkpoints
<1>2. IntegralNow' = i
  BY <1>1, CheckedIntegralNext DEF UpToDate, Checkpoints
<1>3. i \in Nat /\ FractionAt(u, i) \in Nat
  BY IntegralGrows, FractionGrows
<1> HIDE DEF i
<1>4. FractionAt(u, IntegralNow)' = integrate_fraction'[u] +
         (working_balances'[u] * (i - integrate_inv_supply_of'[u])) \div SCALE
  BY <1>2 DEF FractionAt
<1>5. CASE u \in us
  <2>1. working_balances'[u] \in Nat
    BY DEF GaugeInv, StakesTyped
  <2>2. working_balances'[u] * (i - i) = 0
    BY <1>3, <2>1
  <2>3. 0 \div SCALE = 0
    BY RampStart, ChildGaugeAssumption
  <2>4. FractionAt(u, IntegralNow)' = FractionAt(u, i)
    BY <1>1, <1>3, <1>4, <1>5, <2>2, <2>3
  <2> QED BY <1>3, <2>4 DEF i
<1>6. CASE u \notin us
  <2>1. FractionAt(u, IntegralNow)' = FractionAt(u, i)
    BY <1>1, <1>4, <1>6 DEF Checkpoints, FractionAt
  <2> QED BY <1>3, <2>1 DEF i
<1> QED BY <1>5, <1>6

LEMMA OthersAccrue == ASSUME GaugeInv, RewardsStay PROVE Accrues
<1> SUFFICES ASSUME NEW u \in Users
             PROVE  FractionAt(u, IntegralNow)' >= FractionAt(u, IntegralNow)
  BY DEF Accrues
<1>1. FractionAt(u, IntegralNow) \in Nat
  BY IntegralGrows, FractionGrows
<1>2. IntegralNow' = IntegralNow
  BY DEF RewardsStay, IntegralNow, Passed
<1>3. FractionAt(u, IntegralNow)' = FractionAt(u, IntegralNow)
  BY <1>2 DEF RewardsStay, FractionAt
<1> QED BY <1>1, <1>3

PassedTyped ==
  \A w \in WeekOf(period.ts) .. WeekOf(now) : w \in Weeks /\ Passed(w) \in Nat
LEMMA PassedNow == GaugeInv => PassedTyped
BY PassedType DEF GaugeInv, PassedTyped
LEMMA PassedNext == GaugeInv' => PassedTyped'
BY PassedNow, PTL

LEMMA TickAccrues == ASSUME GaugeInv, GaugeInv', Tick PROVE Accrues
<1> SUFFICES ASSUME NEW u \in Users
             PROVE  FractionAt(u, IntegralNow)' >= FractionAt(u, IntegralNow)
  BY DEF Accrues
<1> DEFINE S == WeekOf(period.ts) .. WeekOf(now)
           T == WeekOf(period.ts) .. WeekOf(now')
<1>1. /\ now' = now + 1
      /\ UNCHANGED <<period, inflation_rate, integrate_fraction, integrate_inv_supply_of,
                     working_balances, working_supply>>
  BY DEF Tick, streamVars, stakeVars
<1>2. /\ now \in Nat /\ now' \in Nat /\ period.ts \in Nat /\ period.ts <= now
      /\ period.integral \in Nat /\ WeekOf(period.ts) \in Nat
      /\ WeekOf(now) \in Nat /\ WeekOf(now') \in Nat /\ WeekOf(now) <= WeekOf(now')
  <2>1. /\ now \in Nat /\ period.ts \in Nat /\ period.ts <= now /\ period.integral \in Nat
        /\ WeekOf(period.ts) \in Nat /\ WeekOf(now) \in Nat
    BY Times DEF GaugeInv
  <2> DEFINE next == now'
  <2>2. next \in Nat /\ now <= next
    BY <1>1, <2>1
  <2> HIDE DEF next
  <2>3. WeekOf(next) \in Nat /\ WeekOf(now) <= WeekOf(next)
    BY <2>1, <2>2, WeekType, WeekMonotone
  <2> QED BY <2>1, <2>2, <2>3 DEF next
<1>3. IntegralNow' >= IntegralNow /\ IntegralNow \in Nat /\ IntegralNow' \in Nat
  <2>1. CASE working_supply = 0
    BY <1>1, <1>2, <2>1 DEF IntegralNow
  <2>2. CASE working_supply # 0
    <3>1. Gained' = [w \in T |-> (inflation_rate[w] * SCALE * Passed(w)') \div working_supply]
      BY <1>1 DEF Gained, WeekOf
    <3>2. S \in SUBSET T /\ IsFiniteSet(T) /\ IsFiniteSet(S)
      <4> DEFINE first == WeekOf(period.ts)
                 last  == WeekOf(now)
                 later == WeekOf(now')
      <4>1. first \in Int /\ last \in Int /\ later \in Int /\ last <= later
        BY <1>2
      <4> HIDE DEF first, last, later
      <4>2. first .. last \in SUBSET (first .. later)
        BY <4>1
      <4>3. IsFiniteSet(first .. last) /\ IsFiniteSet(first .. later)
        BY <4>1, FS_Interval
      <4> QED BY <4>2, <4>3 DEF first, last, later
    <3>3. ASSUME NEW w \in T
          PROVE  Gained'[w] \in Nat /\ (w \in S => Gained[w] \in Nat /\ Gained[w] <= Gained'[w])
      <4>1. w \in Weeks /\ Passed(w)' \in Nat /\ (w \in S => Passed(w) \in Nat)
        BY <1>1, PassedType, PassedNext DEF GaugeInv, WeekOf, PassedTyped
      <4>2. w \in S => Passed(w) <= Passed(w)'
        <5> DEFINE a == w * WEEK
                   b == (w + 1) * WEEK
        <5>1. SUFFICES ASSUME w \in S PROVE Passed(w) <= Passed(w)'
          OBVIOUS
        <5>2. a \in Int /\ b \in Int
          BY <1>2, ChildGaugeAssumption
        <5> HIDE DEF a, b
        <5>3. /\ Passed(w) = Min({now, b}) - Max({period.ts, a})
              /\ Passed(w)' = Min({now', b}) - Max({period.ts, a})
          BY <1>1 DEF Passed, a, b
        <5> DEFINE next == now'
        <5>4. now \in Int /\ next \in Int /\ period.ts \in Int /\ now <= next
          BY <1>1, <1>2
        <5> HIDE DEF next
        <5>5. /\ Min({now, b}) = (IF now <= b THEN now ELSE b)
              /\ Min({next, b}) = (IF next <= b THEN next ELSE b)
              /\ Max({period.ts, a}) = (IF period.ts <= a THEN a ELSE period.ts)
          BY <5>2, <5>4, MinOfTwo
        <5>6. Min({now, b}) <= Min({next, b}) /\ Min({now, b}) \in Int /\ Min({next, b}) \in Int
              /\ Max({period.ts, a}) \in Int
          BY <5>2, <5>4, <5>5
        <5>7. Passed(w)' = Min({next, b}) - Max({period.ts, a})
          BY <5>3 DEF next
        <5> QED BY <5>3, <5>6, <5>7
      <4>3. inflation_rate[w] \in Nat /\ SCALE \in Nat /\ working_supply \in Nat \ {0}
        BY <2>2, <4>1, ChildGaugeAssumption DEF GaugeInv, StreamTyped, StakesTyped
      <4> DEFINE rate == inflation_rate[w] * SCALE
                 old  == Passed(w)
                 new  == Passed(w)'
      <4>4. rate \in Nat
        BY <4>3
      <4>5. Gained'[w] = (rate * new) \div working_supply
        BY <3>1
      <4>6. w \in S => Gained[w] = (rate * old) \div working_supply
        BY DEF Gained
      <4>7. new \in Nat /\ (w \in S => old \in Nat /\ old <= new)
        BY <4>1, <4>2
      <4> HIDE DEF rate, old, new
      <4>8. rate * new \in Nat /\ (w \in S => rate * old \in Nat /\ rate * old <= rate * new)
        BY <4>4, <4>7
      <4>9. Gained'[w] \in Nat
        BY <4>3, <4>5, <4>8, DivDef
      <4>10. ASSUME w \in S PROVE Gained[w] \in Nat /\ Gained[w] <= Gained'[w]
        <5>1. working_supply \in Nat /\ working_supply <= working_supply
              /\ rate * old \in Nat /\ rate * old <= rate * new /\ rate * new \in Nat
          BY <4>3, <4>8, <4>10
        <5>2. (rate * old) \div working_supply <= (rate * new) \div working_supply
          BY <4>3, <5>1, DivMonotone
        <5>3. (rate * old) \div working_supply \in Nat
          BY <4>3, <5>1, DivDef
        <5> QED BY <4>5, <4>6, <4>10, <5>2, <5>3
      <4> QED BY <4>9, <4>10
    <3>4. SumFunctionOnSet(Gained', S) <= SumFunctionOnSet(Gained', T)
      BY <3>2, <3>3, SumSubset
    <3>5. SumFunctionOnSet(Gained, S) <= SumFunctionOnSet(Gained', S)
      <4>1. \A w \in S : Gained[w] \in Int /\ Gained'[w] \in Int /\ Gained[w] <= Gained'[w]
        BY <3>2, <3>3
      <4> QED BY <3>2, <4>1, SumMonotone
    <3>6. /\ SumFunctionOnSet(Gained, S) \in Nat
          /\ SumFunctionOnSet(Gained', S) \in Nat /\ SumFunctionOnSet(Gained', T) \in Nat
      BY <3>2, <3>3, SumNat
    <3>7. IntegralNow = period.integral + SumFunctionOnSet(Gained, S)
      BY <2>2 DEF IntegralNow, SumFunction, Gained
    <3>8. IntegralNow' = period.integral + SumFunctionOnSet(Gained', T)
      BY <1>1, <2>2 DEF IntegralNow, SumFunction, Gained, WeekOf
    <3> QED BY <1>2, <3>4, <3>5, <3>6, <3>7, <3>8
  <2> QED BY <2>1, <2>2
<1>4. /\ integrate_fraction[u] \in Nat /\ working_balances[u] \in Nat
      /\ integrate_inv_supply_of[u] \in Nat /\ integrate_inv_supply_of[u] <= IntegralNow
  BY <1>2, <1>3, IntegralGrows DEF GaugeInv, StreamTyped, StakesTyped
<1> DEFINE before == IntegralNow - integrate_inv_supply_of[u]
           after  == IntegralNow' - integrate_inv_supply_of[u]
<1>5. before \in Nat /\ after \in Nat /\ before <= after
  BY <1>3, <1>4
<1>6. /\ FractionAt(u, IntegralNow)
           = integrate_fraction[u] + (working_balances[u] * before) \div SCALE
      /\ FractionAt(u, IntegralNow)'
           = integrate_fraction[u] + (working_balances[u] * after) \div SCALE
  BY <1>1 DEF FractionAt
<1> HIDE DEF before, after
<1>7. /\ working_balances[u] * before \in Nat /\ working_balances[u] * after \in Nat
      /\ working_balances[u] * before <= working_balances[u] * after
      /\ SCALE \in Nat \ {0} /\ SCALE \in Nat /\ SCALE <= SCALE
  BY <1>4, <1>5, ChildGaugeAssumption
<1>8. (working_balances[u] * before) \div SCALE <= (working_balances[u] * after) \div SCALE
  BY <1>7, DivMonotone
<1>9. (working_balances[u] * before) \div SCALE \in Nat
      /\ (working_balances[u] * after) \div SCALE \in Nat
  BY <1>7, DivDef
<1> QED BY <1>4, <1>6, <1>8, <1>9

(* What a user has earned never shrinks, for any stakes, boosts and delays *)
(* of the bridge, as long as users withdraw to themselves.                 *)
THEOREM AccruedAlwaysKept == ASSUME ToThemselves PROVE Spec => AccruedIsKept
<1>1. GaugeInv /\ GaugeInv' /\ [Next]_cgVars => Accrues
  <2> SUFFICES ASSUME GaugeInv, GaugeInv', [Next]_cgVars PROVE Accrues
    OBVIOUS
  <2>1. CASE \E us \in SUBSET Users, paid \in Int : Checkpoints(us, paid)
    BY <2>1, CheckpointAccrues
  <2>2. CASE Tick
    BY <2>2, TickAccrues
  <2>3. CASE RewardsStay
    BY <2>3, OthersAccrue
  <2> QED BY <2>1, <2>2, <2>3, Kinds
<1>2. Spec => [][Accrues]_cgVars
  BY <1>1, GaugeInvariant, PTL DEF Spec
<1> QED BY <1>2 DEF AccruedIsKept, Accrues

-----------------------------------------------------------------------------
(* Payments are covered.  In the units of the integral: what is owed to a  *)
(* user, fractions of a unit of SDL included, when the integral is i; and  *)
(* what the factory owes all of them until the end of the week of the last *)
(* checkpoint, after which no week has a rate.                             *)
Owed(u, i) ==
  SCALE * (integrate_fraction[u] - minted[u])
    + working_balances[u] * (i - integrate_inv_supply_of[u])
OwedTo(i) == [u \in Users |-> Owed(u, i)]

RatesEnd == \A w \in Weeks : WeekOf(period.ts) < w => inflation_rate[w] = 0

LastRate == inflation_rate[WeekOf(period.ts)]
Covered ==
  Total(OwedTo(period.integral)) + SCALE * (LastRate * (WeekEnd(period.ts) - period.ts))
    <= SCALE * factorySDL

CoveredInv == GaugeInv /\ RatesEnd /\ Covered

LEMMA OwedType ==
  ASSUME GaugeInv, NEW i \in Nat PROVE \A u \in Users : OwedTo(i)[u] = Owed(u, i) /\ Owed(u, i) \in Int
<1> SUFFICES ASSUME NEW u \in Users PROVE Owed(u, i) \in Int
  BY DEF OwedTo
<1>1. /\ integrate_fraction[u] \in Int /\ minted[u] \in Int /\ working_balances[u] \in Int
      /\ integrate_inv_supply_of[u] \in Int /\ SCALE \in Int
  BY ChildGaugeAssumption DEF GaugeInv, StreamTyped, StakesTyped
<1>2. integrate_fraction[u] - minted[u] \in Int /\ i - integrate_inv_supply_of[u] \in Int
  BY <1>1
<1>3. \A a, b, c, d \in Int : a * b + c * d \in Int
  OBVIOUS
<1> QED BY <1>1, <1>2, <1>3 DEF Owed

LEMMA OwedTotal ==
  ASSUME GaugeInv, NEW i \in Nat PROVE Total(OwedTo(i)) \in Int
BY OwedType, SumInt, ChildGaugeAssumption DEF Total

(* The integral grows by at most what the week of the last checkpoint has  *)
(* given: the weeks after it have no rate.                                 *)
LEMMA IntegralBound ==
  ASSUME GaugeInv, RatesEnd
  PROVE  working_supply * (IntegralNow - period.integral)
           <= SCALE * (LastRate * Passed(WeekOf(period.ts)))
<1> DEFINE first == WeekOf(period.ts)
           last  == WeekOf(now)
           S     == first .. last
           gain  == SCALE * (LastRate * Passed(first))
<1>1. first \in Nat /\ last \in Nat /\ first <= last /\ first \in Weeks /\ first \in S
      /\ period.integral \in Nat
  BY Times DEF GaugeInv
<1>2. SCALE \in Nat /\ LastRate \in Nat /\ Passed(first) \in Nat /\ working_supply \in Nat
  BY <1>1, PassedType, ChildGaugeAssumption DEF GaugeInv, StreamTyped, StakesTyped, LastRate
<1>3. gain \in Nat /\ inflation_rate[first] * SCALE * Passed(first) = gain
  BY <1>2 DEF LastRate
<1>4. CASE working_supply = 0
  <2>1. IntegralNow = period.integral
    BY <1>4 DEF IntegralNow
  <2>2. working_supply * (IntegralNow - period.integral) = 0
    BY <1>1, <1>2, <2>1
  <2> QED BY <1>3, <2>2
<1>5. CASE working_supply # 0
  <2>1. IsFiniteSet(S) /\ {first} \in SUBSET S
    <3>1. first \in Int /\ last \in Int
      BY <1>1
    <3> HIDE DEF first, last
    <3> QED BY <1>1, <3>1, FS_Interval
  <2>2. Gained[first] = gain \div working_supply
    BY <1>1, <1>3 DEF Gained
  <2> HIDE DEF gain
  <2>3. Gained[first] \in Nat /\ working_supply * Gained[first] <= gain
    BY <1>2, <1>3, <1>5, <2>2, DivDef
  <2>4. ASSUME NEW w \in S \ {first} PROVE Gained[w] = 0
    <3>1. w \in Weeks /\ first < w /\ Passed(w) \in Nat
      BY <1>1, PassedType DEF GaugeInv
    <3>2. inflation_rate[w] = 0
      BY <3>1 DEF RatesEnd
    <3>3. 0 * SCALE * Passed(w) = 0 /\ working_supply \in Nat \ {0}
      BY <1>2, <1>5, <3>1
    <3>4. 0 \div working_supply = 0
      BY <3>3, RampStart
    <3> QED BY <3>2, <3>3, <3>4 DEF Gained
  <2>5. SumFunctionOnSet(Gained, S) = Gained[first]
    <3>1. \A w \in S : Gained[w] \in Int
      BY <2>3, <2>4
    <3>2. SumFunctionOnSet(Gained, S) = SumFunctionOnSet(Gained, {first})
      <4> HIDE DEF S
      <4> QED BY <2>1, <2>4, <3>1, SumOutside
    <3>3. SumFunctionOnSet(Gained, {} \cup {first}) = SumFunctionOnSet(Gained, {}) + Gained[first]
      <4>1. IsFiniteSet({}) /\ first \notin {} /\ \A x \in {} \cup {first} : Gained[x] \in Int
        BY <2>3, FS_EmptySet
      <4> HIDE DEF first
      <4> QED BY <4>1, SumAdd
    <3>4. SumFunctionOnSet(Gained, {}) = 0 /\ {} \cup {first} = {first}
      BY SumEmpty
    <3> QED BY <2>3, <3>2, <3>3, <3>4
  <2>6. IntegralNow = period.integral + SumFunctionOnSet(Gained, S)
    BY <1>5 DEF IntegralNow, SumFunction, Gained
  <2>7. IntegralNow - period.integral = Gained[first]
    BY <1>1, <2>3, <2>5, <2>6
  <2> QED BY <2>3, <2>7 DEF gain
<1> QED BY <1>4, <1>5

(* What the rate of the current week gives until its end, after what it    *)
(* has given since the last checkpoint.                                    *)
LEMMA ScheduledLeft ==
  ASSUME GaugeInv, RatesEnd
  PROVE  /\ Scheduled \in Nat /\ LastRate \in Nat /\ Passed(WeekOf(period.ts)) \in Nat
         /\ WeekEnd(period.ts) - period.ts \in Nat
         /\ LastRate * Passed(WeekOf(period.ts)) + Scheduled
              = LastRate * (WeekEnd(period.ts) - period.ts)
<1> DEFINE first == WeekOf(period.ts)
           a == first * WEEK
           b == (first + 1) * WEEK
<1>1. /\ first \in Nat /\ first <= WeekOf(now) /\ first \in Weeks /\ WeekOf(now) \in Weeks
      /\ first \in first .. WeekOf(now) /\ now \in Nat /\ period.ts \in Nat /\ period.ts <= now
      /\ WeekOf(now) \in Nat
  BY Times DEF GaugeInv
<1>2. a <= period.ts /\ b = WeekEnd(period.ts) /\ b \in Nat /\ a \in Nat /\ b - period.ts \in Nat
  BY <1>1, WeekType, ChildGaugeAssumption DEF WeekEnd
<1>3. WeekEnd(now) \in Nat /\ WeekEnd(now) - now \in Nat /\ WeekOf(now) * WEEK <= now
  BY <1>1, WeekType
<1>4. LastRate \in Nat /\ inflation_rate[WeekOf(now)] \in Nat /\ Passed(first) \in Nat
  BY <1>1, PassedType DEF GaugeInv, StreamTyped, LastRate
<1>5. Scheduled \in Nat
  BY <1>3, <1>4 DEF Scheduled
<1>6. Passed(first) = (IF now <= b THEN now ELSE b) - period.ts
  <2>1. Passed(first) = Min({now, b}) - Max({period.ts, a})
    BY DEF Passed
  <2>2. now \in Int /\ b \in Int /\ period.ts \in Int /\ a \in Int
    BY <1>1, <1>2
  <2> HIDE DEF a, b, first
  <2>3. Min({now, b}) = (IF now <= b THEN now ELSE b)
        /\ Max({period.ts, a}) = (IF period.ts <= a THEN a ELSE period.ts)
    BY <2>2, MinOfTwo
  <2> QED BY <1>2, <2>1, <2>2, <2>3
<1>7. CASE first = WeekOf(now)
  <2>1. b = WeekEnd(now) /\ now <= b
    BY <1>1, <1>3, <1>7 DEF WeekEnd
  <2>2. Passed(first) = now - period.ts /\ Scheduled = LastRate * (b - now)
    BY <1>6, <1>7, <2>1 DEF Scheduled, LastRate
  <2> HIDE DEF a, b, first
  <2>3. LastRate * (now - period.ts) + LastRate * (b - now) = LastRate * (b - period.ts)
    BY <1>1, <1>2, <1>4
  <2> QED BY <1>2, <1>4, <1>5, <2>2, <2>3 DEF first
<1>8. CASE first # WeekOf(now)
  <2>1. first < WeekOf(now)
    BY <1>1, <1>8
  <2>2. inflation_rate[WeekOf(now)] = 0
    BY <1>1, <2>1 DEF RatesEnd
  <2>3. Scheduled = 0
    BY <1>3, <2>2 DEF Scheduled
  <2>4. b <= WeekOf(now) * WEEK
    BY <1>1, <2>1, ChildGaugeAssumption
  <2>5. b <= now /\ Passed(first) = b - period.ts
    <3>1. WeekOf(now) * WEEK \in Nat
      BY <1>1, ChildGaugeAssumption
    <3> HIDE DEF a, b, first
    <3>2. b <= now
      BY <1>1, <1>2, <1>3, <2>4, <3>1
    <3> QED BY <1>1, <1>2, <1>6, <3>2
  <2>6. LastRate * (b - period.ts) + 0 = LastRate * (b - period.ts)
    BY <1>2, <1>4
  <2> QED BY <1>2, <1>4, <1>5, <2>3, <2>5, <2>6
<1> QED BY <1>7, <1>8

LEMMA CoveredNow ==
  ASSUME CoveredInv
  PROVE  Total(OwedTo(IntegralNow)) + SCALE * Scheduled <= SCALE * factorySDL
<1> DEFINE p  == period.integral
           i  == IntegralNow
           d  == i - p
           grown == [u \in Users |-> d * working_balances[u]]
           spent == LastRate * Passed(WeekOf(period.ts))
           last  == LastRate * (WeekEnd(period.ts) - period.ts)
<1>1. GaugeInv /\ RatesEnd /\ IsFiniteSet(Users) /\ SCALE \in Nat
  BY ChildGaugeAssumption DEF CoveredInv
<1>2. i \in Nat /\ p \in Nat /\ d \in Nat
  BY <1>1, IntegralGrows, Times DEF GaugeInv
<1>3. /\ working_balances \in [Users -> Nat] /\ working_supply = Total(working_balances)
      /\ working_supply \in Nat /\ factorySDL \in Nat
  BY <1>1, WorkingSums DEF GaugeInv, StakesTyped, StreamTyped
<1> HIDE DEF i, p
<1>4. ASSUME NEW u \in Users
      PROVE  /\ OwedTo(p)[u] \in Int /\ grown[u] \in Int /\ OwedTo(i)[u] = OwedTo(p)[u] + grown[u]
  <2>1. OwedTo(p)[u] = Owed(u, p) /\ Owed(u, p) \in Int /\ OwedTo(i)[u] = Owed(u, i)
    BY <1>1, <1>2, OwedType
  <2> DEFINE w == working_balances[u]
             v == integrate_inv_supply_of[u]
             c == SCALE * (integrate_fraction[u] - minted[u])
  <2>2. w \in Int /\ v \in Int /\ c \in Int
    BY <1>1, <1>3 DEF GaugeInv, StreamTyped
  <2>3. Owed(u, p) = c + w * (p - v) /\ Owed(u, i) = c + w * (i - v)
    BY DEF Owed
  <2>4. grown[u] = (i - p) * w
    OBVIOUS
  <2> HIDE DEF w, v, c
  <2>5. w * (i - v) = w * (p - v) + (i - p) * w /\ (i - p) * w \in Int /\ w * (p - v) \in Int
    BY <1>2, <2>2
  <2> HIDE DEF grown
  <2> QED BY <2>1, <2>2, <2>3, <2>4, <2>5
<1>5. Total(OwedTo(i)) = Total(OwedTo(p)) + Total(grown)
  <2> HIDE DEF grown
  <2> QED BY <1>1, <1>4, SumPlus DEF Total
<1>6. Total(grown) = d * working_supply
  <2>1. \A u \in Users : working_balances[u] \in Int /\ grown[u] = d * working_balances[u]
    BY <1>3
  <2>2. d \in Int
    BY <1>2
  <2> HIDE DEF grown, d
  <2> QED BY <1>1, <1>3, <2>1, <2>2, SumTimes DEF Total
<1>7. working_supply * d <= SCALE * spent
  BY <1>1, IntegralBound DEF i, p
<1>8. spent \in Nat /\ last \in Nat /\ Scheduled \in Nat /\ spent + Scheduled = last
  <2>1. /\ Scheduled \in Nat /\ LastRate \in Nat /\ Passed(WeekOf(period.ts)) \in Nat
        /\ WeekEnd(period.ts) - period.ts \in Nat /\ spent + Scheduled = last
    BY <1>1, ScheduledLeft
  <2> QED BY <2>1
<1>9. Total(OwedTo(p)) + SCALE * last <= SCALE * factorySDL
  BY DEF CoveredInv, Covered, p
<1>10. Total(OwedTo(p)) \in Int
  BY <1>1, <1>2, OwedTotal
<1> HIDE DEF d, spent, last, grown
<1>11. SCALE * last = SCALE * spent + SCALE * Scheduled /\ SCALE * spent \in Nat
       /\ SCALE * Scheduled \in Nat /\ SCALE * factorySDL \in Nat
  BY <1>1, <1>3, <1>8
<1>12. d * working_supply = working_supply * d /\ working_supply * d \in Nat
  BY <1>2, <1>3
<1>13. Total(OwedTo(i)) + SCALE * Scheduled <= SCALE * factorySDL
  BY <1>5, <1>6, <1>7, <1>9, <1>10, <1>11, <1>12
<1> QED BY <1>13 DEF i

OwedTyped == \A u \in Users : OwedTo(period.integral)[u] \in Int
LEMMA OwedNow == GaugeInv => OwedTyped
BY OwedType, Times DEF GaugeInv, OwedTyped
LEMMA OwedNext == GaugeInv' => OwedTyped'
BY OwedNow, PTL

(* A checkpoint rounds down what it moves from the integral to a fraction. *)
LEMMA OwedShrinks ==
  ASSUME GaugeInv, GaugeInv', NEW us, NEW paid, Checkpoints(us, paid), NEW u \in Users
  PROVE  /\ OwedTo(period.integral)'[u] \in Int /\ OwedTo(IntegralNow)[u] \in Int
         /\ SCALE * (minted'[u] - minted[u]) \in Int
         /\ OwedTo(period.integral)'[u]
              <= OwedTo(IntegralNow)[u] - SCALE * (minted'[u] - minted[u])
<1> DEFINE i == IntegralNow
           m == minted[u]
           n == minted'[u]
           w == working_balances[u]
           v == integrate_inv_supply_of[u]
           c == integrate_fraction[u]
           e == FractionAt(u, i)
<1>1. /\ period' = [ts |-> now, integral |-> i]
      /\ u \in us => integrate_fraction'[u] = e /\ integrate_inv_supply_of'[u] = i
      /\ u \notin us => integrate_fraction'[u] = c /\ integrate_inv_supply_of'[u] = v
  BY CheckpointMoves DEF Checkpoints
<1>2. i \in Nat /\ e \in Nat /\ SCALE * (e - c) <= w * (i - v)
  BY IntegralGrows, FractionGrows
<1>3. m \in Nat /\ n \in Nat /\ w \in Nat /\ v \in Nat /\ c \in Nat /\ SCALE \in Nat
  BY ChildGaugeAssumption DEF GaugeInv, StreamTyped, StakesTyped, Checkpoints
<1>4. u \notin us => working_balances'[u] = w /\ n = m
  BY DEF Checkpoints
<1>5. OwedTo(i)[u] = SCALE * (c - m) + w * (i - v) /\ OwedTo(i)[u] \in Int
  <2>1. OwedTo(i)[u] = Owed(u, i) /\ Owed(u, i) \in Int
    BY <1>2, OwedType
  <2> QED BY <2>1 DEF Owed
<1>6. OwedTo(period.integral)'[u]
        = SCALE * (integrate_fraction'[u] - n)
            + working_balances'[u] * (i - integrate_inv_supply_of'[u])
  BY <1>1 DEF OwedTo, Owed
<1>7. OwedTo(period.integral)'[u] \in Int
  BY OwedNext DEF OwedTyped
<1>8. working_balances'[u] \in Nat
  BY DEF GaugeInv, StakesTyped
<1>9. SCALE * (n - m) \in Int
  BY <1>3
<1> HIDE DEF i, m, n, w, v, c, e
<1>10. CASE u \in us
  <2>1. working_balances'[u] * (i - i) = 0
    BY <1>2, <1>8
  <2>2. OwedTo(period.integral)'[u] = SCALE * (e - n)
    <3>1. SCALE * (e - n) \in Int
      BY <1>2, <1>3
    <3> QED BY <1>1, <1>6, <1>10, <2>1, <3>1
  <2>3. /\ SCALE * (e - n) = SCALE * (e - c) + SCALE * (c - m) - SCALE * (n - m)
        /\ SCALE * (e - c) \in Int /\ SCALE * (c - m) \in Int /\ SCALE * (n - m) \in Int
        /\ w * (i - v) \in Int
    BY <1>2, <1>3
  <2>4. SCALE * (e - n) <= SCALE * (c - m) + w * (i - v) - SCALE * (n - m)
    BY <1>2, <2>3
  <2>5. OwedTo(period.integral)'[u] <= OwedTo(i)[u] - SCALE * (n - m)
    BY <1>5, <2>2, <2>3, <2>4
  <2> QED BY <1>5, <1>7, <1>9, <2>5 DEF i, m, n
<1>11. CASE u \notin us
  <2>1. OwedTo(period.integral)'[u] = SCALE * (c - m) + w * (i - v)
    BY <1>1, <1>4, <1>6, <1>11
  <2>2. SCALE * (n - m) = 0
    BY <1>3, <1>4, <1>11
  <2> QED BY <1>5, <1>7, <1>9, <2>1, <2>2 DEF i, m, n
<1> QED BY <1>10, <1>11

LEMMA OwedPaid ==
  ASSUME GaugeInv, GaugeInv', NEW us, NEW paid, Checkpoints(us, paid)
  PROVE  /\ Total(OwedTo(period.integral)') \in Int /\ Total(OwedTo(IntegralNow)) \in Int
         /\ Total(OwedTo(period.integral)') <= Total(OwedTo(IntegralNow)) - SCALE * paid
<1> DEFINE owed == OwedTo(IntegralNow)
           next == OwedTo(period.integral)'
           pay  == [u \in Users |-> minted'[u] - minted[u]]
           gone == [u \in Users |-> SCALE * pay[u]]
           left == [u \in Users |-> owed[u] - gone[u]]
<1>1. IsFiniteSet(Users) /\ SCALE \in Int /\ paid \in Int /\ Total(minted') = Total(minted) + paid
  BY ChildGaugeAssumption DEF Checkpoints
<1>2. \A u \in Users : minted[u] \in Int /\ minted'[u] \in Int
  BY DEF Checkpoints, GaugeInv, StreamTyped
<1>3. \A u \in Users : pay[u] \in Int /\ minted'[u] = minted[u] + pay[u]
  BY <1>2
<1>4. ASSUME NEW u \in Users
      PROVE  owed[u] \in Int /\ next[u] \in Int /\ gone[u] \in Int /\ next[u] <= owed[u] - gone[u]
  <2>1. gone[u] = SCALE * (minted'[u] - minted[u])
    OBVIOUS
  <2> QED BY <2>1, OwedShrinks
<1>5. \A u \in Users : gone[u] = SCALE * pay[u] /\ left[u] = owed[u] - gone[u]
  OBVIOUS
<1> HIDE DEF owed, next, pay, gone, left
<1>6. \A u \in Users : left[u] \in Int /\ next[u] <= left[u] /\ owed[u] = left[u] + gone[u]
  BY <1>4, <1>5
<1>7. Total(minted') = Total(minted) + Total(pay)
  BY <1>1, <1>2, <1>3, SumPlus DEF Total
<1>8. Total(gone) = SCALE * Total(pay)
  BY <1>1, <1>3, <1>5, SumTimes DEF Total
<1>9. Total(owed) = Total(left) + Total(gone)
  BY <1>1, <1>4, <1>6, SumPlus DEF Total
<1>10. Total(next) <= Total(left)
  BY <1>1, <1>4, <1>6, SumMonotone DEF Total
<1>11. /\ Total(minted) \in Int /\ Total(pay) \in Int /\ Total(left) \in Int /\ Total(next) \in Int
       /\ Total(owed) \in Int
  BY <1>1, <1>2, <1>3, <1>4, <1>6, SumInt DEF Total
<1>12. Total(pay) = paid
  <2>1. Total(minted) + paid = Total(minted) + Total(pay)
    BY <1>1, <1>7
  <2>2. Total(minted) \in Int /\ Total(pay) \in Int /\ paid \in Int
    BY <1>1, <1>11
  <2>3. \A a, b, c \in Int : a + b = a + c => c = b
    OBVIOUS
  <2> QED BY <2>1, <2>2, <2>3
<1>13. SCALE * paid \in Int
  BY <1>1
<1>14. Total(next) <= Total(owed) - SCALE * paid
  BY <1>8, <1>9, <1>10, <1>11, <1>12, <1>13
<1> QED BY <1>11, <1>14 DEF owed, next

LEMMA CheckpointCovered ==
  ASSUME CoveredInv, GaugeInv', NEW us \in SUBSET Users, NEW paid \in Int, Checkpoints(us, paid)
  PROVE  RatesEnd' /\ Covered'
<1> DEFINE rest  == WeekEnd(now) - now
           added == AddedRate(gaugeSDL)
           old   == inflation_rate[WeekOf(now)]
           owed  == Total(OwedTo(period.integral)')
<1>1. GaugeInv /\ RatesEnd /\ SCALE \in Nat
  BY ChildGaugeAssumption DEF CoveredInv
<1>2. /\ period' = [ts |-> now, integral |-> IntegralNow]
      /\ inflation_rate' = [inflation_rate EXCEPT ![WeekOf(now)] = @ + added]
      /\ factorySDL' = factorySDL + gaugeSDL - paid
  BY <1>1, CheckpointMoves DEF Checkpoints
<1>3. /\ now \in Nat /\ WeekOf(now) \in Nat /\ WeekOf(now) \in Weeks
      /\ WeekOf(period.ts) \in Nat /\ WeekOf(period.ts) <= WeekOf(now) /\ rest \in Nat
      /\ inflation_rate \in [Weeks -> Nat] /\ factorySDL \in Nat /\ gaugeSDL \in Nat
  BY <1>1, Times, WeekType DEF GaugeInv, StreamTyped
<1>4. added \in Nat /\ added * rest <= gaugeSDL /\ old \in Nat
  BY <1>1, <1>3, AddedRateType
<1>5. RatesEnd'
  <2> SUFFICES ASSUME NEW w \in Weeks, WeekOf(now) < w PROVE inflation_rate'[w] = 0
    BY <1>2 DEF RatesEnd, Weeks, WeekOf
  <2>1. w \in Nat
    BY <1>1, Times DEF GaugeInv, Weeks
  <2>2. WeekOf(period.ts) < w /\ w # WeekOf(now)
    BY <1>3, <2>1
  <2>3. inflation_rate[w] = 0
    BY <1>1, <2>2 DEF RatesEnd
  <2> QED BY <1>2, <1>3, <2>2, <2>3
<1>6. Covered' = (owed + SCALE * ((old + added) * rest) <= SCALE * factorySDL')
  <2>1. LastRate' = old + added
    BY <1>2, <1>3 DEF LastRate, WeekOf
  <2>2. (WeekEnd(period.ts) - period.ts)' = rest
    BY <1>2 DEF WeekEnd, WeekOf
  <2> QED BY <2>1, <2>2 DEF Covered
<1>7. /\ owed \in Int /\ Total(OwedTo(IntegralNow)) \in Int
      /\ owed <= Total(OwedTo(IntegralNow)) - SCALE * paid
  BY <1>1, OwedPaid
<1>8. Total(OwedTo(IntegralNow)) + SCALE * (old * rest) <= SCALE * factorySDL
  BY CoveredNow DEF Scheduled
<1> HIDE DEF rest, added, old, owed
<1> DEFINE due == Total(OwedTo(IntegralNow))
<1>9. due \in Int /\ owed <= due - SCALE * paid /\ due + SCALE * (old * rest) <= SCALE * factorySDL
  BY <1>7, <1>8
<1> HIDE DEF due
<1>10. /\ SCALE * ((old + added) * rest) = SCALE * (old * rest) + SCALE * (added * rest)
       /\ SCALE * (old * rest) \in Nat /\ SCALE * (added * rest) \in Nat
       /\ SCALE * (added * rest) <= SCALE * gaugeSDL
       /\ SCALE * gaugeSDL \in Nat /\ SCALE * factorySDL \in Nat /\ SCALE * paid \in Int
  <2> DEFINE given == old * rest
             more  == added * rest
             both  == (old + added) * rest
  <2>1. given \in Nat /\ more \in Nat /\ both = given + more /\ more <= gaugeSDL
    BY <1>3, <1>4
  <2> HIDE DEF given, more, both
  <2>2. /\ SCALE * both = SCALE * given + SCALE * more
        /\ SCALE * given \in Nat /\ SCALE * more \in Nat /\ SCALE * more <= SCALE * gaugeSDL
    BY <1>1, <1>3, <2>1
  <2>3. SCALE * gaugeSDL \in Nat /\ SCALE * factorySDL \in Nat /\ SCALE * paid \in Int
    BY <1>1, <1>3
  <2> QED BY <2>2, <2>3 DEF given, more, both
<1>11. SCALE * factorySDL' = SCALE * factorySDL + SCALE * gaugeSDL - SCALE * paid
  BY <1>1, <1>2, <1>3
<1>12. owed + SCALE * ((old + added) * rest) <= SCALE * factorySDL'
  BY <1>7, <1>9, <1>10, <1>11
<1> QED BY <1>5, <1>6, <1>12

LEMMA CoveredInvInit == Init => CoveredInv
<1> SUFFICES ASSUME Init PROVE RatesEnd /\ Covered
  BY GaugeInvInit DEF CoveredInv
<1>1. GaugeInv /\ SCALE \in Nat /\ IsFiniteSet(Users)
  BY GaugeInvInit, ChildGaugeAssumption
<1>2. \A w \in Weeks : inflation_rate[w] = 0
  BY DEF Init, Weeks
<1>3. WeekOf(period.ts) \in Weeks /\ period.ts \in Nat
  BY <1>1, Times DEF GaugeInv
<1>4. RatesEnd /\ LastRate = 0
  BY <1>2, <1>3 DEF RatesEnd, LastRate
<1>5. WeekEnd(period.ts) - period.ts \in Nat
  BY <1>3, WeekType
<1>6. \A u \in Users : OwedTo(period.integral)[u] = 0
  <2> SUFFICES ASSUME NEW u \in Users PROVE Owed(u, period.integral) = 0
    BY DEF OwedTo
  <2>1. /\ integrate_fraction[u] = 0 /\ minted[u] = 0 /\ working_balances[u] = 0
        /\ period.integral = 0 /\ integrate_inv_supply_of[u] = 0
    BY DEF Init
  <2>2. SCALE * (0 - 0) + 0 * (0 - 0) = 0
    BY <1>1
  <2> QED BY <2>1, <2>2 DEF Owed
<1>7. Total(OwedTo(period.integral)) = 0
  BY <1>1, <1>6, SumZero DEF Total
<1>8. SCALE * (0 * (WeekEnd(period.ts) - period.ts)) = 0 /\ SCALE * 0 = 0
  BY <1>1, <1>5
<1>9. factorySDL = 0
  BY DEF Init
<1> QED BY <1>4, <1>7, <1>8, <1>9 DEF Covered

LEMMA CoveredInvNext == ASSUME ToThemselves, CoveredInv, [Next]_cgVars PROVE CoveredInv'
<1>1. GaugeInv /\ GaugeInv'
  BY GaugeInvNext DEF CoveredInv
<1>2. CASE \E us \in SUBSET Users, paid \in Int : Checkpoints(us, paid)
  BY <1>1, <1>2, CheckpointCovered DEF CoveredInv
<1>3. CASE Tick
  BY <1>1, <1>3
  DEF Tick, streamVars, stakeVars, CoveredInv, RatesEnd, Covered, LastRate, OwedTo, Owed, Weeks,
      WeekEnd, WeekOf
<1>4. CASE RewardsStay
  BY <1>1, <1>4
  DEF RewardsStay, CoveredInv, RatesEnd, Covered, LastRate, OwedTo, Owed, Weeks, WeekEnd, WeekOf
<1> QED BY <1>1, <1>2, <1>3, <1>4, Kinds

(* Minting never fails for want of SDL: the factory holds what all users   *)
(* together may mint and what they can earn until the week ends, for any   *)
(* order of deliveries, stakes and payments, as long as users withdraw to  *)
(* themselves.                                                             *)
THEOREM MintsAlwaysCovered == ASSUME ToThemselves PROVE Spec => []MintsAreCovered
<1>1. Spec => []CoveredInv
  <2>1. CoveredInv /\ [Next]_cgVars => CoveredInv'
    BY CoveredInvNext
  <2> QED BY <2>1, CoveredInvInit, PTL DEF Spec
<1>2. CoveredInv => MintsAreCovered
  <2> SUFFICES ASSUME CoveredInv PROVE MintsAreCovered
    OBVIOUS
  <2> DEFINE i      == IntegralNow
             unpaid == [u \in Users |-> Unpaid(u)]
             scaled == [u \in Users |-> SCALE * unpaid[u]]
  <2>1. GaugeInv /\ RatesEnd /\ IsFiniteSet(Users) /\ SCALE \in Nat \ {0} /\ SCALE \in Int
    BY ChildGaugeAssumption DEF CoveredInv
  <2>2. i \in Nat /\ period.integral <= i /\ factorySDL \in Nat /\ Scheduled \in Nat
    BY <2>1, IntegralGrows, ScheduledLeft DEF GaugeInv, StreamTyped
  <2>3. ASSUME NEW u \in Users
        PROVE  /\ unpaid[u] \in Int /\ scaled[u] \in Int
               /\ OwedTo(i)[u] \in Int /\ scaled[u] <= OwedTo(i)[u]
    <3> DEFINE e == FractionAt(u, i)
               c == integrate_fraction[u]
               m == minted[u]
               r == working_balances[u] * (i - integrate_inv_supply_of[u])
    <3>1. e \in Nat /\ SCALE * (e - c) <= r
      BY <2>1, <2>2, FractionGrows
    <3>2. c \in Nat /\ m \in Nat /\ r \in Int
      BY <2>1, <2>2 DEF GaugeInv, StreamTyped, StakesTyped
    <3>3. OwedTo(i)[u] = SCALE * (c - m) + r /\ OwedTo(i)[u] \in Int
      <4>1. OwedTo(i)[u] = Owed(u, i) /\ Owed(u, i) \in Int
        BY <2>1, <2>2, OwedType
      <4> QED BY <4>1 DEF Owed
    <3>4. unpaid[u] = e - m /\ scaled[u] = SCALE * (e - m)
      BY DEF Unpaid
    <3> HIDE DEF e, c, m, r, i, unpaid, scaled
    <3>5. /\ SCALE * (e - m) = SCALE * (e - c) + SCALE * (c - m)
          /\ SCALE * (e - c) \in Int /\ SCALE * (c - m) \in Int /\ e - m \in Int
      BY <2>1, <3>1, <3>2
    <3> QED BY <3>1, <3>2, <3>3, <3>4, <3>5
  <2>4. \A u \in Users : scaled[u] = SCALE * unpaid[u]
    OBVIOUS
  <2>5. Total(OwedTo(i)) + SCALE * Scheduled <= SCALE * factorySDL
    BY CoveredNow
  <2>6. MintsAreCovered <=> Total(unpaid) + Scheduled <= factorySDL
    BY DEF MintsAreCovered, SumFunction, Total
  <2> HIDE DEF i, unpaid, scaled
  <2>7. Total(scaled) = SCALE * Total(unpaid)
    BY <2>1, <2>3, <2>4, SumTimes DEF Total
  <2>8. Total(scaled) <= Total(OwedTo(i))
    BY <2>1, <2>3, SumMonotone DEF Total
  <2>9. Total(unpaid) \in Int /\ Total(OwedTo(i)) \in Int
    BY <2>1, <2>3, SumInt DEF Total
  <2> DEFINE need == Total(unpaid) + Scheduled
  <2>10. SCALE * need = SCALE * Total(unpaid) + SCALE * Scheduled /\ need \in Int
         /\ SCALE * Total(unpaid) \in Int /\ SCALE * Scheduled \in Int /\ SCALE * factorySDL \in Int
    BY <2>1, <2>2, <2>9
  <2>11. SCALE * need <= SCALE * factorySDL
    BY <2>5, <2>7, <2>8, <2>9, <2>10
  <2>12. \A a, b \in Int : SCALE * a <= SCALE * b => a <= b
    BY <2>1
  <2> QED BY <2>2, <2>6, <2>10, <2>11, <2>12
<1> QED BY <1>1, <1>2, PTL
==============================================================================
