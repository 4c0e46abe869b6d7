------------------------------ MODULE SwapProofs ------------------------------
(***************************************************************************)
(* Proofs about Swap, for every number of users and tokens, all            *)
(* multipliers, fees and amounts, and whatever numbers getD, getY and      *)
(* getYD return: custody does not depend on the curve being right.         *)
(***************************************************************************)
EXTENDS Swap, AmplificationProofs

PoolInv == TypeOK /\ Solvent
SwapInv == AmpInv /\ PoolInv

(* What u gains of LP tokens, the supply gains.                            *)
LPMoves(u) ==
  /\ \A v \in Users \ {u} : lp'[v] = lp[v]
  /\ totalSupply' - totalSupply = lp'[u] - lp[u]

(* A fee is a natural number and no more than what it is taken from.       *)
LEMMA FeeIsPart ==
  ASSUME NEW x \in Nat, NEW f \in Nat, SwapAssumption, f <= FEE_DENOMINATOR
  PROVE  (x * f) \div FEE_DENOMINATOR \in 0 .. x
  BY PartOf DEF SwapAssumption

LEMMA FeesAreLegal ==
  ASSUME SwapAssumption, TypeOK
  PROVE  /\ swapFee \in Nat /\ swapFee <= FEE_DENOMINATOR
         /\ adminFee \in Nat /\ adminFee <= FEE_DENOMINATOR
  BY DEF SwapAssumption, TypeOK

LEMMA ReceivedIsNat ==
  ASSUME NEW i \in Tokens, NEW amount \in Nat, SwapAssumption
  PROVE  Received(i, amount) \in Nat
  BY DEF Received, SwapAssumption

(* Fees on an imbalance are natural numbers, and the owner's share of them *)
(* is no more than the fees.                                               *)
LEMMA ImbalanceFeesAreNats ==
  ASSUME SwapAssumption, TypeOK,
         NEW old \in [Tokens -> Nat], NEW new \in [Tokens -> Nat],
         NEW d0 \in Nat \ {0}, NEW d1 \in Nat
  PROVE  ImbalanceFees(old, new, d0, d1) \in [Tokens -> Nat]
<1>1. FeePerToken(swapFee, N) \in Nat
  <2>1. swapFee * N \in Nat /\ (N - 1) * 4 \in Nat \ {0}
    BY SMT DEF SwapAssumption, TypeOK
  <2> QED BY <2>1, DivDef DEF FeePerToken
<1> DEFINE per == FeePerToken(swapFee, N)
<1> HIDE DEF per
<1>2. SUFFICES ASSUME NEW i \in Tokens
               PROVE  (per * Difference((d1 * old[i]) \div d0, new[i])) \div FEE_DENOMINATOR \in Nat
  BY DEF ImbalanceFees, per
<1>3. d1 * old[i] \in Nat
  BY SMT
<1>4. (d1 * old[i]) \div d0 \in Nat
  BY <1>3, DivDef
<1> DEFINE diff == Difference((d1 * old[i]) \div d0, new[i])
<1>5. diff \in Nat
  BY <1>4 DEF Difference
<1> HIDE DEF diff
<1>6. per * diff \in Nat
  BY <1>1, <1>5, SMT DEF per
<1>7. (per * diff) \div FEE_DENOMINATOR \in Nat
  BY <1>6, DivDef DEF SwapAssumption
<1> QED BY <1>7 DEF diff

LEMMA AdminShareIsPart ==
  ASSUME SwapAssumption, TypeOK, NEW fees \in [Tokens -> Nat]
  PROVE  /\ AdminShare(fees) \in [Tokens -> Nat]
         /\ Covers(fees, AdminShare(fees))
<1>1. ASSUME NEW i \in Tokens PROVE (fees[i] * adminFee) \div FEE_DENOMINATOR \in 0 .. fees[i]
  BY FeeIsPart DEF TypeOK, SwapAssumption
<1>2. ASSUME NEW i \in Tokens PROVE fees[i] \in Nat
  OBVIOUS
<1> QED BY <1>1, <1>2 DEF AdminShare, Covers

-----------------------------------------------------------------------------
LEMMA SwapTokensKeepsInv ==
  ASSUME SwapAssumption, PoolInv,
         NEW u \in Users, NEW i \in Tokens, NEW j \in Tokens,
         NEW dx \in SwapAmounts, NEW minDy \in Minimums,
         SwapTokens(u, i, j, dx, minDy)
  PROVE  PoolInv' /\ Covers(Minus(held', balances'), Minus(held, balances))
<1> USE DEF PoolInv
<1> DEFINE got     == Credited(i, dx)
           xp      == Xp(balances)
           y       == GetY(APrecise, i, j, xp[i] + got * Multipliers[i], xp)
           gross   == xp[j] - y - 1
           fee     == (gross * swapFee) \div FEE_DENOMINATOR
           dy      == (gross - fee) \div Multipliers[j]
           toAdmin == ((fee * adminFee) \div FEE_DENOMINATOR) \div Multipliers[j]
<1>1. /\ i # j
      /\ dx <= wallet[u][i]
      /\ y \in Nat
      /\ gross >= 0
      /\ dy + toAdmin <= balances[j]
      /\ dy <= held[j]
      /\ balances' = [balances EXCEPT ![i] = @ + got, ![j] = @ - dy - toAdmin]
      /\ held' = [held EXCEPT ![i] = @ + Received(i, dx), ![j] = @ - dy]
      /\ wallet' = [wallet EXCEPT ![u][i] = @ - dx, ![u][j] = @ + Received(j, dy)]
      /\ UNCHANGED <<ampVars, swapFee, adminFee, lp, totalSupply, paused>>
  BY DEF SwapTokens
<1>2. dx \in Nat /\ got \in Nat /\ got = Received(i, dx)
  BY ReceivedIsNat DEF SwapAssumption, Credited
<1>3. xp[j] \in Nat
  <2>1. balances[j] * Multipliers[j] \in Nat
    BY DEF TypeOK, SwapAssumption
  <2> QED BY <2>1 DEF Xp
<1> HIDE DEF y
<1>4. gross \in Nat
  BY <1>1, <1>3
<1> HIDE DEF gross
<1>5. fee \in 0 .. gross
  BY <1>4, FeeIsPart, FeesAreLegal
<1> HIDE DEF fee
<1>6. dy \in Nat
  BY <1>4, <1>5, DivDef DEF SwapAssumption
<1>7. toAdmin \in Nat
  <2>1. fee \in Nat
    BY <1>4, <1>5
  <2>2. (fee * adminFee) \div FEE_DENOMINATOR \in Nat
    BY <2>1, FeeIsPart, FeesAreLegal
  <2> QED BY <2>2, DivDef DEF SwapAssumption
<1>8. Received(j, dy) \in Nat
  BY <1>6, ReceivedIsNat
<1> HIDE DEF got, xp, dy, toAdmin
<1>9. TypeOK'
  BY <1>1, <1>2, <1>6, <1>7, <1>8 DEF TypeOK, AmpTypeOK, ampVars, rampVars, Accounts
<1>10. Solvent'
  BY <1>1, <1>2, <1>6, <1>7 DEF TypeOK, Solvent, Covers
<1>11. Covers(Minus(held', balances'), Minus(held, balances))
  BY <1>1, <1>2, <1>6, <1>7 DEF TypeOK, Covers, Minus
<1> QED BY <1>9, <1>10, <1>11

LEMMA AddLiquidityKeepsInv ==
  ASSUME SwapAssumption, PoolInv,
         NEW u \in Users, NEW amounts \in LiquidityAmounts, NEW minToMint \in Minimums,
         AddLiquidity(u, amounts, minToMint)
  PROVE  PoolInv' /\ Covers(Minus(held', balances'), Minus(held, balances)) /\ LPMoves(u)
<1> USE DEF PoolInv
<1> DEFINE got    == [i \in Tokens |-> Credited(i, amounts[i])]
           first  == totalSupply = 0
           d0     == IF first THEN 0 ELSE Invariant(balances)
           new    == Plus(balances, got)
           d1     == Invariant(new)
           fees   == IF first THEN [i \in Tokens |-> 0]
                              ELSE ImbalanceFees(balances, new, d0, d1)
           d2     == IF first THEN d1 ELSE Invariant(Minus(new, fees))
           toMint == IF first THEN d1 ELSE ((d2 - d0) * totalSupply) \div d0
<1>1. /\ Covers(wallet[u], amounts)
      /\ d0 \in Nat /\ d1 \in Nat
      /\ ~first => d0 > 0
      /\ Covers(new, fees)
      /\ d2 \in Nat
      /\ d2 >= d0
      /\ balances' = Minus(new, AdminShare(fees))
      /\ held' = [i \in Tokens |-> held[i] + Received(i, amounts[i])]
      /\ wallet' = [wallet EXCEPT ![u] = Minus(@, amounts)]
      /\ lp' = [lp EXCEPT ![u] = @ + toMint]
      /\ totalSupply' = totalSupply + toMint
      /\ UNCHANGED <<ampVars, swapFee, adminFee, paused>>
  BY DEF AddLiquidity
<1>2. /\ amounts \in [Tokens -> Nat] /\ got \in [Tokens -> Nat]
      /\ \A i \in Tokens : got[i] = Received(i, amounts[i])
  BY ReceivedIsNat DEF SwapAssumption, Credited
<1> HIDE DEF got
<1>3. new \in [Tokens -> Nat] /\ \A i \in Tokens : new[i] = balances[i] + got[i]
  BY <1>2 DEF Plus, TypeOK
<1> HIDE DEF new, d0, d1
<1>4. fees \in [Tokens -> Nat]
  <2>1. CASE first
    BY <2>1
  <2>2. CASE ~first
    <3>1. balances \in [Tokens -> Nat] /\ d0 \in Nat \ {0}
      BY <1>1, <2>2 DEF TypeOK
    <3> HIDE DEF first
    <3>2. ImbalanceFees(balances, new, d0, d1) \in [Tokens -> Nat]
      BY <1>1, <1>3, <3>1, ImbalanceFeesAreNats
    <3> QED BY <2>2, <3>2
  <2> QED BY <2>1, <2>2
<1> HIDE DEF fees
<1>5. AdminShare(fees) \in [Tokens -> Nat] /\ Covers(fees, AdminShare(fees))
  BY <1>4, AdminShareIsPart
<1> DEFINE share == AdminShare(fees)
<1> HIDE DEF share, d2
<1>6. balances' \in [Tokens -> Nat] /\ \A i \in Tokens : balances'[i] = balances[i] + got[i] - share[i]
  BY <1>1, <1>2, <1>3, <1>4, <1>5 DEF Minus, Covers, share, TypeOK
<1>7. held' \in [Tokens -> Nat] /\ \A i \in Tokens : held'[i] = held[i] + got[i]
  BY <1>1, <1>2 DEF TypeOK
<1>8. toMint \in Nat
  <2>1. CASE first
    BY <1>1, <2>1
  <2>2. CASE ~first
    <3>1. (d2 - d0) * totalSupply \in Nat
      BY <1>1, SMT DEF TypeOK
    <3> QED BY <1>1, <2>2, <3>1, DivDef
  <2> QED BY <2>1, <2>2
<1> HIDE DEF toMint, first
<1>9. wallet' \in [Accounts -> [Tokens -> Nat]]
  <2>1. Minus(wallet[u], amounts) \in [Tokens -> Nat]
    BY <1>1, <1>2 DEF Minus, Covers, TypeOK, Accounts
  <2> QED BY <1>1, <2>1 DEF TypeOK, Accounts
<1>10. TypeOK'
  BY <1>1, <1>6, <1>7, <1>8, <1>9 DEF TypeOK, AmpTypeOK, ampVars, rampVars
<1>11. \A i \in Tokens : share[i] \in Nat /\ got[i] \in Nat
  BY <1>2, <1>5 DEF share
<1>12. Solvent'
  BY <1>6, <1>7, <1>11 DEF TypeOK, Solvent, Covers
<1>13. Covers(Minus(held', balances'), Minus(held, balances))
  BY <1>6, <1>7, <1>11 DEF TypeOK, Covers, Minus
<1>14. LPMoves(u)
  BY <1>1, <1>8 DEF LPMoves, TypeOK
<1> QED BY <1>10, <1>12, <1>13, <1>14

LEMMA RemoveLiquidityKeepsInv ==
  ASSUME SwapAssumption, PoolInv,
         NEW u \in Users, NEW amount \in Nat, NEW minAmount \in Minimums,
         RemoveLiquidity(u, amount, minAmount)
  PROVE  PoolInv' /\ Covers(Minus(held', balances'), Minus(held, balances))
<1> USE DEF PoolInv
<1> DEFINE amounts == CalculateRemoveLiquidity(amount)
<1>1. /\ totalSupply > 0
      /\ Burns(u, amount)
      /\ Covers(held, amounts)
      /\ balances' = Minus(balances, amounts)
      /\ held' = Minus(held, amounts)
      /\ wallet' = [wallet EXCEPT ![u] =
                      [i \in Tokens |-> @[i] + Received(i, amounts[i])]]
      /\ UNCHANGED <<ampVars, swapFee, adminFee, paused>>
  BY DEF RemoveLiquidity
<1>2. \A i \in Tokens : amounts[i] \in 0 .. balances[i]
  BY <1>1, PartOf DEF Burns, TypeOK, CalculateRemoveLiquidity
<1> HIDE DEF amounts
<1>3. \A i \in Tokens : Received(i, amounts[i]) \in Nat
  BY <1>2, ReceivedIsNat DEF TypeOK
<1>4. balances' \in [Tokens -> Nat] /\ \A i \in Tokens : balances'[i] = balances[i] - amounts[i]
  BY <1>1, <1>2 DEF Minus, TypeOK
<1>5. held' \in [Tokens -> Nat] /\ \A i \in Tokens : held'[i] = held[i] - amounts[i]
  BY <1>1, <1>2 DEF Minus, Covers, TypeOK
<1>6. wallet' \in [Accounts -> [Tokens -> Nat]]
  BY <1>1, <1>3 DEF TypeOK, Accounts
<1>7. lp' \in [Users -> Nat] /\ totalSupply' \in Nat
  BY <1>1 DEF Burns, TypeOK
<1>8. TypeOK'
  BY <1>1, <1>4, <1>5, <1>6, <1>7 DEF TypeOK, AmpTypeOK, ampVars, rampVars
<1>9. Solvent'
  BY <1>2, <1>4, <1>5 DEF TypeOK, Solvent, Covers
<1>10. Covers(Minus(held', balances'), Minus(held, balances))
  BY <1>2, <1>4, <1>5 DEF TypeOK, Covers, Minus
<1> QED BY <1>8, <1>9, <1>10

LEMMA RemoveLiquidityOneTokenKeepsInv ==
  ASSUME SwapAssumption, PoolInv,
         NEW u \in Users, NEW amount \in Nat, NEW i \in Tokens, NEW minAmount \in Minimums,
         RemoveLiquidityOneToken(u, amount, i, minAmount)
  PROVE  PoolInv' /\ Covers(Minus(held', balances'), Minus(held, balances))
<1> USE DEF PoolInv
<1> DEFINE a       == APrecise
           xp      == Xp(balances)
           d0      == GetD(xp, a)
           d1      == d0 - (amount * d0) \div totalSupply
           newY    == GetYD(a, i, xp, d1)
           perFee  == FeePerToken(swapFee, N)
           ideal   == [k \in Tokens |-> (xp[k] * d1) \div d0]
           taken   == [k \in Tokens |-> IF k = i THEN ideal[k] - newY ELSE xp[k] - ideal[k]]
           reduced == [k \in Tokens |-> xp[k] - (taken[k] * perFee) \div FEE_DENOMINATOR]
           y       == GetYD(a, i, reduced, d1)
           dy      == (reduced[i] - y - 1) \div Multipliers[i]
           dyFee   == (xp[i] - newY) \div Multipliers[i] - dy
           toAdmin == (dyFee * adminFee) \div FEE_DENOMINATOR
           leaves  == dy + (dyFee * adminFee) \div FEE_DENOMINATOR
<1>1. /\ Burns(u, amount)
      /\ newY \in Nat
      /\ \A k \in Tokens : taken[k] >= 0 /\ reduced[k] >= 0
      /\ y \in Nat
      /\ reduced[i] >= y + 1
      /\ dyFee >= 0
      /\ leaves <= balances[i]
      /\ balances' = [balances EXCEPT ![i] = @ - leaves]
      /\ Pays(i, dy, u)
      /\ UNCHANGED <<ampVars, swapFee, adminFee, paused>>
  BY DEF RemoveLiquidityOneToken
<1>2. \A k \in Tokens : xp[k] \in Nat
  <2>1. ASSUME NEW k \in Tokens PROVE balances[k] * Multipliers[k] \in Nat
    BY DEF TypeOK, SwapAssumption
  <2> QED BY <2>1 DEF Xp
<1> HIDE DEF xp, newY
<1>3. taken[i] \in Nat
  <2> DEFINE idealI == (xp[i] * d1) \div d0
  <2>1. taken[i] = idealI - newY
    OBVIOUS
  <2>2. taken[i] >= 0
    BY <1>1
  <2>3. xp[i] \in Nat /\ newY \in Nat
    BY <1>1, <1>2
  <2>4. d0 \in Nat \ {0} /\ totalSupply > 0
    BY DEF RemoveLiquidityOneToken, xp
  <2> HIDE DEF d0
  <2>5. d1 \in Int
    <3>1. amount * d0 \in Nat
      BY <2>4, SMT
    <3>2. totalSupply \in Nat \ {0}
      BY <2>4 DEF TypeOK
    <3>3. (amount * d0) \div totalSupply \in Nat
      BY <3>1, <3>2, DivDef
    <3> QED BY <2>4, <3>3
  <2> HIDE DEF d1
  <2>6. idealI \in Int
    <3>1. xp[i] * d1 \in Int
      BY <2>3, <2>5, SMT
    <3> HIDE DEF xp
    <3> QED BY <2>4, <3>1, SMT
  <2> HIDE DEF idealI, taken
  <2> QED BY <2>1, <2>2, <2>3, <2>6
<1> HIDE DEF taken
<1>4. reduced[i] \in Nat
  <2>1. perFee \in Nat
    <3>1. swapFee * N \in Nat /\ (N - 1) * 4 \in Nat \ {0}
      BY SMT DEF SwapAssumption, TypeOK
    <3> QED BY <3>1, DivDef DEF FeePerToken
  <2> HIDE DEF perFee
  <2>2. taken[i] * perFee \in Nat
    BY <1>3, <2>1, SMT
  <2>3. (taken[i] * perFee) \div FEE_DENOMINATOR \in Nat
    BY <2>2, DivDef DEF SwapAssumption
  <2>4. reduced[i] >= 0
    BY <1>1
  <2> QED BY <1>2, <2>3, <2>4
<1> HIDE DEF reduced, y
<1>5. dy \in Nat
  <2>1. reduced[i] - y - 1 \in Nat
    BY <1>1, <1>4
  <2> QED BY <2>1, DivDef DEF SwapAssumption
<1> HIDE DEF dy
<1>6. dyFee \in Nat
  <2>1. xp[i] - newY \in Int /\ Multipliers[i] \in Nat \ {0}
    BY <1>1, <1>2 DEF SwapAssumption
  <2>2. (xp[i] - newY) \div Multipliers[i] \in Int
    BY <2>1, SMT
  <2> QED BY <1>1, <1>5, <2>2
<1> HIDE DEF dyFee
<1>7. toAdmin \in Nat
  BY <1>6, FeeIsPart, FeesAreLegal
<1>8. leaves = dy + toAdmin
  OBVIOUS
<1> HIDE DEF toAdmin, leaves
<1>9. Received(i, dy) \in Nat
  BY <1>5, ReceivedIsNat
<1>10. TypeOK'
  BY <1>1, <1>5, <1>7, <1>8, <1>9
  DEF TypeOK, AmpTypeOK, ampVars, rampVars, Accounts, Burns, Pays
<1>11. Solvent'
  BY <1>1, <1>5, <1>7, <1>8 DEF TypeOK, Solvent, Covers, Pays
<1>12. Covers(Minus(held', balances'), Minus(held, balances))
  BY <1>1, <1>5, <1>7, <1>8 DEF TypeOK, Covers, Minus, Pays
<1> QED BY <1>10, <1>11, <1>12

LEMMA RemoveLiquidityImbalanceKeepsInv ==
  ASSUME SwapAssumption, PoolInv,
         NEW u \in Users, NEW amounts \in LiquidityAmounts, NEW maxBurnAmount \in Nat,
         RemoveLiquidityImbalance(u, amounts, maxBurnAmount)
  PROVE  PoolInv' /\ Covers(Minus(held', balances'), Minus(held, balances)) /\ LPMoves(u)
<1> USE DEF PoolInv
<1> DEFINE d0   == Invariant(balances)
           new  == Minus(balances, amounts)
           d1   == Invariant(new)
           fees == ImbalanceFees(balances, new, d0, d1)
           d2   == Invariant(Minus(new, fees))
           cost == ((d0 - d2) * totalSupply) \div d0
<1>1. /\ d0 \in Nat \ {0}
      /\ Covers(balances, amounts)
      /\ d1 \in Nat
      /\ Covers(new, fees)
      /\ d2 \in Nat
      /\ d0 >= d2
      /\ Burns(u, cost + 1)
      /\ Covers(held, amounts)
      /\ balances' = Minus(new, AdminShare(fees))
      /\ held' = Minus(held, amounts)
      /\ wallet' = [wallet EXCEPT ![u] =
                      [i \in Tokens |-> @[i] + Received(i, amounts[i])]]
      /\ UNCHANGED <<ampVars, swapFee, adminFee, paused>>
  BY DEF RemoveLiquidityImbalance
<1>2. amounts \in [Tokens -> Nat]
  BY DEF SwapAssumption
<1>3. new \in [Tokens -> Nat] /\ \A i \in Tokens : new[i] = balances[i] - amounts[i]
  BY <1>1, <1>2 DEF Minus, Covers, TypeOK
<1> HIDE DEF new, d0, d1
<1>4. fees \in [Tokens -> Nat]
  <2>1. balances \in [Tokens -> Nat]
    BY DEF TypeOK
  <2> QED BY <1>1, <1>3, <2>1, ImbalanceFeesAreNats
<1> HIDE DEF fees, d2
<1>5. AdminShare(fees) \in [Tokens -> Nat] /\ Covers(fees, AdminShare(fees))
  BY <1>4, AdminShareIsPart
<1> DEFINE share == AdminShare(fees)
<1> HIDE DEF share
<1>6. balances' \in [Tokens -> Nat]
      /\ \A i \in Tokens : balances'[i] = balances[i] - amounts[i] - share[i]
  BY <1>1, <1>2, <1>3, <1>4, <1>5 DEF Minus, Covers, share, TypeOK
<1>7. held' \in [Tokens -> Nat] /\ \A i \in Tokens : held'[i] = held[i] - amounts[i]
  BY <1>1, <1>2 DEF Minus, Covers, TypeOK
<1>8. cost \in Nat
  <2>1. (d0 - d2) * totalSupply \in Nat
    BY <1>1, SMT DEF TypeOK
  <2> QED BY <1>1, <2>1, DivDef
<1> HIDE DEF cost
<1>9. lp' \in [Users -> Nat] /\ totalSupply' \in Nat
  BY <1>1, <1>8 DEF Burns, TypeOK
<1>10. wallet' \in [Accounts -> [Tokens -> Nat]]
  <2>1. \A i \in Tokens : Received(i, amounts[i]) \in Nat
    BY <1>2, ReceivedIsNat
  <2> QED BY <1>1, <2>1 DEF TypeOK, Accounts
<1>11. TypeOK'
  BY <1>1, <1>6, <1>7, <1>9, <1>10 DEF TypeOK, AmpTypeOK, ampVars, rampVars
<1>12. \A i \in Tokens : share[i] \in Nat /\ amounts[i] \in Nat
  BY <1>2, <1>5 DEF share
<1>13. Solvent'
  BY <1>6, <1>7, <1>12 DEF TypeOK, Solvent, Covers
<1>14. Covers(Minus(held', balances'), Minus(held, balances))
  BY <1>6, <1>7, <1>12 DEF TypeOK, Covers, Minus
<1>15. LPMoves(u)
  BY <1>1, <1>8 DEF LPMoves, TypeOK, Burns
<1> QED BY <1>11, <1>13, <1>14, <1>15

LEMMA WithdrawAdminFeesKeepsInv ==
  ASSUME SwapAssumption, PoolInv, WithdrawAdminFees
  PROVE  PoolInv'
<1> USE DEF PoolInv
<1>1. \A i \in Tokens : held[i] - balances[i] \in Nat
  BY DEF Solvent, Covers, TypeOK
<1>2. \A i \in Tokens : Received(i, held[i] - balances[i]) \in Nat
  BY <1>1, ReceivedIsNat
<1>3. TypeOK'
  BY <1>2 DEF WithdrawAdminFees, TypeOK, AmpTypeOK, ampVars, rampVars, Accounts
<1>4. Solvent'
  BY DEF WithdrawAdminFees, Solvent, Covers, TypeOK
<1> QED BY <1>3, <1>4

(* The other operations on the pool touch fees, the pause or LP tokens, or *)
(* bring tokens the pool does not account for.                             *)
LEMMA OtherStepsKeepInv ==
  ASSUME SwapAssumption, PoolInv,
         \/ \E f \in AdminFees : SetAdminFee(f)
         \/ \E f \in SwapFees : SetSwapFee(f)
         \/ Pause
         \/ Unpause
         \/ \E u \in Users, i \in Tokens, amount \in SwapAmounts : SendToPool(u, i, amount)
         \/ \E u, v \in Users, amount \in Nat : TransferLP(u, v, amount)
         \/ \E u \in Users, amount \in Nat : BurnLP(u, amount)
  PROVE  PoolInv' /\ Covers(Minus(held', balances'), Minus(held, balances))
<1> USE DEF PoolInv
<1>1. ASSUME NEW f \in AdminFees, SetAdminFee(f)
      PROVE  PoolInv' /\ Covers(Minus(held', balances'), Minus(held, balances))
  BY <1>1 DEF SetAdminFee, TypeOK, Solvent, Covers, Minus, AmpTypeOK, ampVars, rampVars, SwapAssumption
<1>2. ASSUME NEW f \in SwapFees, SetSwapFee(f)
      PROVE  PoolInv' /\ Covers(Minus(held', balances'), Minus(held, balances))
  BY <1>2 DEF SetSwapFee, TypeOK, Solvent, Covers, Minus, AmpTypeOK, ampVars, rampVars, SwapAssumption
<1>3. CASE Pause \/ Unpause
  <2>1. paused' \in BOOLEAN
    BY <1>3 DEF Pause, Unpause
  <2>2. UNCHANGED <<ampVars, swapFee, adminFee, balances, held, wallet, lp, totalSupply>>
    BY <1>3 DEF Pause, Unpause
  <2>3. TypeOK'
    BY <2>1, <2>2 DEF TypeOK, AmpTypeOK, ampVars, rampVars
  <2>4. Solvent' /\ Covers(Minus(held', balances'), Minus(held, balances))
    BY <2>2 DEF TypeOK, Solvent, Covers, Minus
  <2> QED BY <2>3, <2>4
<1>4. ASSUME NEW u \in Users, NEW i \in Tokens, NEW amount \in SwapAmounts, SendToPool(u, i, amount)
      PROVE  PoolInv' /\ Covers(Minus(held', balances'), Minus(held, balances))
  <2>1. amount \in Nat /\ Received(i, amount) \in Nat
    BY ReceivedIsNat DEF SwapAssumption
  <2> QED BY <1>4, <2>1 DEF SendToPool, TypeOK, Solvent, Covers, Minus, AmpTypeOK, ampVars,
                            rampVars, Accounts
<1>5. ASSUME NEW u \in Users, NEW v \in Users, NEW amount \in Nat, TransferLP(u, v, amount)
      PROVE  PoolInv' /\ Covers(Minus(held', balances'), Minus(held, balances))
  BY <1>5 DEF TransferLP, TypeOK, Solvent, Covers, Minus, AmpTypeOK, ampVars, rampVars
<1>6. ASSUME NEW u \in Users, NEW amount \in Nat, BurnLP(u, amount)
      PROVE  PoolInv' /\ Covers(Minus(held', balances'), Minus(held, balances))
  BY <1>6 DEF BurnLP, Burns, TypeOK, Solvent, Covers, Minus, AmpTypeOK, ampVars, rampVars
<1> QED BY <1>1, <1>2, <1>3, <1>4, <1>5, <1>6

-----------------------------------------------------------------------------
LEMMA SharesAreNats ==
  ASSUME SwapAssumption, TypeOK, NEW u \in Users, NEW parts, parts \subseteq Nat \ {0}
  PROVE  Shares(u, parts) \subseteq Nat
  BY DivDef DEF Shares, TypeOK

(* What a user or the owner does to the pool keeps the invariant, and only *)
(* withdrawAdminFees lowers the fees the pool holds for the owner.         *)
LEMMA PoolStepsKeepInv ==
  ASSUME SwapAssumption, PoolInv, (\E u \in Users : UserNext(u)) \/ OwnerNext
  PROVE  /\ PoolInv'
         /\ WithdrawAdminFees \/ Covers(Minus(held', balances'), Minus(held, balances))
<1>0. BurnShares \subseteq Nat \ {0} /\ GiftShares \subseteq Nat \ {0}
  BY DEF SwapAssumption
<1>1. ASSUME NEW u \in Users, UserNext(u)
      PROVE  PoolInv' /\ Covers(Minus(held', balances'), Minus(held, balances))
  <2>0. Shares(u, BurnShares) \subseteq Nat /\ Shares(u, GiftShares) \subseteq Nat
    BY <1>0, SharesAreNats DEF PoolInv
  <2>1. ASSUME NEW i \in Tokens, NEW j \in Tokens, NEW dx \in SwapAmounts, NEW m \in Minimums,
               SwapTokens(u, i, j, dx, m)
        PROVE  PoolInv' /\ Covers(Minus(held', balances'), Minus(held, balances))
    BY <2>1, SwapTokensKeepsInv
  <2>2. ASSUME NEW amounts \in LiquidityAmounts, NEW m \in Minimums, AddLiquidity(u, amounts, m)
        PROVE  PoolInv' /\ Covers(Minus(held', balances'), Minus(held, balances))
    BY <2>2, AddLiquidityKeepsInv
  <2>3. ASSUME NEW amount \in Shares(u, BurnShares), NEW m \in Minimums,
               RemoveLiquidity(u, amount, m)
        PROVE  PoolInv' /\ Covers(Minus(held', balances'), Minus(held, balances))
    <3>1. amount \in Nat
      BY <2>0
    <3> QED BY <2>3, <3>1, RemoveLiquidityKeepsInv
  <2>4. ASSUME NEW amount \in Shares(u, BurnShares), NEW i \in Tokens, NEW m \in Minimums,
               RemoveLiquidityOneToken(u, amount, i, m)
        PROVE  PoolInv' /\ Covers(Minus(held', balances'), Minus(held, balances))
    <3>1. amount \in Nat
      BY <2>0
    <3> QED BY <2>4, <3>1, RemoveLiquidityOneTokenKeepsInv
  <2>5. ASSUME NEW amounts \in LiquidityAmounts, NEW most \in Shares(u, BurnShares),
               RemoveLiquidityImbalance(u, amounts, most)
        PROVE  PoolInv' /\ Covers(Minus(held', balances'), Minus(held, balances))
    <3>1. most \in Nat
      BY <2>0
    <3> QED BY <2>5, <3>1, RemoveLiquidityImbalanceKeepsInv
  <2>6. ASSUME NEW i \in Tokens, NEW amount \in SwapAmounts, SendToPool(u, i, amount)
        PROVE  PoolInv' /\ Covers(Minus(held', balances'), Minus(held, balances))
    BY <2>6, OtherStepsKeepInv
  <2>7. ASSUME NEW v \in Users, NEW amount \in Shares(u, GiftShares), TransferLP(u, v, amount)
        PROVE  PoolInv' /\ Covers(Minus(held', balances'), Minus(held, balances))
    <3>1. amount \in Nat
      BY <2>0
    <3> QED BY <2>7, <3>1, OtherStepsKeepInv
  <2>8. ASSUME NEW amount \in Shares(u, GiftShares), BurnLP(u, amount)
        PROVE  PoolInv' /\ Covers(Minus(held', balances'), Minus(held, balances))
    <3>1. amount \in Nat
      BY <2>0
    <3> QED BY <2>8, <3>1, OtherStepsKeepInv
  <2> QED BY <1>1, <2>1, <2>2, <2>3, <2>4, <2>5, <2>6, <2>7, <2>8 DEF UserNext
<1>2. CASE OwnerNext
  <2>1. CASE WithdrawAdminFees
    BY <2>1, WithdrawAdminFeesKeepsInv
  <2>2. CASE ~WithdrawAdminFees
    BY <1>2, <2>2, OtherStepsKeepInv DEF OwnerNext
  <2> QED BY <2>1, <2>2
<1> QED BY <1>1, <1>2

LEMMA SwapInvInit ==
  ASSUME SwapAssumption, AmplificationAssumption, Init
  PROVE  SwapInv
<1>1. AmpInv
  BY AmpInvInit DEF Init
<1>2. TypeOK
  <2>1. swapFee \in 0 .. MAX_SWAP_FEE /\ adminFee \in 0 .. MAX_ADMIN_FEE
    BY DEF Init, SwapAssumption
  <2>2. wallet \in [Accounts -> [Tokens -> Nat]]
    BY DEF Init, SwapAssumption
  <2>3. balances \in [Tokens -> Nat] /\ held \in [Tokens -> Nat] /\ lp \in [Users -> Nat]
    BY DEF Init
  <2>4. totalSupply \in Nat /\ paused \in BOOLEAN
    BY DEF Init
  <2> QED BY <1>1, <2>1, <2>2, <2>3, <2>4 DEF TypeOK, AmpInv
<1>3. Solvent
  BY DEF Init, Solvent, Covers
<1> QED BY <1>1, <1>2, <1>3 DEF SwapInv, PoolInv

LEMMA SwapInvNext ==
  ASSUME SwapAssumption, AmplificationAssumption, SwapInv, [Next]_vars
  PROVE  /\ SwapInv'
         /\ \/ WithdrawAdminFees
            \/ Covers(Minus(held', balances'), Minus(held, balances))
<1> USE DEF SwapInv
<1>1. CASE (\E u \in Users : UserNext(u)) \/ OwnerNext
  <2>1. /\ PoolInv'
        /\ WithdrawAdminFees \/ Covers(Minus(held', balances'), Minus(held, balances))
    BY <1>1, PoolStepsKeepInv
  <2>2. UNCHANGED ampVars
    <3>1. ASSUME NEW u \in Users, UserNext(u) PROVE UNCHANGED ampVars
      <4>1. ASSUME NEW i \in Tokens, NEW j \in Tokens, NEW dx \in SwapAmounts,
                   NEW m \in Minimums, SwapTokens(u, i, j, dx, m)
            PROVE  UNCHANGED ampVars
        BY <4>1 DEF SwapTokens
      <4>2. ASSUME NEW amounts \in LiquidityAmounts, NEW m \in Minimums,
                   AddLiquidity(u, amounts, m)
            PROVE  UNCHANGED ampVars
        BY <4>2 DEF AddLiquidity
      <4>3. ASSUME NEW amount, NEW m \in Minimums, RemoveLiquidity(u, amount, m)
            PROVE  UNCHANGED ampVars
        BY <4>3 DEF RemoveLiquidity
      <4>4. ASSUME NEW amount, NEW i \in Tokens, NEW m \in Minimums,
                   RemoveLiquidityOneToken(u, amount, i, m)
            PROVE  UNCHANGED ampVars
        BY <4>4 DEF RemoveLiquidityOneToken
      <4>5. ASSUME NEW amounts \in LiquidityAmounts, NEW most,
                   RemoveLiquidityImbalance(u, amounts, most)
            PROVE  UNCHANGED ampVars
        BY <4>5 DEF RemoveLiquidityImbalance
      <4>6. ASSUME NEW i \in Tokens, NEW amount \in SwapAmounts, SendToPool(u, i, amount)
            PROVE  UNCHANGED ampVars
        BY <4>6 DEF SendToPool
      <4>7. ASSUME NEW v \in Users, NEW amount, TransferLP(u, v, amount) \/ BurnLP(u, amount)
            PROVE  UNCHANGED ampVars
        BY <4>7 DEF TransferLP, BurnLP
      <4> QED BY <3>1, <4>1, <4>2, <4>3, <4>4, <4>5, <4>6, <4>7 DEF UserNext
    <3>2. ASSUME OwnerNext PROVE UNCHANGED ampVars
      BY <3>2 DEF OwnerNext, WithdrawAdminFees, SetAdminFee, SetSwapFee, Pause, Unpause
    <3> QED BY <1>1, <3>1, <3>2
  <2>3. AmpInv'
    BY <2>2, AmpInvNext
  <2> QED BY <2>1, <2>3
<1>2. CASE [AmpNext]_ampVars /\ UNCHANGED poolVars
  <2>1. AmpInv'
    BY <1>2, AmpInvNext
  <2>2. PoolInv'
    BY <1>2, <2>1 DEF poolVars, PoolInv, TypeOK, AmpInv, Solvent, Covers
  <2>3. Covers(Minus(held', balances'), Minus(held, balances))
    BY <1>2 DEF poolVars, PoolInv, Covers, Minus, TypeOK
  <2> QED BY <2>1, <2>2, <2>3
<1>3. CASE UNCHANGED vars
  BY <1>2, <1>3 DEF vars, poolVars
<1> QED BY <1>1, <1>2, <1>3 DEF Next

(* Types, legal fees and the shape of the ramp are invariants of the pool. *)
THEOREM PoolTypeCorrect == Spec => []TypeOK
<1>1. Init => SwapInv
  BY SwapInvInit, SwapAssumption, AmplificationAssumption
<1>2. SwapInv /\ [Next]_vars => SwapInv'
  BY SwapInvNext, SwapAssumption, AmplificationAssumption
<1>3. SwapInv => TypeOK
  BY DEF SwapInv, PoolInv
<1> QED BY <1>1, <1>2, <1>3, PTL DEF Spec

(* Every token the pool accounts for is a token it holds, for any curve.   *)
THEOREM PoolSolvent == Spec => []Solvent
<1>1. Init => SwapInv
  BY SwapInvInit, SwapAssumption, AmplificationAssumption
<1>2. SwapInv /\ [Next]_vars => SwapInv'
  BY SwapInvNext, SwapAssumption, AmplificationAssumption
<1>3. SwapInv => Solvent
  BY DEF SwapInv, PoolInv
<1> QED BY <1>1, <1>2, <1>3, PTL DEF Spec

(* The owner's uncollected fees of every token never shrink: no swap,      *)
(* deposit or withdrawal, whatever the curve answers, is paid out of them. *)
THEOREM PoolAdminFeesSafe == Spec => AdminFeesAreSafe
<1>1. Init => SwapInv
  BY SwapInvInit, SwapAssumption, AmplificationAssumption
<1>2. SwapInv /\ [Next]_vars => SwapInv'
  BY SwapInvNext, SwapAssumption, AmplificationAssumption
<1>3. SwapInv /\ [Next]_vars =>
        [WithdrawAdminFees \/ Covers(Minus(held', balances'), Minus(held, balances))]_vars
  BY SwapInvNext, SwapAssumption, AmplificationAssumption
<1> QED BY <1>1, <1>2, <1>3, PTL DEF Spec, AdminFeesAreSafe

-----------------------------------------------------------------------------
ProRataStep ==
  paused => \A i \in Tokens : balances'[i] * totalSupply >= balances[i] * totalSupply'

LEMMA UnchangedKeepsProRata ==
  ASSUME TypeOK, balances' = balances, totalSupply' = totalSupply
  PROVE  ProRataStep
<1>1. ASSUME NEW i \in Tokens PROVE balances[i] * totalSupply \in Nat
  BY SMT DEF TypeOK
<1> QED BY <1>1 DEF ProRataStep

LEMMA RemoveLiquidityKeepsProRata ==
  ASSUME SwapAssumption, TypeOK, NEW u \in Users, NEW amount \in Nat, NEW m \in Minimums,
         RemoveLiquidity(u, amount, m)
  PROVE  ProRataStep
<1>1. SUFFICES ASSUME NEW i \in Tokens
               PROVE  balances'[i] * totalSupply >= balances[i] * totalSupply'
  BY DEF ProRataStep
<1>2. /\ totalSupply \in Nat \ {0} /\ balances[i] \in Nat
      /\ amount <= totalSupply
      /\ totalSupply' = totalSupply - amount
      /\ balances'[i] = balances[i] - (balances[i] * amount) \div totalSupply
  BY DEF RemoveLiquidity, CalculateRemoveLiquidity, Burns, Minus, TypeOK
<1> QED BY <1>2, RestKeepsProRata

LEMMA BurnLPKeepsProRata ==
  ASSUME TypeOK, NEW u \in Users, NEW amount \in Nat, BurnLP(u, amount)
  PROVE  ProRataStep
<1>1. SUFFICES ASSUME NEW i \in Tokens
               PROVE  balances'[i] * totalSupply >= balances[i] * totalSupply'
  BY DEF ProRataStep
<1>2. /\ totalSupply \in Nat /\ balances[i] \in Nat
      /\ amount <= totalSupply
      /\ totalSupply' = totalSupply - amount
      /\ balances'[i] = balances[i]
  BY DEF BurnLP, Burns, TypeOK
<1>3. balances[i] * totalSupply >= balances[i] * (totalSupply - amount)
  BY <1>2, SMT
<1> QED BY <1>2, <1>3

(* In a paused pool no step leaves less of any token per LP token: those   *)
(* who leave take no more than their share, rounded against them.          *)
THEOREM PausedPoolKeepsProRata == Spec => PausedKeepsProRata
<1>1. Init => SwapInv
  BY SwapInvInit, SwapAssumption, AmplificationAssumption
<1>2. SwapInv /\ [Next]_vars => SwapInv'
  BY SwapInvNext, SwapAssumption, AmplificationAssumption
<1>3. SwapInv /\ [Next]_vars => ProRataStep
  <2> SUFFICES ASSUME SwapInv, [Next]_vars, paused PROVE ProRataStep
    BY DEF ProRataStep
  <2> USE SwapAssumption DEF SwapInv, PoolInv
  <2>0. \A u \in Users : /\ Shares(u, BurnShares) \subseteq Nat
                         /\ Shares(u, GiftShares) \subseteq Nat
    BY SharesAreNats DEF SwapAssumption
  <2>1. ASSUME NEW u \in Users, UserNext(u) PROVE ProRataStep
    <3>1. ASSUME NEW amount \in Shares(u, BurnShares), NEW m \in Minimums,
                 RemoveLiquidity(u, amount, m)
          PROVE  ProRataStep
      BY <2>0, <3>1, RemoveLiquidityKeepsProRata
    <3>2. ASSUME NEW amount \in Shares(u, GiftShares), BurnLP(u, amount) PROVE ProRataStep
      BY <2>0, <3>2, BurnLPKeepsProRata
    <3>3. ASSUME NEW v \in Users, NEW amount, TransferLP(u, v, amount) PROVE ProRataStep
      BY <3>3, UnchangedKeepsProRata DEF TransferLP
    <3>4. ASSUME NEW i \in Tokens, NEW amount, SendToPool(u, i, amount) PROVE ProRataStep
      BY <3>4, UnchangedKeepsProRata DEF SendToPool
    <3>5. ASSUME NEW i \in Tokens, NEW j \in Tokens, NEW dx, NEW m, SwapTokens(u, i, j, dx, m)
          PROVE  FALSE
      BY <3>5 DEF SwapTokens
    <3>6. ASSUME NEW amounts, NEW m, AddLiquidity(u, amounts, m) PROVE FALSE
      BY <3>6 DEF AddLiquidity
    <3>7. ASSUME NEW amount, NEW i \in Tokens, NEW m, RemoveLiquidityOneToken(u, amount, i, m)
          PROVE  FALSE
      BY <3>7 DEF RemoveLiquidityOneToken
    <3>8. ASSUME NEW amounts, NEW most, RemoveLiquidityImbalance(u, amounts, most) PROVE FALSE
      BY <3>8 DEF RemoveLiquidityImbalance
    <3> QED BY <2>1, <3>1, <3>2, <3>3, <3>4, <3>5, <3>6, <3>7, <3>8 DEF UserNext
  <2>2. CASE OwnerNext
    <3>1. balances' = balances /\ totalSupply' = totalSupply
      BY <2>2 DEF OwnerNext, WithdrawAdminFees, SetAdminFee, SetSwapFee, Pause, Unpause
    <3> QED BY <3>1, UnchangedKeepsProRata
  <2>3. CASE UNCHANGED poolVars
    BY <2>3, UnchangedKeepsProRata DEF poolVars
  <2> QED BY <2>1, <2>2, <2>3 DEF Next, vars
<1>4. SwapInv /\ [Next]_vars =>
        [paused => \A i \in Tokens :
                     balances'[i] * totalSupply >= balances[i] * totalSupply']_vars
  BY <1>3 DEF ProRataStep
<1> QED BY <1>1, <1>2, <1>4, PTL DEF Spec, PausedKeepsProRata

-----------------------------------------------------------------------------
(* A pool moves its coefficient only as AmplificationUtils does: no swap,  *)
(* deposit, withdrawal, fee or pause touches a ramp.                       *)
LEMMA MovesAsAmplification ==
  ASSUME [Next]_vars
  PROVE  [AmpNext]_ampVars
<1>1. ASSUME NEW u \in Users, UserNext(u) PROVE UNCHANGED ampVars
  <2>1. ASSUME NEW i \in Tokens, NEW j \in Tokens, NEW dx, NEW m, SwapTokens(u, i, j, dx, m)
        PROVE  UNCHANGED ampVars
    BY <2>1 DEF SwapTokens
  <2>2. ASSUME NEW amounts, NEW m, AddLiquidity(u, amounts, m) PROVE UNCHANGED ampVars
    BY <2>2 DEF AddLiquidity
  <2>3. ASSUME NEW amount, NEW m, RemoveLiquidity(u, amount, m) PROVE UNCHANGED ampVars
    BY <2>3 DEF RemoveLiquidity
  <2>4. ASSUME NEW amount, NEW i \in Tokens, NEW m, RemoveLiquidityOneToken(u, amount, i, m)
        PROVE  UNCHANGED ampVars
    BY <2>4 DEF RemoveLiquidityOneToken
  <2>5. ASSUME NEW amounts, NEW most, RemoveLiquidityImbalance(u, amounts, most)
        PROVE  UNCHANGED ampVars
    BY <2>5 DEF RemoveLiquidityImbalance
  <2>6. ASSUME NEW i \in Tokens, NEW amount, SendToPool(u, i, amount) PROVE UNCHANGED ampVars
    BY <2>6 DEF SendToPool
  <2>7. ASSUME NEW v \in Users, NEW amount, TransferLP(u, v, amount) PROVE UNCHANGED ampVars
    BY <2>7 DEF TransferLP
  <2>8. ASSUME NEW amount, BurnLP(u, amount) PROVE UNCHANGED ampVars
    BY <2>8 DEF BurnLP
  <2> QED BY <1>1, <2>1, <2>2, <2>3, <2>4, <2>5, <2>6, <2>7, <2>8 DEF UserNext
<1>2. CASE OwnerNext
  BY <1>2 DEF OwnerNext, WithdrawAdminFees, SetAdminFee, SetSwapFee, Pause, Unpause
<1>3. CASE UNCHANGED vars
  BY <1>3 DEF vars
<1> QED BY <1>1, <1>2, <1>3 DEF Next

(* So what holds of the coefficient alone holds of every pool.             *)
THEOREM PoolKeepsAmplification ==
  Spec => AmpSpec /\ [](AmpTypeOK /\ RampIsGentle) /\ []AIsUsable /\ ANeverJumps
<1>1. Init => AmpInit
  BY DEF Init
<1>2. [Next]_vars => [AmpNext]_ampVars
  BY MovesAsAmplification
<1>3. Spec => AmpSpec
  BY <1>1, <1>2, PTL DEF Spec, AmpSpec
<1> QED BY <1>3, RampAlwaysGentle, AAlwaysUsable, AmplificationIsSlow, PTL

-----------------------------------------------------------------------------
(* Where A is 0 getD computes no positive invariant.                       *)
LEMMA NoInvariantWithoutA ==
  ASSUME SwapAssumption, AmplificationAssumption,
         NEW bs \in [Tokens -> Nat], APrecise = 0
  PROVE  Invariant(bs) \notin Nat \ {0}
<1> DEFINE xp == Xp(bs)
<1>1. \A i \in 1 .. N : bs[i] * Multipliers[i] \in Nat
  BY SMT DEF SwapAssumption, Tokens
<1>2. N \in Nat /\ xp = [i \in 1 .. N |-> bs[i] * Multipliers[i]]
  BY DEF Xp, Tokens, SwapAssumption
<1>3. xp \in Seq(Nat)
  <2> DEFINE f(i) == bs[i] * Multipliers[i]
  <2>1. \A i \in 1 .. N : f(i) \in Nat
    BY <1>1
  <2>2. xp = [i \in 1 .. N |-> f(i)]
    BY <1>2
  <2> HIDE DEF f, xp
  <2> QED BY <1>2, <2>1, <2>2, SMT
<1> HIDE DEF xp
<1>4. Len(xp) \in Nat
  BY <1>3
<1>5. 0 * Len(xp) < Precision
  <2>1. 0 * Len(xp) = 0
    BY <1>4
  <2> QED BY <2>1 DEF SwapAssumption, AmplificationAssumption
<1>6. GetD(xp, 0) = 0 \/ GetD(xp, 0) = Reverts
  BY <1>5 DEF GetD
<1>7. Invariant(bs) = 0 \/ Invariant(bs) = -1
  BY <1>6 DEF Invariant, xp, Reverts
<1>8. 0 \notin Nat \ {0} /\ -1 \notin Nat
  OBVIOUS
<1> QED BY <1>7, <1>8

(* Nobody deposits into a pool created with _a = 0.                        *)
LEMMA NoDepositWithoutA ==
  ASSUME SwapAssumption, AmplificationAssumption, TypeOK, APrecise = 0,
         NEW u \in Users, NEW amounts \in LiquidityAmounts, NEW m \in Minimums
  PROVE  ~AddLiquidity(u, amounts, m)
<1> SUFFICES ASSUME AddLiquidity(u, amounts, m) PROVE FALSE
  OBVIOUS
<1> DEFINE got == [i \in Tokens |-> Credited(i, amounts[i])]
           new == Plus(balances, got)
           d0  == IF totalSupply = 0 THEN 0 ELSE Invariant(balances)
           d1  == Invariant(new)
<1>1. d0 \in Nat /\ d1 \in Nat /\ d1 > d0
  BY DEF AddLiquidity
<1>2. \A i \in Tokens : amounts[i] \in Nat
  BY DEF SwapAssumption
<1>3. \A i \in Tokens : got[i] \in Nat /\ balances[i] \in Nat
  BY <1>2, ReceivedIsNat DEF Credited, TypeOK
<1>4. new \in [Tokens -> Nat]
  BY <1>3 DEF Plus
<1>5. d1 \notin Nat \ {0}
  BY <1>4, NoInvariantWithoutA
<1> HIDE DEF d0, d1
<1> QED BY <1>1, <1>5

(* A pool without a curve gets no LP tokens in any step.                   *)
LEMMA NoSharesWithoutACurve ==
  ASSUME SwapAssumption, AmplificationAssumption, SwapInv,
         NoCurve, totalSupply = 0, [Next]_vars
  PROVE  totalSupply' = 0
<1> USE DEF SwapInv, PoolInv
<1>0. APrecise = 0
  BY NoCurveNoA DEF AmpInv
<1>1. ASSUME NEW u \in Users, UserNext(u) PROVE totalSupply' = 0
  <2>1. ASSUME NEW i \in Tokens, NEW j \in Tokens, NEW dx, NEW m, SwapTokens(u, i, j, dx, m)
        PROVE  totalSupply' = 0
    BY <2>1 DEF SwapTokens
  <2>2. ASSUME NEW amounts \in LiquidityAmounts, NEW m \in Minimums, AddLiquidity(u, amounts, m)
        PROVE  FALSE
    BY <1>0, <2>2, NoDepositWithoutA
  <2>3. ASSUME NEW amount, NEW m, RemoveLiquidity(u, amount, m) PROVE FALSE
    BY <2>3 DEF RemoveLiquidity
  <2>4. ASSUME NEW amount, NEW i \in Tokens, NEW m, RemoveLiquidityOneToken(u, amount, i, m)
        PROVE  FALSE
    <3>1. totalSupply > 0
      BY <2>4, Zenon DEF RemoveLiquidityOneToken
    <3> QED BY <3>1
  <2>5. ASSUME NEW amounts, NEW most, RemoveLiquidityImbalance(u, amounts, most)
        PROVE  FALSE
    <3> DEFINE d0 == Invariant(balances)
    <3>1. d0 \in Nat \ {0}
      BY <2>5 DEF RemoveLiquidityImbalance
    <3>2. balances \in [Tokens -> Nat]
      BY DEF TypeOK
    <3> QED BY <1>0, <3>1, <3>2, NoInvariantWithoutA
  <2>6. ASSUME NEW i \in Tokens, NEW amount, SendToPool(u, i, amount) PROVE totalSupply' = 0
    BY <2>6 DEF SendToPool
  <2>7. ASSUME NEW v \in Users, NEW amount, TransferLP(u, v, amount) PROVE totalSupply' = 0
    BY <2>7 DEF TransferLP
  <2>8. ASSUME NEW amount \in Shares(u, GiftShares), BurnLP(u, amount) PROVE totalSupply' = 0
    <3>1. amount \in Nat /\ amount <= 0 /\ totalSupply' = 0 - amount
      BY <2>8, SharesAreNats DEF BurnLP, Burns, SwapAssumption
    <3> QED BY <3>1
  <2> QED BY <1>1, <2>1, <2>2, <2>3, <2>4, <2>5, <2>6, <2>7, <2>8 DEF UserNext
<1>2. CASE OwnerNext
  BY <1>2 DEF OwnerNext, WithdrawAdminFees, SetAdminFee, SetSwapFee, Pause, Unpause
<1>3. CASE UNCHANGED poolVars
  BY <1>3 DEF poolVars
<1> QED BY <1>1, <1>2, <1>3 DEF Next, vars

(* Where anybody owns LP tokens A is between 1 and MAX_A, whatever _a the  *)
(* pool was created with: in a pool without a curve getD refuses the first *)
(* deposit, and rampA leaves no pool without one that had one.             *)
THEOREM SharesAlwaysHaveACurve == Spec => []SharesHaveACurve
<1> DEFINE Inv == SwapInv /\ (NoCurve => totalSupply = 0)
<1> USE SwapAssumption, AmplificationAssumption
<1>1. Init => Inv
  BY SwapInvInit DEF Init
<1>2. Inv /\ [Next]_vars => Inv'
  <2> SUFFICES ASSUME Inv, [Next]_vars PROVE Inv'
    OBVIOUS
  <2>1. SwapInv'
    BY SwapInvNext
  <2>2. NoCurve' => NoCurve
    <3>1. [AmpNext]_ampVars /\ AmpInv
      BY MovesAsAmplification DEF SwapInv
    <3>2. CASE GentleRamp
      <4>1. GentleRamp'
        BY <3>1, <3>2, AmpInvNext
      <4>2. ~NoCurve'
        BY <4>1 DEF GentleRamp, NoCurve, AmplificationAssumption
      <4> QED BY <4>2
    <3> QED BY <3>1, <3>2 DEF AmpInv, RampIsGentle
  <2> QED BY <2>1, <2>2, NoSharesWithoutACurve
<1>3. Inv => SharesHaveACurve
  <2> SUFFICES ASSUME Inv, totalSupply > 0 PROVE Usable
    BY DEF SharesHaveACurve
  <2>1. GentleRamp /\ LegalA
    BY ABetweenNow DEF SwapInv, AmpInv, RampIsGentle
  <2>2. APrecise \in A_PRECISION .. MAX_A * A_PRECISION
    BY <2>1 DEF LegalA
  <2> QED BY <2>2 DEF Usable, AmplificationAssumption
<1> QED BY <1>1, <1>2, <1>3, PTL DEF Spec

-----------------------------------------------------------------------------
(* Where getD finds a positive invariant there is some of every token.     *)
LEMMA SolvedHasNoZero ==
  ASSUME SwapAssumption, NEW bs \in [Tokens -> Nat], Invariant(bs) \in Nat \ {0}
  PROVE  \A i \in Tokens : bs[i] > 0
<1> SUFFICES ASSUME NEW i \in Tokens, bs[i] = 0 PROVE FALSE
  OBVIOUS
<1> DEFINE xp == Xp(bs)
<1>1. i \in DOMAIN xp /\ xp[i] = 0
  BY DEF Xp, SwapAssumption
<1> HIDE DEF xp
<1>2. GetD(xp, APrecise) = 0 \/ GetD(xp, APrecise) = Reverts
  BY <1>1 DEF GetD
<1>3. Invariant(bs) = 0 \/ Invariant(bs) = -1
  BY <1>2 DEF Invariant, xp, Reverts
<1>4. 0 \notin Nat \ {0} /\ -1 \notin Nat
  OBVIOUS
<1> QED BY <1>3, <1>4

(* A swap takes less than the pool has of token j: y + 1 of it stays.      *)
LEMMA SwapLeavesSome ==
  ASSUME SwapAssumption, TypeOK, SharesAreBacked,
         NEW u \in Users, NEW i \in Tokens, NEW j \in Tokens,
         NEW dx \in SwapAmounts, NEW minDy \in Minimums,
         SwapTokens(u, i, j, dx, minDy)
  PROVE  SharesAreBacked'
<1> DEFINE got     == Credited(i, dx)
           xp      == Xp(balances)
           y       == GetY(APrecise, i, j, xp[i] + got * Multipliers[i], xp)
           gross   == xp[j] - y - 1
           fee     == (gross * swapFee) \div FEE_DENOMINATOR
           dy      == (gross - fee) \div Multipliers[j]
           part    == (fee * adminFee) \div FEE_DENOMINATOR
           toAdmin == part \div Multipliers[j]
           m       == Multipliers[j]
<1>1. /\ i # j /\ y \in Nat /\ gross >= 0
      /\ balances' = [balances EXCEPT ![i] = @ + got, ![j] = @ - dy - toAdmin]
      /\ totalSupply' = totalSupply
  BY DEF SwapTokens
<1>2. got \in Nat
  BY ReceivedIsNat DEF SwapAssumption, Credited
<1>3. /\ m \in Nat \ {0} /\ balances[j] \in Nat /\ balances[j] * m \in Nat
      /\ xp[j] = balances[j] * m
  BY DEF TypeOK, SwapAssumption, Xp
<1> HIDE DEF y, xp
<1>4. gross \in Nat /\ gross < balances[j] * m
  BY <1>1, <1>3
<1> HIDE DEF gross
<1>5. fee \in 0 .. gross
  BY <1>4, FeeIsPart, FeesAreLegal
<1> HIDE DEF fee
<1>6. part \in 0 .. fee
  <2>1. fee \in Nat
    BY <1>4, <1>5
  <2> QED BY <2>1, FeeIsPart, FeesAreLegal
<1> HIDE DEF part
<1>7. dy + toAdmin <= (gross - fee + part) \div m
  <2>1. gross - fee \in Nat /\ part \in Nat
    BY <1>4, <1>5, <1>6
  <2> QED BY <1>3, <2>1, DivSum
<1>8. (gross - fee + part) \div m < balances[j] /\ (gross - fee + part) \div m \in Nat
  <2>1. gross - fee + part \in Nat /\ gross - fee + part < balances[j] * m
    BY <1>3, <1>4, <1>5, <1>6
  <2> QED BY <1>3, <2>1, QuotientBelow
<1>9. dy \in Nat /\ toAdmin \in Nat
  <2>1. gross - fee \in Nat /\ part \in Nat
    BY <1>4, <1>5, <1>6
  <2> QED BY <1>3, <2>1, DivDef
<1> HIDE DEF dy, toAdmin, m, got
<1>10. dy + toAdmin < balances[j]
  BY <1>3, <1>7, <1>8, <1>9
<1>11. ASSUME totalSupply > 0, NEW k \in Tokens PROVE balances'[k] > 0
  <2>1. balances[k] \in Nat /\ balances[k] > 0
    BY <1>11 DEF TypeOK, SharesAreBacked
  <2>2. balances'[k] = IF k = j THEN balances[j] - dy - toAdmin
                       ELSE IF k = i THEN balances[i] + got ELSE balances[k]
    BY <1>1 DEF TypeOK
  <2> QED BY <1>1, <1>2, <1>3, <1>9, <1>10, <2>1, <2>2
<1> QED BY <1>1, <1>11 DEF SharesAreBacked

(* A deposit brings the invariant of what remains after its fees to d2,    *)
(* which is no less than a positive d0.                                    *)
LEMMA AddLeavesSome ==
  ASSUME SwapAssumption, TypeOK, SharesAreBacked,
         NEW u \in Users, NEW amounts \in LiquidityAmounts, NEW minToMint \in Minimums,
         AddLiquidity(u, amounts, minToMint)
  PROVE  SharesAreBacked'
<1> DEFINE got    == [i \in Tokens |-> Credited(i, amounts[i])]
           first  == totalSupply = 0
           d0     == IF first THEN 0 ELSE Invariant(balances)
           new    == Plus(balances, got)
           d1     == Invariant(new)
           fees   == IF first THEN [i \in Tokens |-> 0]
                              ELSE ImbalanceFees(balances, new, d0, d1)
           d2     == IF first THEN d1 ELSE Invariant(Minus(new, fees))
           share  == AdminShare(fees)
<1>1. /\ d0 \in Nat /\ d1 \in Nat
      /\ d1 > d0
      /\ ~first => d0 > 0
      /\ Covers(new, fees)
      /\ d2 \in Nat
      /\ d2 >= d0
      /\ balances' = Minus(new, AdminShare(fees))
  BY DEF AddLiquidity
<1>2. got \in [Tokens -> Nat]
  BY ReceivedIsNat DEF SwapAssumption, Credited
<1> HIDE DEF got
<1>3. new \in [Tokens -> Nat]
  BY <1>2 DEF Plus, TypeOK
<1> HIDE DEF new, d0, d1
<1>4. fees \in [Tokens -> Nat]
  <2>1. CASE first
    BY <2>1
  <2>2. CASE ~first
    <3>1. balances \in [Tokens -> Nat] /\ d0 \in Nat \ {0}
      BY <1>1, <2>2 DEF TypeOK
    <3> HIDE DEF first
    <3>2. ImbalanceFees(balances, new, d0, d1) \in [Tokens -> Nat]
      BY <1>1, <1>3, <3>1, ImbalanceFeesAreNats
    <3> QED BY <2>2, <3>2
  <2> QED BY <2>1, <2>2
<1>5. \A i \in Tokens : new[i] - fees[i] > 0
  <2>1. CASE first
    <3>1. d1 \in Nat \ {0}
      BY <1>1, <2>1 DEF d0
    <3>2. \A i \in Tokens : new[i] > 0
      BY <1>3, <3>1, SolvedHasNoZero DEF d1
    <3> QED BY <1>3, <2>1, <3>2
  <2>2. CASE ~first
    <3>1. d2 = Invariant(Minus(new, fees))
      BY <2>2
    <3>2. d2 \in Nat \ {0}
      BY <1>1, <2>2
    <3> HIDE DEF fees, d2
    <3>3. Minus(new, fees) \in [Tokens -> Nat]
      BY <1>1, <1>3, <1>4 DEF Minus, Covers
    <3>4. \A i \in Tokens : Minus(new, fees)[i] > 0
      BY <3>1, <3>2, <3>3, SolvedHasNoZero
    <3> QED BY <3>4 DEF Minus
  <2> QED BY <2>1, <2>2
<1> HIDE DEF fees, d2
<1>6. share \in [Tokens -> Nat] /\ Covers(fees, share)
  BY <1>4, AdminShareIsPart
<1>7. balances' = Minus(new, share)
  BY <1>1
<1> HIDE DEF share
<1>8. \A i \in Tokens : balances'[i] > 0
  BY <1>3, <1>4, <1>5, <1>6, <1>7 DEF Minus, Covers
<1> QED BY <1>8 DEF SharesAreBacked

(* Rounded down, the share of some of the LP tokens is never everything.   *)
LEMMA RemoveLeavesSome ==
  ASSUME SwapAssumption, TypeOK, SharesAreBacked,
         NEW u \in Users, NEW amount \in Nat, NEW minAmount \in Minimums,
         RemoveLiquidity(u, amount, minAmount)
  PROVE  SharesAreBacked'
<1>1. /\ totalSupply > 0 /\ amount <= totalSupply
      /\ totalSupply' = totalSupply - amount
      /\ balances' = Minus(balances, CalculateRemoveLiquidity(amount))
  BY DEF RemoveLiquidity, Burns
<1>2. SUFFICES ASSUME totalSupply' > 0, NEW i \in Tokens PROVE balances'[i] > 0
  BY DEF SharesAreBacked
<1>3. /\ balances[i] \in Nat \ {0}
      /\ totalSupply \in Nat \ {0} /\ amount < totalSupply
  BY <1>1, <1>2 DEF SharesAreBacked, TypeOK
<1>4. balances'[i] = balances[i] - (balances[i] * amount) \div totalSupply
  BY <1>1 DEF Minus, CalculateRemoveLiquidity
<1> QED BY <1>3, <1>4, ProperPart

(* In one token: what leaves is dy, less than there is, and of the fee the *)
(* owner's part.  As long as the owner does not take all of the fee, some  *)
(* of it stays.                                                            *)
LEMMA RemoveOneLeavesSome ==
  ASSUME SwapAssumption, TypeOK, SharesAreBacked, adminFee < FEE_DENOMINATOR,
         NEW u \in Users, NEW amount \in Nat, NEW i \in Tokens, NEW minAmount \in Minimums,
         RemoveLiquidityOneToken(u, amount, i, minAmount)
  PROVE  SharesAreBacked'
<1> DEFINE a       == APrecise
           xp      == Xp(balances)
           d0      == GetD(xp, a)
           d1      == d0 - (amount * d0) \div totalSupply
           newY    == GetYD(a, i, xp, d1)
           perFee  == FeePerToken(swapFee, N)
           ideal   == [k \in Tokens |-> (xp[k] * d1) \div d0]
           taken   == [k \in Tokens |-> IF k = i THEN ideal[k] - newY ELSE xp[k] - ideal[k]]
           reduced == [k \in Tokens |-> xp[k] - (taken[k] * perFee) \div FEE_DENOMINATOR]
           y       == GetYD(a, i, reduced, d1)
           m       == Multipliers[i]
           dy      == (reduced[i] - y - 1) \div Multipliers[i]
           all     == (xp[i] - newY) \div Multipliers[i]
           dyFee   == (xp[i] - newY) \div Multipliers[i] - dy
           toAdmin == (dyFee * adminFee) \div FEE_DENOMINATOR
           leaves  == dy + (dyFee * adminFee) \div FEE_DENOMINATOR
<1>1. /\ totalSupply > 0
      /\ d0 \in Nat \ {0}
      /\ newY \in Nat
      /\ \A k \in Tokens : taken[k] >= 0 /\ reduced[k] >= 0
      /\ y \in Nat
      /\ reduced[i] >= y + 1
      /\ dyFee >= 0
      /\ balances' = [balances EXCEPT ![i] = @ - leaves]
  BY DEF RemoveLiquidityOneToken
<1>2. /\ m \in Nat \ {0} /\ balances[i] \in Nat \ {0} /\ balances[i] * m \in Nat
      /\ xp[i] = balances[i] * m
  <2>1. m \in Nat \ {0}
    BY DEF SwapAssumption
  <2>2. balances[i] \in Nat \ {0}
    BY <1>1 DEF TypeOK, SharesAreBacked
  <2>3. xp[i] = balances[i] * m
    BY DEF Xp
  <2> QED BY <2>1, <2>2, <2>3
<1> HIDE DEF xp, newY
<1>3. taken[i] \in Nat
  <2> DEFINE idealI == (xp[i] * d1) \div d0
  <2>1. taken[i] = idealI - newY
    OBVIOUS
  <2>2. taken[i] >= 0
    BY <1>1
  <2>3. xp[i] \in Nat /\ newY \in Nat /\ d0 \in Nat \ {0}
    BY <1>1, <1>2
  <2> HIDE DEF d0
  <2>4. d1 \in Int
    <3>1. amount * d0 \in Nat /\ totalSupply \in Nat \ {0}
      BY <1>1, <2>3 DEF TypeOK
    <3>2. (amount * d0) \div totalSupply \in Nat
      BY <3>1, DivDef
    <3> QED BY <2>3, <3>2
  <2> HIDE DEF d1
  <2>5. idealI \in Int
    <3>1. xp[i] * d1 \in Int
      BY <2>3, <2>4
    <3> QED BY <2>3, <3>1
  <2> HIDE DEF idealI, taken
  <2> QED BY <2>1, <2>2, <2>3, <2>5
<1> HIDE DEF taken
<1>4. reduced[i] \in Nat /\ reduced[i] <= balances[i] * m
  <2>1. perFee \in Nat
    <3>1. swapFee * N \in Nat /\ (N - 1) * 4 \in Nat \ {0}
      BY SMT DEF SwapAssumption, TypeOK
    <3> QED BY <3>1, DivDef DEF FeePerToken
  <2> HIDE DEF perFee
  <2>2. taken[i] * perFee \in Nat
    BY <1>3, <2>1
  <2>3. (taken[i] * perFee) \div FEE_DENOMINATOR \in Nat
    BY <2>2, DivDef DEF SwapAssumption
  <2> QED BY <1>1, <1>2, <2>3
<1> HIDE DEF reduced, y
<1>5. dy \in Nat /\ dy < balances[i]
  <2>1. reduced[i] - y - 1 \in Nat /\ reduced[i] - y - 1 < balances[i] * m
    BY <1>1, <1>2, <1>4
  <2> QED BY <1>2, <2>1, QuotientBelow
<1> HIDE DEF dy
<1>6. all \in Int /\ all <= balances[i]
  <2>1. CASE xp[i] >= newY
    <3>1. xp[i] - newY \in Nat /\ xp[i] - newY <= balances[i] * m
      BY <1>1, <1>2, <2>1
    <3>2. all \in Nat /\ all <= balances[i]
      BY <1>2, <3>1, QuotientAtMost
    <3> HIDE DEF all
    <3> QED BY <3>2
  <2>2. CASE ~(xp[i] >= newY)
    <3>1. xp[i] - newY \in Int /\ xp[i] - newY < 0
      BY <1>1, <1>2, <2>2
    <3>2. all \in Int /\ all < 0
      <4> DEFINE neg == xp[i] - newY
      <4>1. neg \in Int /\ neg < 0
        BY <3>1
      <4> HIDE DEF neg
      <4>2. neg \div m \in Int /\ neg \div m < 0
        BY <1>2, <4>1
      <4> QED BY <4>2 DEF neg
    <3> HIDE DEF all
    <3> QED BY <1>2, <3>2
  <2> QED BY <2>1, <2>2
<1>7. dyFee = all - dy
  OBVIOUS
<1> HIDE DEF dyFee, all
<1>8. dyFee \in Nat /\ dy + dyFee <= balances[i]
  BY <1>1, <1>2, <1>5, <1>6, <1>7
<1>9. leaves \in Nat /\ leaves < balances[i]
  <2>1. FEE_DENOMINATOR \in Nat \ {0} /\ adminFee \in Nat
    BY DEF SwapAssumption, TypeOK
  <2>2. CASE dyFee = 0
    <3>1. dyFee * adminFee = 0
      BY <2>1, <2>2
    <3>2. 0 \div FEE_DENOMINATOR = 0
      BY <2>1, DivDef
    <3>3. toAdmin = 0
      BY <3>1, <3>2
    <3>4. leaves = dy + toAdmin
      OBVIOUS
    <3> HIDE DEF leaves, toAdmin
    <3> QED BY <1>2, <1>5, <3>3, <3>4
  <2>3. CASE dyFee # 0
    <3>1. dyFee \in Nat \ {0}
      BY <1>8, <2>3
    <3>2. toAdmin \in Nat /\ toAdmin < dyFee
      BY <2>1, <3>1, ProperPart
    <3>3. leaves = dy + toAdmin
      OBVIOUS
    <3> HIDE DEF leaves, toAdmin
    <3> QED BY <1>2, <1>5, <1>8, <3>2, <3>3
  <2> QED BY <2>2, <2>3
<1> HIDE DEF leaves
<1>10. ASSUME NEW k \in Tokens PROVE balances'[k] > 0
  <2>1. balances[k] \in Nat /\ balances[k] > 0
    BY <1>1 DEF TypeOK, SharesAreBacked
  <2>2. balances'[k] = IF k = i THEN balances[i] - leaves ELSE balances[k]
    BY <1>1 DEF TypeOK
  <2> QED BY <1>2, <1>9, <2>1, <2>2
<1> QED BY <1>10 DEF SharesAreBacked

(* In several tokens: an invariant d2 of zero would cost all LP tokens,    *)
(* and one more is burned than the cost.                                   *)
LEMMA RemoveImbalanceLeavesSome ==
  ASSUME SwapAssumption, TypeOK,
         NEW u \in Users, NEW amounts \in LiquidityAmounts, NEW maxBurnAmount \in Nat,
         RemoveLiquidityImbalance(u, amounts, maxBurnAmount)
  PROVE  SharesAreBacked'
<1> DEFINE d0    == Invariant(balances)
           new   == Minus(balances, amounts)
           d1    == Invariant(new)
           fees  == ImbalanceFees(balances, new, d0, d1)
           d2    == Invariant(Minus(new, fees))
           cost  == ((d0 - d2) * totalSupply) \div d0
           share == AdminShare(fees)
<1>1. /\ d0 \in Nat \ {0}
      /\ Covers(balances, amounts)
      /\ d1 \in Nat
      /\ Covers(new, fees)
      /\ d2 \in Nat
      /\ cost + 1 <= totalSupply
      /\ balances' = Minus(new, AdminShare(fees))
  BY DEF RemoveLiquidityImbalance, Burns
<1>2. new \in [Tokens -> Nat]
  <2>1. amounts \in [Tokens -> Nat]
    BY DEF SwapAssumption
  <2> QED BY <1>1, <2>1 DEF Minus, Covers, TypeOK
<1> HIDE DEF new, d0, d1
<1>3. fees \in [Tokens -> Nat]
  <2>1. balances \in [Tokens -> Nat]
    BY DEF TypeOK
  <2> QED BY <1>1, <1>2, <2>1, ImbalanceFeesAreNats
<1> HIDE DEF fees
<1>4. Minus(new, fees) \in [Tokens -> Nat]
  BY <1>1, <1>2, <1>3 DEF Minus, Covers
<1>5. d2 # 0
  <2>1. SUFFICES ASSUME d2 = 0 PROVE FALSE
    OBVIOUS
  <2>2. cost = (d0 * totalSupply) \div d0
    <3>1. d0 - d2 = d0
      BY <1>1, <2>1
    <3> QED BY <3>1
  <2>3. totalSupply \in Nat /\ d0 * totalSupply = totalSupply * d0
    BY <1>1 DEF TypeOK
  <2>4. (totalSupply * d0) \div d0 = totalSupply
    BY <1>1, <2>3, RampEnd
  <2>5. cost = totalSupply
    BY <2>2, <2>3, <2>4
  <2> HIDE DEF cost
  <2> QED BY <1>1, <2>3, <2>5
<1>6. \A i \in Tokens : Minus(new, fees)[i] > 0
  <2>1. d2 \in Nat \ {0}
    BY <1>1, <1>5
  <2> QED BY <1>4, <2>1, SolvedHasNoZero
<1>7. share \in [Tokens -> Nat] /\ Covers(fees, share)
  BY <1>3, AdminShareIsPart
<1>8. balances' = Minus(new, share)
  BY <1>1
<1> HIDE DEF share
<1>9. \A i \in Tokens : balances'[i] > 0
  BY <1>2, <1>3, <1>6, <1>7, <1>8 DEF Minus, Covers
<1> QED BY <1>9 DEF SharesAreBacked

LEMMA SharesStayBacked ==
  ASSUME SwapAssumption, TypeOK, SharesAreBacked, adminFee < FEE_DENOMINATOR, [Next]_vars
  PROVE  SharesAreBacked'
<1>0. \A u \in Users : /\ Shares(u, BurnShares) \subseteq Nat
                       /\ Shares(u, GiftShares) \subseteq Nat
  BY SharesAreNats DEF SwapAssumption
<1>1. ASSUME balances' = balances, totalSupply' <= totalSupply, totalSupply' \in Nat
      PROVE  SharesAreBacked'
  BY <1>1 DEF SharesAreBacked, TypeOK
<1>2. ASSUME NEW u \in Users, UserNext(u) PROVE SharesAreBacked'
  <2>1. ASSUME NEW i \in Tokens, NEW j \in Tokens, NEW dx \in SwapAmounts, NEW m \in Minimums,
               SwapTokens(u, i, j, dx, m)
        PROVE  SharesAreBacked'
    BY <2>1, SwapLeavesSome
  <2>2. ASSUME NEW amounts \in LiquidityAmounts, NEW m \in Minimums, AddLiquidity(u, amounts, m)
        PROVE  SharesAreBacked'
    BY <2>2, AddLeavesSome
  <2>3. ASSUME NEW amount \in Shares(u, BurnShares), NEW m \in Minimums,
               RemoveLiquidity(u, amount, m)
        PROVE  SharesAreBacked'
    BY <1>0, <2>3, RemoveLeavesSome
  <2>4. ASSUME NEW amount \in Shares(u, BurnShares), NEW i \in Tokens, NEW m \in Minimums,
               RemoveLiquidityOneToken(u, amount, i, m)
        PROVE  SharesAreBacked'
    BY <1>0, <2>4, RemoveOneLeavesSome
  <2>5. ASSUME NEW amounts \in LiquidityAmounts, NEW most \in Shares(u, BurnShares),
               RemoveLiquidityImbalance(u, amounts, most)
        PROVE  SharesAreBacked'
    BY <1>0, <2>5, RemoveImbalanceLeavesSome
  <2>6. ASSUME NEW i \in Tokens, NEW amount \in SwapAmounts, SendToPool(u, i, amount)
        PROVE  SharesAreBacked'
    BY <1>1, <2>6 DEF SendToPool, TypeOK
  <2>7. ASSUME NEW v \in Users, NEW amount \in Shares(u, GiftShares), TransferLP(u, v, amount)
        PROVE  SharesAreBacked'
    BY <1>1, <2>7 DEF TransferLP, TypeOK
  <2>8. ASSUME NEW amount \in Shares(u, GiftShares), BurnLP(u, amount) PROVE SharesAreBacked'
    <3>1. amount \in Nat
      BY <1>0, <2>8
    <3> QED BY <1>1, <2>8, <3>1 DEF BurnLP, Burns, TypeOK
  <2> QED BY <1>2, <2>1, <2>2, <2>3, <2>4, <2>5, <2>6, <2>7, <2>8 DEF UserNext
<1>3. CASE OwnerNext
  <2>1. balances' = balances /\ totalSupply' = totalSupply
    BY <1>3 DEF OwnerNext, WithdrawAdminFees, SetAdminFee, SetSwapFee, Pause, Unpause
  <2> QED BY <1>1, <2>1 DEF TypeOK
<1>4. CASE UNCHANGED poolVars
  BY <1>1, <1>4 DEF poolVars, TypeOK
<1> QED BY <1>2, <1>3, <1>4 DEF Next, vars

(* Behind LP tokens there is always some of every token, as long as the    *)
(* owner does not take all of the fee (an admin fee of 100%, the maximum   *)
(* that setAdminFee accepts): then a withdrawal in one token of all shares *)
(* but a few can take the last unit of it.                                 *)
THEOREM SharesAlwaysBacked ==
  Spec /\ [](adminFee < FEE_DENOMINATOR) => []SharesAreBacked
<1>1. Init => SharesAreBacked
  BY DEF Init, SharesAreBacked
<1>2. TypeOK /\ adminFee < FEE_DENOMINATOR /\ SharesAreBacked /\ [Next]_vars => SharesAreBacked'
  BY SharesStayBacked, SwapAssumption
<1> QED BY <1>1, <1>2, PoolTypeCorrect, PTL DEF Spec

-----------------------------------------------------------------------------
(* The LP tokens of all users together are the total supply.               *)
SupplyIsSum == totalSupply = SumFunctionOnSet(lp, Users)

(* Nothing but the holder's own LP tokens is needed to leave: the pool has *)
(* the tokens, and the supply covers what is burned.                       *)
CanLeave(u) ==
  /\ totalSupply > 0
  /\ lp[u] <= totalSupply
  /\ Covers(held, CalculateRemoveLiquidity(lp[u]))
  /\ \A i \in Tokens : CalculateRemoveLiquidity(lp[u])[i] >= 0

(* What CanLeave says is all that removeLiquidity asks for: every choice   *)
(* of the next state that does what the operation does is such a step.     *)
LEMMA LeavingIsAStep ==
  ASSUME NEW u \in Users, CanLeave(u),
         lp' = [lp EXCEPT ![u] = @ - lp[u]],
         totalSupply' = totalSupply - lp[u],
         balances' = Minus(balances, CalculateRemoveLiquidity(lp[u])),
         held' = Minus(held, CalculateRemoveLiquidity(lp[u])),
         wallet' = [wallet EXCEPT ![u] =
                      [i \in Tokens |-> @[i] + Received(i, CalculateRemoveLiquidity(lp[u])[i])]],
         UNCHANGED <<ampVars, swapFee, adminFee, paused>>,
         TypeOK
  PROVE  RemoveLiquidity(u, lp[u], 0)
<1>1. lp[u] <= lp[u]
  BY DEF TypeOK
<1> QED BY <1>1 DEF RemoveLiquidity, Burns, CanLeave

(* LP tokens appear and disappear together with the supply.                *)
LEMMA SupplyMoves ==
  ASSUME SwapAssumption, TypeOK, TypeOK', SupplyIsSum, NEW u \in Users, LPMoves(u)
  PROVE  SupplyIsSum'
<1>1. IsFiniteSet(Users) /\ \A v \in Users : lp[v] \in Int /\ lp'[v] \in Int
  BY DEF SwapAssumption, TypeOK
<1>0. \A v \in Users \ {u} : lp'[v] = lp[v]
  BY DEF LPMoves
<1>2. SumFunctionOnSet(lp', Users) = SumFunctionOnSet(lp, Users) + lp'[u] - lp[u]
  BY <1>0, <1>1, SumChange
<1>3. totalSupply \in Int /\ totalSupply' \in Int /\ totalSupply = SumFunctionOnSet(lp, Users)
  BY DEF TypeOK, SupplyIsSum
<1> QED BY <1>1, <1>2, <1>3 DEF SupplyIsSum, LPMoves

LEMMA BurnsKeepsSum ==
  ASSUME SwapAssumption, TypeOK, TypeOK', SupplyIsSum,
         NEW u \in Users, NEW amount \in Nat, Burns(u, amount)
  PROVE  SupplyIsSum'
<1>1. /\ lp' = [lp EXCEPT ![u] = @ - amount]
      /\ totalSupply' = totalSupply - amount
  BY DEF Burns
<1>2. totalSupply' - totalSupply = lp'[u] - lp[u]
  BY <1>1 DEF TypeOK
<1>3. \A v \in Users \ {u} : lp'[v] = lp[v]
  BY <1>1 DEF TypeOK
<1> QED BY <1>2, <1>3, SupplyMoves DEF LPMoves

LEMMA TransferKeepsSum ==
  ASSUME SwapAssumption, TypeOK, TypeOK', SupplyIsSum,
         NEW u \in Users, NEW v \in Users, NEW amount \in Nat, TransferLP(u, v, amount)
  PROVE  SupplyIsSum'
<1> DEFINE without == [lp EXCEPT ![u] = @ - amount]
           sum(f)  == SumFunctionOnSet(f, Users)
<1>1. /\ \A w \in Users : lp'[w] = IF w = v THEN without[v] + amount ELSE without[w]
      /\ totalSupply' = totalSupply
  BY DEF TransferLP, TypeOK
<1>2. /\ IsFiniteSet(Users)
      /\ \A w \in Users : lp[w] \in Int /\ without[w] \in Int /\ lp'[w] \in Int
  BY DEF SwapAssumption, TypeOK
<1>3. /\ without[u] = lp[u] - amount /\ \A w \in Users \ {u} : without[w] = lp[w]
      /\ lp'[v] = without[v] + amount /\ \A w \in Users \ {v} : lp'[w] = without[w]
  BY <1>1 DEF TypeOK
<1> HIDE DEF without
<1>4. sum(without) = sum(lp) + without[u] - lp[u]
  BY <1>2, <1>3, SumChange
<1>5. sum(lp') = sum(without) + lp'[v] - without[v]
  BY <1>2, <1>3, SumChange
<1>6. sum(lp) \in Int /\ sum(without) \in Int
  BY <1>2, SumInt
<1> HIDE DEF sum
<1>7. sum(lp') = sum(lp)
  BY <1>2, <1>3, <1>4, <1>5, <1>6
<1> QED BY <1>1, <1>7 DEF SupplyIsSum, sum

LEMMA SupplyStaysSum ==
  ASSUME SwapAssumption, TypeOK, Solvent, TypeOK', SupplyIsSum, [Next]_vars
  PROVE  SupplyIsSum'
<1>1. ASSUME lp' = lp, totalSupply' = totalSupply PROVE SupplyIsSum'
  BY <1>1 DEF SupplyIsSum
<1>2. ASSUME NEW u \in Users, UserNext(u) PROVE SupplyIsSum'
  <2>1. ASSUME NEW i \in Tokens, NEW j \in Tokens, NEW dx \in SwapAmounts, NEW m \in Minimums,
               SwapTokens(u, i, j, dx, m)
        PROVE  SupplyIsSum'
    BY <1>1, <2>1 DEF SwapTokens
  <2>2. ASSUME NEW amounts \in LiquidityAmounts, NEW m \in Minimums, AddLiquidity(u, amounts, m)
        PROVE  SupplyIsSum'
    BY <2>2, AddLiquidityKeepsInv, SupplyMoves DEF PoolInv
  <2>3. ASSUME NEW amount \in Shares(u, BurnShares), NEW m \in Minimums,
               RemoveLiquidity(u, amount, m)
        PROVE  SupplyIsSum'
    <3>1. amount \in Nat
      BY SharesAreNats DEF SwapAssumption
    <3> QED BY <2>3, <3>1, BurnsKeepsSum DEF RemoveLiquidity
  <2>4. ASSUME NEW amount \in Shares(u, BurnShares), NEW i \in Tokens, NEW m \in Minimums,
               RemoveLiquidityOneToken(u, amount, i, m)
        PROVE  SupplyIsSum'
    <3>1. amount \in Nat
      BY SharesAreNats DEF SwapAssumption
    <3> QED BY <2>4, <3>1, BurnsKeepsSum DEF RemoveLiquidityOneToken
  <2>5. ASSUME NEW amounts \in LiquidityAmounts, NEW most \in Shares(u, BurnShares),
               RemoveLiquidityImbalance(u, amounts, most)
        PROVE  SupplyIsSum'
    <3>1. most \in Nat
      BY SharesAreNats DEF SwapAssumption
    <3> QED BY <2>5, <3>1, RemoveLiquidityImbalanceKeepsInv, SupplyMoves DEF PoolInv
  <2>6. ASSUME NEW i \in Tokens, NEW amount \in SwapAmounts, SendToPool(u, i, amount)
        PROVE  SupplyIsSum'
    BY <1>1, <2>6 DEF SendToPool
  <2>7. ASSUME NEW v \in Users, NEW amount \in Shares(u, GiftShares), TransferLP(u, v, amount)
        PROVE  SupplyIsSum'
    <3>1. amount \in Nat
      BY SharesAreNats DEF SwapAssumption
    <3> QED BY <2>7, <3>1, TransferKeepsSum
  <2>8. ASSUME NEW amount \in Shares(u, GiftShares), BurnLP(u, amount) PROVE SupplyIsSum'
    <3>1. amount \in Nat
      BY SharesAreNats DEF SwapAssumption
    <3> QED BY <2>8, <3>1, BurnsKeepsSum DEF BurnLP
  <2> QED BY <1>2, <2>1, <2>2, <2>3, <2>4, <2>5, <2>6, <2>7, <2>8 DEF UserNext
<1>3. CASE OwnerNext
  BY <1>1, <1>3 DEF OwnerNext, WithdrawAdminFees, SetAdminFee, SetSwapFee, Pause, Unpause
<1>4. CASE UNCHANGED poolVars
  BY <1>1, <1>4 DEF poolVars
<1> QED BY <1>2, <1>3, <1>4 DEF Next, vars

(* Whoever holds LP tokens can turn all of them into their share of every  *)
(* token, paused pool or not, at any moment.                               *)
THEOREM LeavingAlwaysPossible == Spec => [](\A u \in Users : lp[u] > 0 => CanLeave(u))
<1>1. Init => SupplyIsSum
  <2> SUFFICES ASSUME Init PROVE SupplyIsSum
    OBVIOUS
  <2>1. IsFiniteSet(Users) /\ totalSupply = 0 /\ \A u \in Users : lp[u] = 0
    BY SwapAssumption DEF SwapAssumption, Init
  <2> QED BY <2>1, SumZero DEF SupplyIsSum
<1>2. TypeOK /\ TypeOK' /\ Solvent /\ SupplyIsSum /\ [Next]_vars => SupplyIsSum'
  BY SupplyStaysSum, SwapAssumption
<1>3. TypeOK /\ Solvent /\ SupplyIsSum => \A u \in Users : lp[u] > 0 => CanLeave(u)
  <2> SUFFICES ASSUME TypeOK, Solvent, SupplyIsSum, NEW u \in Users, lp[u] > 0
               PROVE  CanLeave(u)
    OBVIOUS
  <2>1. lp[u] \in Nat /\ totalSupply \in Nat
    BY DEF TypeOK
  <2>2. lp[u] <= totalSupply
    <3>1. IsFiniteSet(Users) /\ \A v \in Users : lp[v] \in Nat
      BY SwapAssumption DEF SwapAssumption, TypeOK
    <3>2. lp[u] <= SumFunctionOnSet(lp, Users)
      BY <3>1, SumPart
    <3> QED BY <3>2 DEF SupplyIsSum
  <2>3. totalSupply \in Nat \ {0}
    BY <2>1, <2>2
  <2>4. ASSUME NEW i \in Tokens
        PROVE  /\ held[i] >= CalculateRemoveLiquidity(lp[u])[i]
               /\ CalculateRemoveLiquidity(lp[u])[i] >= 0
    <3>1. balances[i] \in Nat /\ held[i] \in Nat /\ held[i] >= balances[i]
      BY DEF TypeOK, Solvent, Covers
    <3>2. (balances[i] * lp[u]) \div totalSupply \in 0 .. balances[i]
      BY <2>1, <2>2, <2>3, <3>1, PartOf
    <3>3. CalculateRemoveLiquidity(lp[u])[i] = (balances[i] * lp[u]) \div totalSupply
      BY DEF CalculateRemoveLiquidity
    <3> QED BY <3>1, <3>2, <3>3
  <2> QED BY <2>2, <2>3, <2>4 DEF CanLeave, Covers
<1> QED BY <1>1, <1>2, <1>3, PoolTypeCorrect, PoolSolvent, PTL DEF Spec
==============================================================================
