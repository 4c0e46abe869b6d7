--------------------------------- MODULE Swap ---------------------------------
(***************************************************************************)
(* A StableSwap pool: Swap.sol with the library SwapUtils.sol that keeps   *)
(* its state, AmplificationUtils.sol and the LPToken it owns.              *)
(*                                                                         *)
(* A transaction is one step: user operations are nonReentrant, and a      *)
(* refused call leaves no trace, so an operation is enabled exactly when   *)
(* the call would not revert.  The pool tokens are ERC20s; their owners'   *)
(* approvals are given, and a token may keep a fee of every transfer.      *)
(***************************************************************************)
EXTENDS Amplification, StableSwap, FiniteSets

CONSTANTS
  Users,            \* accounts that trade and provide liquidity
  Owner,            \* the owner of the pool, who collects the admin fees
  N,                \* number of pooled tokens, numbered from 1
  Multipliers,      \* tokenPrecisionMultipliers
  TransferFee,      \* what a token keeps of every transfer
  Endowment,        \* what every user owns of every token at first
  FEE_DENOMINATOR, MAX_SWAP_FEE, MAX_ADMIN_FEE,
  SwapFees, AdminFees,   \* fees the owner asks for
  SwapAmounts,           \* amounts of tokens users swap or send
  LiquidityAmounts,      \* vectors of amounts users deposit or withdraw
  Minimums,              \* least results users ask for
  BurnShares,            \* users withdraw lp[u] \div k, for k in this set
  GiftShares,            \* the same for LP tokens they send or destroy
  Dust                   \* what roundings may cost the providers in one step

Tokens == 1 .. N
Accounts == Users \cup {Owner}

ASSUME SwapAssumption ==
  /\ IsFiniteSet(Users) /\ Owner \notin Users
  /\ N \in Nat \ {0, 1}
  /\ Multipliers \in [Tokens -> Nat \ {0}]
  /\ TransferFee \in [Tokens -> Nat]
  /\ Endowment \in Nat
  /\ FEE_DENOMINATOR \in Nat \ {0}
  /\ MAX_SWAP_FEE \in Nat /\ MAX_SWAP_FEE <= FEE_DENOMINATOR
  /\ MAX_ADMIN_FEE = FEE_DENOMINATOR
  /\ SwapFees \subseteq Nat /\ AdminFees \subseteq Nat
  /\ SwapAmounts \subseteq Nat
  /\ LiquidityAmounts \subseteq [Tokens -> Nat]
  /\ Minimums \subseteq Nat
  /\ BurnShares \subseteq Nat \ {0}
  /\ GiftShares \subseteq Nat \ {0}
  /\ Dust \in Nat
  /\ Precision = A_PRECISION

VARIABLES
  swapFee, adminFee,
  balances,      \* balances[i]: what the pool accounts for its providers
  held,          \* held[i]: token i's balanceOf(pool)
  wallet,        \* wallet[u][i]: token i's balanceOf(u)
  lp,            \* lp[u]: the LPToken's balanceOf(u)
  totalSupply,   \* the LPToken's total supply
  paused

poolVars == <<swapFee, adminFee, balances, held, wallet, lp, totalSupply, paused>>
vars     == <<ampVars, poolVars>>

(* What arrives of an amount of token i that is sent.                      *)
Received(i, amount) == IF amount > TransferFee[i] THEN amount - TransferFee[i] ELSE 0

(* A mutant: the pool believes the sender.                                 *)
CreditedBlindly(i, amount) == amount

(* What the pool credits the sender with: the growth of its own balance.   *)
Credited(i, amount) == Received(i, amount)

(* SwapUtils._xp: balances at the precision of the pool.                   *)
Xp(bs) == [i \in Tokens |-> bs[i] * Multipliers[i]]

(* The invariant of some balances at the current A.                        *)
Invariant(bs) == GetD(Xp(bs), APrecise)

(* Token i moves from the pool to an account.                              *)
Pays(i, amount, to) ==
  /\ held[i] >= amount
  /\ held' = [held EXCEPT ![i] = @ - amount]
  /\ wallet' = [wallet EXCEPT ![to][i] = @ + Received(i, amount)]

(* ERC20 _burn: u loses LP tokens.                                         *)
Burns(u, amount) ==
  /\ amount <= lp[u]
  /\ amount <= totalSupply
  /\ lp' = [lp EXCEPT ![u] = @ - amount]
  /\ totalSupply' = totalSupply - amount

-----------------------------------------------------------------------------
(* Swap.initialize.                                                        *)
Init ==
  /\ AmpInit
  /\ swapFee \in {f \in SwapFees : f < MAX_SWAP_FEE}
  /\ adminFee \in {f \in AdminFees : f < MAX_ADMIN_FEE}
  /\ balances = [i \in Tokens |-> 0]
  /\ held = [i \in Tokens |-> 0]
  /\ wallet = [u \in Accounts |-> [i \in Tokens |-> IF u = Owner THEN 0 ELSE Endowment]]
  /\ lp = [u \in Users |-> 0]
  /\ totalSupply = 0
  /\ paused = FALSE

(* User u sells dx of token i for at least minDy of token j.               *)
SwapTokens(u, i, j, dx, minDy) ==
  LET got     == Credited(i, dx)
      xp      == Xp(balances)
      y       == GetY(APrecise, i, j, xp[i] + got * Multipliers[i], xp)
      gross   == xp[j] - y - 1
      fee     == (gross * swapFee) \div FEE_DENOMINATOR
      dy      == (gross - fee) \div Multipliers[j]
      toAdmin == ((fee * adminFee) \div FEE_DENOMINATOR) \div Multipliers[j]
  IN  /\ ~paused
      /\ i # j
      /\ dx <= wallet[u][i]
      /\ y \in Nat
      /\ gross >= 0
      /\ dy >= minDy
      /\ dy + toAdmin <= balances[j]
      /\ dy <= held[j]
      /\ balances' = [balances EXCEPT ![i] = @ + got, ![j] = @ - dy - toAdmin]
      /\ held' = [held EXCEPT ![i] = @ + Received(i, dx), ![j] = @ - dy]
      /\ wallet' = [wallet EXCEPT ![u][i] = @ - dx, ![u][j] = @ + Received(j, dy)]
      /\ UNCHANGED <<ampVars, swapFee, adminFee, lp, totalSupply, paused>>

(* The fee a change of balances pays on every token, for its distance from *)
(* the balance that the old proportions would give it.                     *)
ImbalanceFees(old, new, d0, d1) ==
  [i \in Tokens |->
     (FeePerToken(swapFee, N) * Difference((d1 * old[i]) \div d0, new[i]))
        \div FEE_DENOMINATOR]

AdminShare(fees) == [i \in Tokens |-> (fees[i] * adminFee) \div FEE_DENOMINATOR]

Plus(f, g)  == [i \in Tokens |-> f[i] + g[i]]
Minus(f, g) == [i \in Tokens |-> f[i] - g[i]]
Covers(f, g) == \A i \in Tokens : f[i] >= g[i]

(* User u deposits amounts and gets LP tokens.  The first provider brings  *)
(* every token and pays no fee; later ones pay for the imbalance they make.*)
AddLiquidity(u, amounts, minToMint) ==
  LET got    == [i \in Tokens |-> Credited(i, amounts[i])]
      first  == totalSupply = 0
      d0     == IF first THEN 0 ELSE Invariant(balances)
      new    == Plus(balances, got)
      d1     == Invariant(new)
      fees   == IF first THEN [i \in Tokens |-> 0]
                         ELSE ImbalanceFees(balances, new, d0, d1)
      d2     == IF first THEN d1 ELSE Invariant(Minus(new, fees))
      toMint == IF first THEN d1 ELSE ((d2 - d0) * totalSupply) \div d0
  IN  /\ ~paused
      /\ Covers(wallet[u], amounts)
      /\ first => \A i \in Tokens : amounts[i] > 0
      /\ d0 \in Nat /\ d1 \in Nat
      /\ d1 > d0
      /\ ~first => d0 > 0
      /\ Covers(new, fees)
      /\ d2 \in Nat
      /\ d2 >= d0
      /\ toMint >= minToMint
      /\ toMint # 0
      /\ balances' = Minus(new, AdminShare(fees))
      /\ held' = [i \in Tokens |-> held[i] + Received(i, amounts[i])]
      /\ wallet' = [wallet EXCEPT ![u] = Minus(@, amounts)]
      /\ lp' = [lp EXCEPT ![u] = @ + toMint]
      /\ totalSupply' = totalSupply + toMint
      /\ UNCHANGED <<ampVars, swapFee, adminFee, paused>>

(* A mutant: the share is rounded up.                                      *)
CalculateRemoveLiquidityUp(amount) ==
  [i \in Tokens |-> (balances[i] * amount + totalSupply - 1) \div totalSupply]

(* SwapUtils._calculateRemoveLiquidity: the share amount LP tokens have.   *)
CalculateRemoveLiquidity(amount) ==
  [i \in Tokens |-> (balances[i] * amount) \div totalSupply]

(* User u burns amount LP tokens for the same share of every token.  This  *)
(* operation alone works in a paused pool.                                 *)
RemoveLiquidity(u, amount, minAmount) ==
  LET amounts == CalculateRemoveLiquidity(amount)
  IN  /\ totalSupply > 0
      /\ Burns(u, amount)
      /\ \A i \in Tokens : amounts[i] >= minAmount
      /\ Covers(held, amounts)
      /\ balances' = Minus(balances, amounts)
      /\ held' = Minus(held, amounts)
      /\ wallet' = [wallet EXCEPT ![u] =
                      [i \in Tokens |-> @[i] + Received(i, amounts[i])]]
      /\ UNCHANGED <<ampVars, swapFee, adminFee, paused>>

(* User u burns amount LP tokens and takes everything in token i.          *)
RemoveLiquidityOneToken(u, amount, i, minAmount) ==
  LET a       == APrecise
      xp      == Xp(balances)
      d0      == GetD(xp, a)
      d1      == d0 - (amount * d0) \div totalSupply
      newY    == GetYD(a, i, xp, d1)
      perFee  == FeePerToken(swapFee, N)
      ideal   == [k \in Tokens |-> (xp[k] * d1) \div d0]
      taken   == [k \in Tokens |-> IF k = i THEN ideal[k] - newY ELSE xp[k] - ideal[k]]
      reduced == [k \in Tokens |-> xp[k] - (taken[k] * perFee) \div FEE_DENOMINATOR]
      y       == GetYD(a, i, reduced, d1)
      dy      == (reduced[i] - y - 1) \div Multipliers[i]
      dyFee   == (xp[i] - newY) \div Multipliers[i] - dy
      leaves  == dy + (dyFee * adminFee) \div FEE_DENOMINATOR
  IN  /\ ~paused
      /\ totalSupply > 0
      /\ Burns(u, amount)
      /\ d0 \in Nat \ {0}
      /\ amount <= xp[i]
      /\ newY \in Nat
      /\ \A k \in Tokens : taken[k] >= 0 /\ reduced[k] >= 0
      /\ y \in Nat
      /\ reduced[i] >= y + 1
      /\ dyFee >= 0
      /\ dy >= minAmount
      /\ leaves <= balances[i]
      /\ balances' = [balances EXCEPT ![i] = @ - leaves]
      /\ Pays(i, dy, u)
      /\ UNCHANGED <<ampVars, swapFee, adminFee, paused>>

(* User u takes exactly these amounts and burns what they cost, at most    *)
(* maxBurnAmount.                                                          *)
RemoveLiquidityImbalance(u, amounts, maxBurnAmount) ==
  LET d0   == Invariant(balances)
      new  == Minus(balances, amounts)
      d1   == Invariant(new)
      fees == ImbalanceFees(balances, new, d0, d1)
      d2   == Invariant(Minus(new, fees))
      cost == ((d0 - d2) * totalSupply) \div d0
  IN  /\ ~paused
      /\ maxBurnAmount <= lp[u] /\ maxBurnAmount # 0
      /\ d0 \in Nat \ {0}
      /\ Covers(balances, amounts)
      /\ d1 \in Nat
      /\ Covers(new, fees)
      /\ d2 \in Nat
      /\ d0 >= d2
      /\ cost # 0
      /\ cost + 1 <= maxBurnAmount
      /\ Burns(u, cost + 1)
      /\ Covers(held, amounts)
      /\ balances' = Minus(new, AdminShare(fees))
      /\ held' = Minus(held, amounts)
      /\ wallet' = [wallet EXCEPT ![u] =
                      [i \in Tokens |-> @[i] + Received(i, amounts[i])]]
      /\ UNCHANGED <<ampVars, swapFee, adminFee, paused>>

-----------------------------------------------------------------------------
(* The owner's operations.                                                 *)

(* A mutant: the providers' tokens go with the fees.                       *)
WithdrawEverything ==
  /\ held' = [i \in Tokens |-> 0]
  /\ wallet' = [wallet EXCEPT ![Owner] = [i \in Tokens |-> @[i] + Received(i, held[i])]]
  /\ UNCHANGED <<ampVars, swapFee, adminFee, balances, lp, totalSupply, paused>>

(* Whatever the pool holds beyond balances goes to the owner.              *)
WithdrawAdminFees ==
  /\ Covers(held, balances)
  /\ held' = balances
  /\ wallet' = [wallet EXCEPT ![Owner] =
                  [i \in Tokens |-> @[i] + Received(i, held[i] - balances[i])]]
  /\ UNCHANGED <<ampVars, swapFee, adminFee, balances, lp, totalSupply, paused>>

SetAdminFee(newAdminFee) ==
  /\ newAdminFee <= MAX_ADMIN_FEE
  /\ adminFee' = newAdminFee
  /\ UNCHANGED <<ampVars, swapFee, balances, held, wallet, lp, totalSupply, paused>>

(* A mutant: any fee is accepted.                                          *)
SetAnySwapFee(newSwapFee) ==
  /\ swapFee' = newSwapFee
  /\ UNCHANGED <<ampVars, adminFee, balances, held, wallet, lp, totalSupply, paused>>

SetSwapFee(newSwapFee) ==
  /\ newSwapFee <= MAX_SWAP_FEE
  /\ swapFee' = newSwapFee
  /\ UNCHANGED <<ampVars, adminFee, balances, held, wallet, lp, totalSupply, paused>>

Pause ==
  /\ ~paused
  /\ paused' = TRUE
  /\ UNCHANGED <<ampVars, swapFee, adminFee, balances, held, wallet, lp, totalSupply>>

Unpause ==
  /\ paused
  /\ paused' = FALSE
  /\ UNCHANGED <<ampVars, swapFee, adminFee, balances, held, wallet, lp, totalSupply>>

-----------------------------------------------------------------------------
(* What the tokens' owners do without asking the pool.                     *)

(* u sends tokens to the pool's address by mistake.                        *)
SendToPool(u, i, amount) ==
  /\ amount <= wallet[u][i]
  /\ wallet' = [wallet EXCEPT ![u][i] = @ - amount]
  /\ held' = [held EXCEPT ![i] = @ + Received(i, amount)]
  /\ UNCHANGED <<ampVars, swapFee, adminFee, balances, lp, totalSupply, paused>>

(* u sends LP tokens to v, who may be u.                                   *)
TransferLP(u, v, amount) ==
  /\ amount <= lp[u]
  /\ lp' = [lp EXCEPT ![u] = @ - amount, ![v] = @ + amount]
  /\ UNCHANGED <<ampVars, swapFee, adminFee, balances, held, wallet, totalSupply, paused>>

(* LPToken is an ERC20Burnable: u destroys LP tokens and gets nothing.     *)
BurnLP(u, amount) ==
  /\ Burns(u, amount)
  /\ UNCHANGED <<ampVars, swapFee, adminFee, balances, held, wallet, paused>>

-----------------------------------------------------------------------------
Shares(u, parts) == {lp[u] \div k : k \in parts}

UserNext(u) ==
  \/ \E i, j \in Tokens, dx \in SwapAmounts, m \in Minimums : SwapTokens(u, i, j, dx, m)
  \/ \E amounts \in LiquidityAmounts, m \in Minimums : AddLiquidity(u, amounts, m)
  \/ \E amount \in Shares(u, BurnShares), m \in Minimums : RemoveLiquidity(u, amount, m)
  \/ \E amount \in Shares(u, BurnShares), i \in Tokens, m \in Minimums :
        RemoveLiquidityOneToken(u, amount, i, m)
  \/ \E amounts \in LiquidityAmounts, most \in Shares(u, BurnShares) :
        RemoveLiquidityImbalance(u, amounts, most)
  \/ \E i \in Tokens, amount \in SwapAmounts : SendToPool(u, i, amount)
  \/ \E v \in Users, amount \in Shares(u, GiftShares) : TransferLP(u, v, amount)
  \/ \E amount \in Shares(u, GiftShares) : BurnLP(u, amount)

OwnerNext ==
  \/ WithdrawAdminFees
  \/ \E f \in AdminFees : SetAdminFee(f)
  \/ \E f \in SwapFees : SetSwapFee(f)
  \/ Pause
  \/ Unpause

Next ==
  \/ \E u \in Users : UserNext(u)
  \/ OwnerNext
  \/ AmpNext /\ UNCHANGED poolVars

Spec == Init /\ [][Next]_vars

-----------------------------------------------------------------------------
(* The variables have their types, and the fees respect their maxima.      *)
TypeOK ==
  /\ AmpTypeOK
  /\ swapFee \in 0 .. MAX_SWAP_FEE
  /\ adminFee \in 0 .. MAX_ADMIN_FEE
  /\ balances \in [Tokens -> Nat]
  /\ held \in [Tokens -> Nat]
  /\ wallet \in [Accounts -> [Tokens -> Nat]]
  /\ lp \in [Users -> Nat]
  /\ totalSupply \in Nat
  /\ paused \in BOOLEAN

(* The pool can pay what it accounts for: no operation, fee or rounding    *)
(* lets the balances of the struct exceed the tokens the contract holds.   *)
Solvent == Covers(held, balances)

(* As long as somebody owns LP tokens there is some of every token behind  *)
(* them: no withdrawal, in one token or in several, empties one side of    *)
(* the pool and leaves getD without a solution.  (While the owner takes    *)
(* less than all of the fee, as certora/spec/Swap.spec requires, too.)     *)
SharesAreBacked == totalSupply > 0 => \A i \in Tokens : balances[i] > 0

(* Nobody's tokens are ever behind a curve that cannot be computed: where  *)
(* there are LP tokens, A is between 1 and MAX_A.  initialize accepts      *)
(* _a = 0, but the first deposit reverts in such a pool, and no ramp leads *)
(* out of 0.                                                               *)
SharesHaveACurve == totalSupply > 0 => Usable

(* Every provider can leave at any moment with all of their LP tokens,     *)
(* paused pool or not ("Liquidity can always be removed, even when the     *)
(* pool is paused", SwapUtils.removeLiquidity).                            *)
ExitAlwaysPossible ==
  \A u \in Users : lp[u] > 0 => ENABLED RemoveLiquidity(u, lp[u], 0)

(* The owner's fees, held - balances, never shrink except by being         *)
(* collected: no user operation is paid out of them.                       *)
AdminFeesAreSafe ==
  [][WithdrawAdminFees \/ Covers(Minus(held', balances'), Minus(held, balances))]_vars

(* While the pool is paused nobody is diluted: of every token, what        *)
(* remains per LP token never falls.                                       *)
PausedKeepsProRata ==
  [][paused =>
       \A i \in Tokens : balances'[i] * totalSupply >= balances[i] * totalSupply']_vars

(* The value of a share, D / totalSupply, never falls by more than Dust    *)
(* units of D in a step, whoever trades, deposits or withdraws: fees and   *)
(* roundings go to the providers that stay.  Only a ramp of A may move it. *)
ShareValueHolds ==
  [][(totalSupply > 0 /\ totalSupply' > 0 /\ APrecise' = APrecise) =>
       (Invariant(balances') + Dust) * totalSupply >= Invariant(balances) * totalSupply']_vars
==============================================================================
