----------------------------- MODULE ChildGauge -----------------------------
(***************************************************************************)
(* Emissions for a liquidity gauge on another chain: the root gauge        *)
(* (xchainGauges/implementations/RootGaugeV2.vy) is minted SDL for the     *)
(* weeks that are over and bridges it to its twin, the child gauge         *)
(* (implementations/ChildGauge.vy), which spreads what has arrived over    *)
(* the rest of the week and hands it to the child factory                  *)
(* (ChildGaugeFactory.vy), from which the stakers mint it.  The bridge     *)
(* delivers late and in any order; the factory's requests for emissions    *)
(* may get lost.  The emission of a week is the gauge controller's and the *)
(* minter's decision.  External rewards of the gauge are left out.         *)
(***************************************************************************)
EXTENDS Integers, FiniteSetsExt, Bags

CONSTANTS
  Users,          \* stakers of the child gauge
  Receivers,      \* to whom a user has withdrawn LP tokens sent
  Amounts,        \* amounts of LP tokens that are staked, moved and withdrawn
  MaxStake,       \* bound: LP tokens there are
  Emissions,      \* what the minter may owe the root gauge for the past weeks
  VeBalances,     \* veSDL balances and totals the child chain's oracle answers
  VeTotals,
  WEEK,           \* seconds of a week
  SCALE,          \* the integral is kept multiplied by this (1e18)
  Genesis,        \* when both gauges are made
  MaxTime         \* bound: the clock stops here

TOKENLESS_PRODUCTION == 40
LoopLimit == 256    \* weeks one checkpoint looks at

ASSUME ChildGaugeAssumption ==
  /\ IsFiniteSet(Users)
  /\ Receivers \in [Users -> SUBSET Users] /\ \A u \in Users : u \in Receivers[u]
  /\ Amounts \subseteq Nat /\ MaxStake \in Nat
  /\ Emissions \subseteq Nat /\ VeBalances \subseteq Nat /\ VeTotals \subseteq Nat
  /\ WEEK \in Nat \ {0} /\ SCALE \in Nat \ {0}
  /\ Genesis \in Nat /\ WEEK <= Genesis /\ MaxTime \in Nat /\ Genesis <= MaxTime
  /\ MaxTime < LoopLimit * WEEK

VARIABLES
  now,
  lastPeriod, totalEmissions, rootMinted,   \* root gauge, and its entry at the minter
  inFlight,           \* amounts on the bridge to the child gauge
  requests,           \* calls of transmit_emissions on their way to the root chain
  lastRequest,        \* when the child factory last sent one
  gaugeSDL,           \* SDL that arrived at the child gauge
  factorySDL,         \* SDL of the child factory
  minted,             \* what each user has been paid by it
  period,             \* the last checkpoint: its time and integrate_inv_supply
  inflation_rate,     \* SDL per second, for every week
  balanceOf, totalSupply,
  working_balances, working_supply,
  integrate_fraction, integrate_inv_supply_of,
  ve                  \* what the oracle says: each balance, and the total

rootVars  == <<lastPeriod, totalEmissions, rootMinted>>
callVars  == <<requests, lastRequest>>
streamVars == <<gaugeSDL, factorySDL, period, inflation_rate, integrate_fraction,
                integrate_inv_supply_of>>
stakeVars == <<balanceOf, totalSupply, working_balances, working_supply>>
cgVars == <<now, rootVars, inFlight, callVars, streamVars, minted, stakeVars, ve>>

WeekOf(t) == t \div WEEK
WeekEnd(t) == (WeekOf(t) + 1) * WEEK

-----------------------------------------------------------------------------
(* The integral of the inflation over the working supply, up to now: every *)
(* week since the last checkpoint adds what its rate gives in the time of  *)
(* it that has passed.                                                     *)
Passed(w) == Min({now, (w + 1) * WEEK}) - Max({period.ts, w * WEEK})

IntegralNow ==
  IF working_supply = 0
    THEN period.integral
    ELSE period.integral +
           SumFunction([w \in WeekOf(period.ts) .. WeekOf(now) |->
                          (inflation_rate[w] * SCALE * Passed(w)) \div working_supply])

(* What the gauge has counted for a user in total when the integral is i.  *)
FractionAt(u, i) ==
  integrate_fraction[u] +
    (working_balances[u] * (i - integrate_inv_supply_of[u])) \div SCALE

(* A mutant: the fraction of a second that is left over counts as well.    *)
RateRoundedUp(arrived) == (arrived + WeekEnd(now) - now - 1) \div (WeekEnd(now) - now)

(* What the SDL that has arrived adds to the rate of the current week.     *)
AddedRate(arrived) == arrived \div (WeekEnd(now) - now)

(* _checkpoint of the users, after which the factory pays out `paid`.      *)
CheckpointAndPay(us, paid) ==
  /\ \E i \in {IntegralNow} :
        /\ period' = [ts |-> now, integral |-> i]
        /\ integrate_fraction' =
             [u \in Users |-> IF u \in us THEN FractionAt(u, i) ELSE integrate_fraction[u]]
        /\ integrate_inv_supply_of' =
             [u \in Users |-> IF u \in us THEN i ELSE integrate_inv_supply_of[u]]
  /\ inflation_rate' = [inflation_rate EXCEPT ![WeekOf(now)] = @ + AddedRate(gaugeSDL)]
  /\ factorySDL' = factorySDL + gaugeSDL - paid
  /\ gaugeSDL' = 0

CheckpointOf(us) == CheckpointAndPay(us, 0)

(* A mutant: a boost is not limited by the stake.                          *)
WorkingBalanceUnlimited(u, stake, supply) ==
  (stake * TOKENLESS_PRODUCTION) \div 100
    + IF ve.total = 0 THEN 0
      ELSE (((supply * ve.balance[u]) \div ve.total) * (100 - TOKENLESS_PRODUCTION)) \div 100

(* The stake that counts: 40 % of it, and more for holders of veSDL.       *)
WorkingBalance(u, stake, supply) ==
  LET base  == (stake * TOKENLESS_PRODUCTION) \div 100
      boost == (((supply * ve.balance[u]) \div ve.total) * (100 - TOKENLESS_PRODUCTION)) \div 100
  IN  IF ve.total = 0 THEN base ELSE Min({stake, base + boost})

(* A mutant: the working supply keeps what a user's stake counted before.  *)
SetStakesUndiminished(us, stakes, supply) ==
  /\ balanceOf' = stakes /\ totalSupply' = supply
  /\ \E working \in {[u \in Users |-> IF u \in us THEN WorkingBalance(u, stakes[u], supply)
                                                  ELSE working_balances[u]]} :
        /\ working_balances' = working
        /\ working_supply' = working_supply + SumFunction([u \in us |-> working[u]])

(* The new stakes of the users, with _update_liquidity_limit of each.      *)
SetStakes(us, stakes, supply) ==
  /\ balanceOf' = stakes /\ totalSupply' = supply
  /\ \E working \in {[u \in Users |-> IF u \in us THEN WorkingBalance(u, stakes[u], supply)
                                                  ELSE working_balances[u]]} :
        /\ working_balances' = working
        /\ working_supply' = working_supply
             + SumFunction([u \in us |-> working[u] - working_balances[u]])

-----------------------------------------------------------------------------
Init ==
  /\ now = Genesis
  /\ lastPeriod = WeekOf(Genesis) /\ totalEmissions = 0 /\ rootMinted = 0
  /\ inFlight = EmptyBag /\ requests = 0 /\ lastRequest = 0
  /\ gaugeSDL = 0 /\ factorySDL = 0
  /\ minted = [u \in Users |-> 0]
  /\ period = [ts |-> Genesis, integral |-> 0]
  /\ inflation_rate = [w \in 0 .. WeekOf(MaxTime) |-> 0]
  /\ balanceOf = [u \in Users |-> 0] /\ totalSupply = 0
  /\ working_balances = [u \in Users |-> 0] /\ working_supply = 0
  /\ integrate_fraction = [u \in Users |-> 0]
  /\ integrate_inv_supply_of = [u \in Users |-> 0]
  /\ ve = [balance |-> [u \in Users |-> 0], total |-> 0]

(* The root chain.  user_checkpoint: the weeks that are over are counted   *)
(* once, whatever the minter owes for them (nothing, if the gauge was      *)
(* killed).                                                                *)
Counts(emission) ==
  /\ IF lastPeriod = WeekOf(now) THEN emission = 0 ELSE emission \in Emissions
  /\ lastPeriod' = WeekOf(now)
  /\ totalEmissions' = totalEmissions + emission

RootCheckpoint ==
  /\ lastPeriod # WeekOf(now)
  /\ \E emission \in Emissions : Counts(emission)
  /\ UNCHANGED <<now, rootMinted, inFlight, callVars, streamVars, minted, stakeVars, ve>>

(* transmit_emissions: minted and bridged at once, if there is anything.   *)
Transmits ==
  \E emission \in Emissions \union {0} :
     /\ Counts(emission)
     /\ totalEmissions + emission > rootMinted
     /\ rootMinted' = totalEmissions + emission
     /\ inFlight' = inFlight (+) SetToBag({totalEmissions + emission - rootMinted})

(* Anybody may call it on the root chain ...                               *)
TransmitEmissions ==
  /\ Transmits
  /\ UNCHANGED <<now, callVars, streamVars, minted, stakeVars, ve>>

(* ... and so does a request of the child chain, whose call may fail.      *)
AnswerRequest ==
  /\ requests > 0
  /\ requests' = requests - 1
  /\ Transmits \/ UNCHANGED <<rootVars, inFlight>>
  /\ UNCHANGED <<now, lastRequest, streamVars, minted, stakeVars, ve>>

(* The bridge delivers one of the amounts to the child gauge.              *)
Deliver ==
  /\ \E amount \in BagToSet(inFlight) :
        /\ inFlight' = inFlight (-) SetToBag({amount})
        /\ gaugeSDL' = gaugeSDL + amount
  /\ UNCHANGED <<now, rootVars, callVars, factorySDL, period, inflation_rate,
                 integrate_fraction, integrate_inv_supply_of, minted, stakeVars, ve>>

-----------------------------------------------------------------------------
(* The child chain.                                                        *)
ChildStep == UNCHANGED <<now, rootVars, inFlight, ve>>

(* deposit for u, by anybody; a deposit of nothing is a checkpoint only,   *)
(* as claimable_tokens is.                                                 *)
Deposit(u, value) ==
  /\ CheckpointOf({u})
  /\ IF value = 0
       THEN UNCHANGED stakeVars
       ELSE /\ totalSupply + value <= MaxStake
            /\ SetStakes({u}, [balanceOf EXCEPT ![u] = @ + value], totalSupply + value)
  /\ ChildStep /\ UNCHANGED <<callVars, minted>>

(* withdraw: the receiver is the one who is checkpointed.                  *)
Withdraw(u, to, value) ==
  /\ value <= balanceOf[u]
  /\ CheckpointOf({to})
  /\ IF value = 0
       THEN UNCHANGED stakeVars
       ELSE SetStakes({u}, [balanceOf EXCEPT ![u] = @ - value], totalSupply - value)
  /\ ChildStep /\ UNCHANGED <<callVars, minted>>

(* A mutant: only the receiver is checkpointed.                            *)
TransferOfReceiver(from, to, value) ==
  /\ value > 0 /\ value <= balanceOf[from]
  /\ CheckpointOf({to})
  /\ \E paid \in {[balanceOf EXCEPT ![from] = @ - value]} :
        SetStakes({from, to}, [paid EXCEPT ![to] = @ + value], totalSupply)
  /\ ChildStep /\ UNCHANGED <<callVars, minted>>

(* transfer and transferFrom of staked tokens.                             *)
Transfer(from, to, value) ==
  /\ value > 0 /\ value <= balanceOf[from]
  /\ CheckpointOf({from, to})
  /\ \E paid \in {[balanceOf EXCEPT ![from] = @ - value]} :
        SetStakes({from, to}, [paid EXCEPT ![to] = @ + value], totalSupply)
  /\ ChildStep /\ UNCHANGED <<callVars, minted>>

UserCheckpoint(u) ==
  /\ CheckpointOf({u})
  /\ SetStakes({u}, balanceOf, totalSupply)
  /\ ChildStep /\ UNCHANGED <<callVars, minted>>

(* A mutant: what was paid is not recorded.                                *)
PaysUnrecorded(u, total) == UNCHANGED minted

(* What the factory records of a payment.                                  *)
Pays(u, total) == minted' = [minted EXCEPT ![u] = total]

(* mint: a request for emissions, at most one a week; a checkpoint of the  *)
(* user; and what the gauge has counted for it and was not paid yet.       *)
Mint(u) ==
  /\ IF WeekOf(lastRequest) # WeekOf(now)
       THEN requests' = requests + 1 /\ lastRequest' = now
       ELSE UNCHANGED callVars
  /\ \E total \in {FractionAt(u, IntegralNow)} :
        /\ factorySDL + gaugeSDL >= total - minted[u]
        /\ CheckpointAndPay({u}, total - minted[u])
        /\ Pays(u, total)
  /\ SetStakes({u}, balanceOf, totalSupply)
  /\ ChildStep

(* The oracle's answers change: veSDL decays, points arrive.  The balances *)
(* and the total need not fit.                                             *)
VeChanges ==
  /\ \E u \in Users, b \in VeBalances, t \in VeTotals :
        ve' = [balance |-> [ve.balance EXCEPT ![u] = b], total |-> t]
  /\ UNCHANGED <<now, rootVars, inFlight, callVars, streamVars, minted, stakeVars>>

Tick ==
  /\ now < MaxTime
  /\ now' = now + 1
  /\ UNCHANGED <<rootVars, inFlight, callVars, streamVars, minted, stakeVars, ve>>

Next ==
  \/ RootCheckpoint \/ TransmitEmissions \/ AnswerRequest \/ Deliver
  \/ \E u \in Users, value \in Amounts \union {0} : Deposit(u, value)
  \/ \E u \in Users, value \in Amounts \union {0} :
        \/ \E to \in Receivers[u] : Withdraw(u, to, value)
        \/ \E to \in Users : Transfer(u, to, value)
  \/ \E u \in Users : UserCheckpoint(u) \/ Mint(u)
  \/ VeChanges \/ Tick

Spec == Init /\ [][Next]_cgVars

-----------------------------------------------------------------------------
(* Types; every payment came from SDL that is there, stakes are in bounds, *)
(* and a stake never counts for more than it is.                           *)
CGTypeOK ==
  /\ now \in Genesis .. MaxTime /\ lastPeriod \in 0 .. WeekOf(now)
  /\ totalEmissions \in Nat /\ rootMinted \in 0 .. totalEmissions
  /\ IsABag(inFlight) /\ requests \in Nat /\ lastRequest \in 0 .. now
  /\ gaugeSDL \in Nat /\ factorySDL \in Nat /\ minted \in [Users -> Nat]
  /\ period.ts \in Genesis .. now /\ period.integral \in Nat
  /\ inflation_rate \in [0 .. WeekOf(MaxTime) -> Nat]
  /\ integrate_fraction \in [Users -> Nat]
  /\ integrate_inv_supply_of \in [Users -> 0 .. period.integral]
  /\ totalSupply \in 0 .. MaxStake /\ balanceOf \in [Users -> Nat]
  /\ \A u \in Users : working_balances[u] \in 0 .. balanceOf[u]
  /\ ve.balance \in [Users -> VeBalances \union {0}] /\ ve.total \in VeTotals \union {0}

(* The running totals by which rewards are divided are the sums of the     *)
(* stakes, whatever boosts came, went or were never applied                *)
(* (_update_liquidity_limit adds the differences only).                    *)
WorkingIsSum ==
  /\ working_supply = SumFunction(working_balances)
  /\ totalSupply = SumFunction(balanceOf)

(* What u may mint now, and what the rest of the week will add for all.    *)
Unpaid(u) == FractionAt(u, IntegralNow) - minted[u]
Scheduled == inflation_rate[WeekOf(now)] * (WeekEnd(now) - now)

(* mint never fails for want of SDL: the factory holds what all users      *)
(* together may mint now and what they can earn until the week ends, for   *)
(* every order of deliveries, stakes, boosts and payments.                 *)
MintsAreCovered ==
  SumFunction([u \in Users |-> Unpaid(u)]) + Scheduled <= factorySDL

(* Every SDL the root gauge was minted is on the bridge, at the gauge, at  *)
(* the factory or paid to users: none is counted twice on its way, late    *)
(* and reordered deliveries included.                                      *)
SDLIsConserved ==
  rootMinted = SumFunction([amount \in BagToSet(inFlight) |-> amount * inFlight[amount]])
                 + gaugeSDL + factorySDL + SumFunction(minted)

(* What a user has earned in total never shrinks: no deposit, withdrawal,  *)
(* transfer, boost or checkpoint of anybody takes away what has accrued    *)
(* (mint: "Mint everything which belongs to `msg.sender`").  Withdrawals   *)
(* to others break it: they checkpoint the receiver instead of the staker. *)
AccruedIsKept ==
  [][\A u \in Users : FractionAt(u, IntegralNow)' >= FractionAt(u, IntegralNow)]_cgVars
=============================================================================
