# Saddle contracts in TLA+

A model of the Saddle Finance contracts (`contracts/`) and of the scripts that
deploy them (`deploy/`), model-checked with TLC on small instances, and theorems
about it proved with TLAPS for every instance. The modules are translated from the
Solidity, Vyper and TypeScript sources; the tests, the documentation and Certora's
specification (`certora/`) were read to learn what the code is meant to promise.
File names of contracts below are relative to `contracts/`.

1. [The system](#the-system): components, state, operations, hard behaviours
2. [Modules](#modules): which module models which part, and how
3. [Runs](#runs): what each run shows, its bounds and why they are enough
4. [Proofs](#proofs)
5. [Findings and remarks](#findings-and-remarks)
6. [What is not modelled](#what-is-not-modelled)
7. [Plan](#plan)

## The system

Contracts are called by transactions. One transaction is atomic: it either
changes the state as a whole or reverts and leaves no trace. What is concurrent
is the *order* of the transactions of users, owners and third parties, the
passing of time between them, and what external contracts (tokens, Synthetix,
rewarders) do inside a call. There is no process that has to run, so almost
everything that matters about the contracts is safety over all sequences of legal
calls; "can always be done" statements are about which calls are enabled.

The deployment is the opposite: one process, `hardhat deploy`, that runs the scripts
of a network in order and can end anywhere. Each script awaits dozens of transactions
and saves what it made in `deployments/<network>`; none of it is undone when a later
step fails. Whoever deploys starts the command again, also for the next release, and
every script begins anew. That this works rests on each script finding out what it
did before, and that is where the scripts differ.

| Component | State | Operations | Interacts with |
|---|---|---|---|
| **Amplification coefficient** `AmplificationUtils.sol` | ends and times of the current ramp of A | `rampA`, `stopRampA`, interpolation | read by every pool operation |
| **StableSwap arithmetic** `SwapUtils.sol`, `MathUtils.sol` | none | `getD`, `getY`, `getYD`, fees | used by the pool |
| **Pool** `Swap.sol`, `SwapUtils.sol`, `LPToken.sol`, `OwnerPausableUpgradeable.sol` | balances, fees, LP supply, paused | `swap`, `addLiquidity`, three ways to remove liquidity, admin fees, pause | pool tokens (external ERC20s), LP token |
| **Liquidity mining** `rewards/MiniChefV2.sol`, `rewards/SimpleRewarder.sol` | pools, stakes, reward debts, one more set of them in the rewarder | deposit, withdraw, harvest, emergency exit, owner's pools and rates | LP tokens, callback into the rewarder |
| **Virtual swaps** `VirtualSwap/Bridge.sol`, `SynthSwapper.sol` | pending swaps in three tables, an ERC721 token and a clone per swap | begin, complete, withdraw, settle | pools, Synthetix |
| **Voting escrow** `tokenomics/voting_escrow/VotingEscrow.vy` | locks, a line per user, a line of the total, scheduled slope changes | create, add, extend, withdraw, force-withdraw, checkpoint | SDL, reward pool |
| **veSDL rewards** `tokenomics/voting_escrow/VeSDLRewards.sol` | reward per token, rate and end, per-user marks | updateReward (called by the escrow), claim, donate, queue | escrow's balances |
| **Cross-chain gauges** `xchainGauges/` | emissions per week on the root, amounts on the bridge; rates per week, stakes, integrals and requests on the child | transmit, deliver, deposit, withdraw, transfer, mint; push veSDL | messages of AnyCall, bridges, oracle of veSDL |
| Meta pools `meta/` | a pool over another pool's LP token, cached virtual price | as a pool, plus underlying swaps | base pool |
| Guarded launch `guarded/` | deposits per account, limits | as a pool, with limits | allow list |
| Flash loans `SwapFlashLoan.sol` | fees | `flashLoan` with a callback | pool |
| Permissionless pools, registries `permissionless/`, `registries/` | tables of pools and names | deploy, register, share fees | pools |
| Fee distributor `FeeDistributor.vy` | fees per week, cursors per user | token checkpoint, supply checkpoint, claim | escrow's history |
| Gauges `GaugeController.vy`, `Minter.vy`, `LiquidityGaugeV5.vy` | votes and weights per week, epochs, stakes | vote, checkpoint, mint, deposit, withdraw | escrow, SDL |
| Reward scheduler `rewards/RewardScheduler.sol` | weeks left, last transfer | schedule, transfer, cancel | reward forwarder |
| **Deployment scripts** `deploy/`, `hardhat.config.ts` | names saved on disk, what was done on the chain, the nonce of one account | deploy, save, call, ask, spend a nonce, be cut off, be run again | all contracts, on nine networks |
| SDL, vesting, governance | allow list, pause, released amounts | transfers, release, two-step change | – |

The behaviours that are hard to test:

* **Arithmetic that rounds many times.** The curve is solved by Newton
  iterations in truncated integers, and the results are rounded again by fees,
  shares and token precisions. A sequence of small operations must not move
  value from one provider to another.
* **Two records of one fact.** The struct's balances and the tokens held; a
  stake and its debt in two contracts; the line of the total and the users'
  lines; a pending swap in a table, an ERC721 token and a clone.
* **Time inside the state.** Ramps of A, rewards per second, decaying balances:
  what an operation does depends on when earlier ones happened, on two of them
  sharing a block, and on weeks nobody touched.
* **Legal sequences nobody wrote down.** A ramp replaced half way; a one-sided
  exit of the last provider; a rewarder attached after stakes were made; a lock
  topped up by somebody else and left early; a withdrawal of zero.
* **Two chains.** Emissions cross a bridge that is late and reorders, requests for
  them get lost, and boosts come from an oracle that lags behind.
* **External calls that fail.** A rewarder without funds, a settlement that
  takes back more than was received.
* **Runs that are cut off.** A deployment has two stores, disk and chain, and a script
  writes to them in turn. A contract that is made by another contract is known only
  after its event was read and saved; a script that asks only for its first contract
  takes a half-done work for a whole one; a call that succeeds once reverts the second
  time and ends the run there for ever.

`PROJECT.json` lists each hazard at its line with the properties that cover it.

## Modules

| Module | Models | Uses |
|---|---|---|
| `SlowParameter` | abstract: a number within bounds that only time moves, and slowly | – |
| `Amplification` | `AmplificationUtils.sol` and the block timestamp | implements `SlowParameter` |
| `StableSwap` | `getD`, `getY`, `getYD`, `_feePerToken` as operators | – |
| `Swap` | the pool | EXTENDS `Amplification`, `StableSwap` |
| `SimpleRewarder` | `SimpleRewarder.sol` | – |
| `MiniChef` | `MiniChefV2.sol` and its calls of the rewarder | EXTENDS `SimpleRewarder` |
| `Bridge` | `Bridge.sol` and its `SynthSwapper` clones | – |
| `VotingEscrow` | `VotingEscrow.vy` | – |
| `VeSDLRewards` | `VeSDLRewards.sol` and the escrow's calls of it | EXTENDS `VotingEscrow` |
| `ChildGauge` | `RootGaugeV2.vy`, the bridge, `ChildGauge.vy` and `ChildGaugeFactory.vy` | – |
| `DeploySteps` | what hardhat-deploy, ethers and the contracts offer a script, as data | – |
| `DeployUtils` | the functions of `deploy/deployUtils.ts` | EXTENDS `DeploySteps` |
| `MainnetLaunch`, `MainnetPools`, `MainnetRewards`, `MainnetTokenomics`, `MainnetSideChains`, put together in `MainnetScripts` | `deploy/mainnet` | EXTENDS `DeployUtils` |
| `HardhatScripts` | `deploy/hardhat` | instance of the mainnet modules with `TestNetwork` |
| `SideChainScripts` | what the side chains' scripts share | EXTENDS `DeployUtils` |
| `ArbitrumScripts`, `OptimismScripts`, `FantomScripts`, `EvmosScripts`, `KavaScripts`, `AuroraScripts`, `BaseTestnetScripts` | the directories of that name | EXTENDS `SideChainScripts` |
| `ScriptOrder` | the order in which hardhat-deploy runs scripts | – |
| `Deployment` | the runs: steps, failures, cut-offs and runs made again | – |
| `ArithmeticLemmas` | lemmas on division, rounding and sums over finite sets | TLAPS |
| `AmplificationProofs`, `SwapProofs`, `MiniChefProofs`, `BridgeProofs`, `EscrowProofs`, `ChildGaugeProofs`, `DeploymentProofs` | theorems; `EscrowProofs` is about `VotingEscrow` and `VeSDLRewards` | the module each is named for |
| `MC*` | constants and bounds for TLC | one module each |

**Conventions.** An action is a whole transaction; its conjuncts are the
`require`s, the checked subtractions (Solidity 0.8 and SafeMath revert below
zero) and the external calls that may fail, so an action is enabled exactly
when the call does not revert. Variables have the names of the contract's
state. Token balances of the accounts involved are state too, because what a
contract holds and what it believes to hold are compared. Definitions commented
"A mutant" are wrong versions of a definition below them: each property is
known to fail when the right one is replaced by one of them. They are part of
no specification.

**Amplification.** `now` is `block.timestamp`. `RampA`, `StopRampA` are the two
owner operations, `Tick` the passing of time. `APreciseAt` is the interpolation. A pool is
created with any A below `MAX_A`; 0 is one of them, since `initialize` only requires
`_a < MAX_A`, and such a pool is `NoCurve` for ever.

**StableSwap.** The loops are recursive functions with the code's iteration
limit, stop condition (`within1`) and division order. `Reverts` is the result of
a loop that does not converge; every caller requires a number.

**Swap.** `balances` is the struct's field, `held[i]` is token i's
`balanceOf(pool)`; the difference is the admin's. A token may keep a fee of
every transfer (`TransferFee`), so `Credited` is the growth of the pool's own
balance, as the code measures it. `SendToPool`, `TransferLP`, `BurnLP` are what
holders do without the pool's contracts deciding anything. The re-entrancy lock
and the deadline are not state: with them every operation is one step.

**MiniChef.** `saddleEarned`, `saddleCredited`, `attachedAt`, and the counts `deposits`
and `reports` of roundings in the stakers' favour, are history variables. What a stake
can get is `Collectable`: a pending reward below zero, which roundings can leave, is not
taken from anybody, it makes `harvest` revert. `Updated` is `updatePool`; `Notifies` is the callback of the rewarder
and can fail, and then the whole operation does. `add` and `set` give a pool any rewarder: the
`SimpleRewarder` that the module describes, which accepts calls for one pool only, no rewarder,
or another contract. So the owner can detach the rewarder, let stakes leave, and attach it
again. It hears nothing in between, and its copies of the stakes grow stale: `untold` notes
that a copy is, or may be, larger than the stake. Another contract acts like no rewarder, but
that an operation it refuses is not taken.

**Bridge.** What an exchange or a settlement yields is Synthetix's decision and
any value of a small set. Synthetix ends the waiting period of a clone at any
time (`WaitingPeriodEnds`) and anybody may then settle it there (`Settle`). Prices are
left out: the subject is who owns what and what remains.

**VotingEscrow.** A point is a line (bias, slope, ts). `Walk` is the loop over
weeks of `_checkpoint`, with its clamps; `Reschedule` is the bookkeeping of
`slope_changes`; `CheckpointUser` is the whole of `_checkpoint` for a user.
Only the last point of the history is kept, which all operations and
`balanceOf`/`totalSupply` of the present read. `DepositFor` is `_deposit_for`.

**VeSDLRewards.** Each operation of the escrow is conjoined with the call it
makes of the reward pool, at the place where the code makes it: before the lock
changes in deposits and forced exits, after it in `withdraw`, and not at all
when all locks are released. `\E r \in {PerToken} : ...` names the value of
`rewardPerToken()` that the whole transaction uses.

**ChildGauge.** Both chains in one module. `RootCheckpoint` and `Transmits` are the
root gauge, whose emissions for the weeks that are over are any of a small set
(`Emissions`); `inFlight` is the bag of amounts on the bridge, delivered late and in
any order; `requests` are calls on their way to the root chain, which are lost when
nobody ever answers them. On the child chain `CheckpointAndPay` is `_checkpoint` of
one or two users together with what the factory pays in the same transaction,
`SetStakes` is `_update_liquidity_limit`, and `ve` is what the oracle answers, which
may be late and whose balances need not add up to its total. `working_balances` are
stale by design: they are those of the user's last interaction. The gauge is
mirrored throughout.

**DeploySteps, DeployUtils and the scripts.** A script is data: a record of its file
name, tags, dependencies, whether `func.skip` keeps it from running, and the sequence
of its steps, one for each awaited call that reads or changes a store. The definition
`AddToGaugeController_510` is `deploy/mainnet/510_...ts`. A step has an effect, a fact
`<<contract, fact>>` on the chain or a name on disk, and a way to fail:

| Step | In the scripts | Fails |
|---|---|---|
| `Get(names)` | `get`, `read`, `ethers.getContract` | unless all are saved |
| `Deploy(n)` | `deploy`: on chain and on disk; nothing when `n` is saved | – |
| `Make(n, f)`, `Save(n)` | a factory's transaction; `save` of the address in its event | – |
| `Call`, `CallAdds` | `execute` of a setter; of something that adds again | – |
| `CallOnce`, `Initialize` | `execute` of what succeeds once | the second time |
| `OwnerCall`, `HandOver` | `execute` by the owner; `transferOwnership` | once handed over |
| `ExpectNonce`, `Throw` | `expect(getTransactionCount)`; a call that never succeeds | at another nonce; always |
| `UnlessSaved`, `IfSaved`, `UnlessHolds`, `IfNonce` | `if` around a block; `try` around a read | – |
| `Before(t, ..)`, `IfHolds` | `if` the right moment is there: before a time, after something else was done | – |

Parameters, addresses and ABIs are left out: no property is about their values.
`deploy` is one step because hardhat-deploy remembers a transaction it sent
(`.pendingTransactions`) and picks it up in the next run; a factory's call is two,
because it does not know what the call makes. What hardhat-deploy does is external
code and modelled from its use; the sets of names that the modules produce were
compared with the files in `deployments/` (next section).

**Deployment.** `release` is the plan of a run with what was on disk and chain before
it; `at` and `pc` are the script and the step that come next; `saved`, `chain` and
`sent` are what the release adds to the stores. `Check` ... `Branch` are the steps,
`Fail` is a step that throws, `NextScript` and `Finish` are hardhat-deploy's loop,
`Crash` ends a run between any two steps, `Rerun` starts the plan from its first
script. Time passes on its own (`DeadlinePasses`): `late` are the deadlines that are over, and
nothing makes them pass or keeps them from it. `hit` (where a run threw or was cut off),
`missed` (the scripts that left something out because it was too late for it, or too early)
and `twice` are history variables.

## Runs

All runs are exhaustive over their bounds. No run of the contracts assumes fairness:
no property of theirs says that something eventually happens, because nothing in the
code obliges anybody to call it (for `deploy` see below). "Can be done" properties (`ExitAlwaysPossible`,
`OwnerCanFinish`) are stated with `ENABLED` in every reachable state, which is
stronger than what fairness could give. The runs say `CHECK_DEADLOCK FALSE`
because time and the number of operations are bounded.

| Run | Shows | Bounds, and why they are enough |
|---|---|---|
| `curve` | `getD` solves the StableSwap equation to a unit, `getY` keeps it, `getYD` reaches the D it is asked for | all pools of two and three tokens with balances up to a small bound, three values of A from nearly constant-product to nearly constant-sum; roundings are largest on small balances |
| `pool` | shares stay backed on every side, everybody can always leave, a paused pool dilutes nobody, the value of a share holds up to `Dust` | two users, five operations: first deposit, second deposit, a swap or an imbalance, a transfer, an exit |
| `pool_ramp` | the pool while its A is ramped: types and fees, solvency, admin fees untouched, both ends of a ramp legal and A usable unless the pool was created with `_a = 0` and has no ramp (`RampIsGentle`, `AIsUsable`), no shares without a curve (`SharesHaveACurve`), and A never jumps (`ANeverJumps` is refinement of `SlowParameter`) | one user and the owner, with changes of fees, unequal precisions and a token that keeps a part of transfers; ramps of at least 3 ticks in 6 ticks of time: a ramp that ends and one begun after it, ramps replaced and stopped at every moment; pools created with A = 0 and with A = 2; A_PRECISION 10, so A takes values between whole numbers |
| `chef` | total points are the sum, stakes are backed, rewards within what was set aside, the rewarder pays only since it was first attached unless a stake left without its knowledge, and within a block nobody earns, with the exceptions of a detached rewarder that `OnlyTimeEarns` names | two stakers, two pools, six operations after the owner added the first pool, among them the rewarder attached late, detached and attached again with stakes that came and went between, gifts of LP tokens, points of zero; `Delegates` leaves out "another", whose steps are those of "none" |
| `chef_emergency` | the emergency exit can be blocked by a reward (finding) | as above |
| `bridge` | the three records of a pending swap agree, no clone is destroyed with synths in it, and its owner can always finish a settled swap | three swaps, two users, two pools with different mediums; a settlement that takes back everything, nothing, or adds |
| `bridge_storage` | a finished swap leaves an entry (finding) | as above |
| `escrow` | `totalSupply` is the sum of `balanceOf` now and at every later time; a weight is that of the lock; locks are backed | two users, weeks of two ticks, locks of up to two weeks, six ticks: locks that end, are extended, topped up by others, left early, released by the admin, checkpoints on and off the week boundary; amounts below and above one unit of slope |
| `escrow_rewards` | the reward pool can pay every claim, never reverts in the escrow's calls, and what somebody earned is not taken by what others do in the same block | the same escrow, five operations at any of six ticks: two locks, a reward, a claim into the lock, an exit |
| `child_gauge` | the factory holds what all users may mint and what the week will still add (`MintsAreCovered`); running totals are the sums of stale stakes; every SDL is on the bridge, at the gauge, at the factory or paid; what accrued never shrinks | two users, seven operations at any of seven ticks over three weeks of three ticks, the first begun half way: two stakes, an emission, its delivery, boosts, transfers, exits and mints in every order; emissions that do not divide by what is left of the week; withdrawals are to oneself |
| `child_gauge_exit` | a withdrawal sent to somebody else takes what the staker had accrued (finding) | as above, with any receiver |
| `deploy` | `LossIsLocal`: once a run went through, every script has done all it is for; `OnceOnly`: until then a script clones, adds or mints again only if it was itself cut off and is listed; `SameNonce`: a contract of the cross-chain account has its nonce or none; `LaterRunsAreQuiet`: a run after that changes nothing and throws nowhere; `Finishes`: started again, a run gets to the end | all releases below, two cut-offs: one cut-off reaches every half-done state of a script, two reach those of a run that repairs one |

Scaled constants (precisions of 10 instead of 100, fees of a third instead of a
hundredth, weeks of two ticks) make roundings and boundaries *more* frequent
than in production, where most of them are one unit of 10^18. `Dust` is the
rounding that `ShareValueHolds` allows a step; it is the smallest for which the
property holds. Where roundings add up over steps a property counts the operations that
round in somebody's favour: `EarnedWithinCredit` allows one unit per deposit and none for
withdrawals and harvests, `RewarderPaysSinceAttached` one per report of a stake.

### The releases of `deploy`

`MCDeployment` makes a release of

* every `Width` = 3 scripts in a row of a network, on top of what the scripts before
  them leave behind: new scripts were released a few at a time, and scripts affect each
  other through what they save, mostly from neighbours;
* every script that `func.skip` keeps from running by now, as it ran when it was new;
* all scripts of a network again, after all of them have run (`Again`);
* the whole local directory from nothing, and the plans of 16 sets of tags that the
  tests give to `deployments.fixture` (`Fresh`). These are never cut off: the local
  network keeps nothing.

What stands on disk without a script having saved it (`...External`, mostly tokens) was
taken from `deployments/<network>`, where the names that the modules save are found
again. The differences are known ones: on mainnet `MetaSwap`, the LP tokens of the
community pool, `LPTokenV1` and `SwapFlashLoanV1` are used and not on disk; on optimism,
fantom and evmos the later scripts use `MetaPoolDeposit`, which is on disk, in the
place of a `MetaSwapDeposit`, which is not.

Some scripts do *not* keep the promises above, and the sets `...Fragile` of
`MCDeployment` name them by file: nobody claims that each script can be cut off. The
sets are next to as small as they can be: of the 120 entries 117, each taken out by itself,
make TLC find a property violated. The other three are the permissionless scripts of arbitrum,
optimism and fantom, whose registry belongs to the multisig: no property is violated without
them, but their questions inside a longer question are beyond `Careful`, the condition on the
text of a script that the proofs rest on. The entries are of these kinds, those that bite
hardest listed in `PROJECT.json` under "hazards" at their lines:

1. the whole body is behind one question about the first thing it makes;
2. a contract is made by another and saved by a later step;
3. a call that succeeds once has no question in front of it;
4. the owner is changed before the last call of the owner;
5. the script throws in its first run or in each (`deployMetaswap`, a pool without a
   deposit, a nonce expected that the script then uses, a name saved by a later script);
6. a run after the deadline of the script leaves its body out, done or not (evmos 191).

A property excuses a fragile script only for its own shortcomings: `LossIsLocal` for what it
left undone when it was the one that was cut off, threw or missed its occasion; `OnceOnly` for
what it did twice when it was the one that was cut off; `LaterRunsAreQuiet` for its own steps;
and `Finishes` only speaks of releases without fragile scripts. Everything else on the nine
networks keeps them, and a script that is added or changed has to. `SameNonce` excuses
nothing. What this means for the hazards of the listed scripts is said there: most of them are
described by the list and caught by no property.

`OnceOnly` is about the runs that are made until one goes through the plan, and about listed
scripts, too: a window of three scripts is cut off in one, and the other two, which clone pools
and add rewards and were gone through before, are run again. After that `LaterRunsAreQuiet`
speaks; it leaves out the listed scripts, one of which does act again whenever it is run:
`mainnet/302`, which is why its `func.skip` was set by hand after it had run.

The run evaluates the assumptions of the theorems over the same releases.
`AgainAssumption`: what the scripts before leave behind is what a later release relies on.
`CarefulAssumption`: in every release of a network that keeps its state, each script that is
not fragile is `Careful`, a condition on its text alone. `OccasionsAssumption`: a script that
does something at the right moment only is listed. `AtOnceAssumption`, unless everything
has been deployed before, for each script, fragile or not: it is done once a run has gone
through it without being cut off (`DoneAtOnce`); it makes or adds what neither the releases before nor
a step before it did (`FirstToAct`); and where state is kept, it asks, in front of what it makes
or adds, for what its own block establishes, or no script comes after it (`GoesBy`).
`NoncesAssumption`: each
release that makes a numbered contract asks for its nonce (as the side chains do) or sends all
in order from one script (670 on mainnet). A script with a mistake of that kind is refused
before anything is run, so the mutants of `LossIsLocal`, `OnceOnly` and `LaterRunsAreQuiet` are of the machine:
checks that take a saved contract for one that is set up, or that do not see what this release
did itself.

Fairness: `WF_vars(Run)`, a process that was started executes its next step unless it is
cut off, and `WF_vars(~finished /\ Rerun)`, whoever deploys starts the command again until
it went through. Cut-offs are not fair and bounded by `MaxCrashes`, and no deadline need pass. Deadlock is not
checked: a local run stops when it is done.

## Proofs

What is proved holds for every finite set of users, every number of pools, tokens and
swaps, every precision, rate, fee, amount, time and ramp that satisfies the modules'
assumptions (`AmplificationAssumption`, `SwapAssumption`, `MiniChefAssumption`, ...).
These say no more than the code requires in its constructors and setters (`InitialAs` is
all of `0 .. MAX_A - 1`, as in `Swap.sol:157`), or facts of the chain
(sets of users and of values that an owner picks from are finite, no block has timestamp 0);
and for every set of releases whose scripts keep to `CarefulAssumption`, `OccasionsAssumption`,
`AtOnceAssumption` and `NoncesAssumption` (see `DeploymentProofs` below; TLC evaluates all four, and
`ReleasesAssumption` and `AgainAssumption`, over the real scripts). Nothing else is assumed,
with two exceptions: two theorems about the gauge have the hypothesis
`ToThemselves`, without which they are false (`child_gauge_exit`), and `SharesAlwaysBacked`
that the admin fee is never 100 %, without which it is false too (see Remarks). The
repository's own specification has the same condition: `certora/spec/Swap.spec:200`
requires `getAdminFee() < getMaxAdminFee()` of `removeLiquidityOneToken` in
`oneUnderlyingZeroMeansAllUnderlyingsZero`. The run `pool` has an admin
fee of 50 %; `pool_ramp`, where that theorem is not at stake, raises it to 100 % as well.

* `ArithmeticLemmas`: what truncated division preserves (a part is no more than
  the whole, monotone, bounded interpolation, a sum of quotients), and what sums over
  finite sets do: one summand taken out, added or changed, sums added and compared. The
  sum of the community modules is a recursion over subsets. The library's induction
  theorems take an operator as a parameter, which the provers cannot instantiate; here
  induction is stated with *sets* (`SubsetInduction`, `NumbersInduction`), in the form that
  a family of sets that contains the empty one and is closed under adding an element
  contains all, and shown from the smallest counterexample.
* `AmplificationProofs`: the inductive invariant `AmpInv` is `AmpTypeOK`
  and `RampIsGentle`: the pool has no curve and no ramp (`NoCurve`), or both ends of its ramp
  are legal values of A (`GentleRamp`). No step leads from one case to the other: `rampA`
  multiplies by at most `MAX_A_CHANGE` and asks for a target above 0, which no multiple of 0
  reaches, and `stopRampA` needs a ramp. `RampIsGentle` alone does not say that the *current*
  A is legal; the interpolation lemmas derive `AIsUsable` from it. `AmplificationIsSlow` is
  the refinement: every step of `Amplification` is a step of `SlowParameter` or
  leaves A and the time alone. The delicate case is a replaced ramp: the new line
  starts at the value of the old one at that moment.
* `SwapProofs`: the inductive invariant `SwapInv` is `AmpInv`, `TypeOK` and
  `Solvent`. None of the last two is inductive alone: solvency of a withdrawal
  needs that fees are a part of what they are taken from, types need that no
  payment exceeds what is held. The proof treats `getD`, `getY` and `getYD` as
  unknown numbers: custody does not depend on the curve. From the invariant follow
  `PoolTypeCorrect`, `PoolSolvent`, `PoolAdminFeesSafe` and `PausedPoolKeepsProRata`.
  `SharesAlwaysBacked` needs no more of `getD` and `getY` than that they revert where a
  balance is zero: then what a trade or an exit in one token pays out is below the balance,
  since a part of the fee, at least, stays. `removeLiquidity` is the other way out, and leaves
  nothing only to the last share (`ProperPart`).
  `LeavingAlwaysPossible` is what `ExitAlwaysPossible` says with `ENABLED`, which the provers
  cannot expand: `CanLeave` lists the conditions of `removeLiquidity` for all that somebody
  holds, and `LeavingIsAStep` shows that when they are met the step exists. It needs
  `SupplyIsSum`, that the LP tokens add up to `totalSupply`.
  `PoolKeepsAmplification` carries the theorems about A over to the pool: every step of
  the pool is a step of `Amplification` or leaves A and the time alone.
  `SharesAlwaysHaveACurve` says what a pool created with `_a = 0` can do to its users: nothing,
  since `getD` reverts in the first deposit, so nobody ever has a share of it.
* `MiniChefProofs`: `ChefInv` is the types, the sum of the points and that stakes are
  backed. They need each other: the owner subtracts a pool's old points from the total,
  which stays a number only because the total is their sum. `OnlyTimeEverEarns`, an action
  property, needs in addition what the rewarder has heard (`KnowsIfTold`): until a stake
  shrinks untold, its copy of a stake is no larger than the stake (`RewarderKnows`). After that
  nothing bounds it, and the property names the two ways in which somebody then gains within a
  block: stakes that leave a detached rewarder, and copies of stakes in an empty pool. `EarnedAlwaysCovered`: the
  quotients of the property round, so the invariant `CreditInv` speaks of the numbers they
  are made of. Behind a stake there is amount times reward per share, less debt times
  precision, if that is positive, and precision times what was paid; their sum over a
  pool is at most precision times what was set aside and the deposits (`Backed`). An update
  raises it by no more than the reward, because no more is staked than held
  (`UpdatedCredit`); a withdrawal, a harvest and an emergency exit never raise it, a deposit by
  less than a unit. `RewarderAlwaysPaysSinceAttached` is the same argument for the rewarder, with
  `RewardInv`: before it was first attached it knows of no stake, so what its
  clock makes of all time before is nobody's. What is owed in the rewarder's token
  (`RewardCovers`) is kept as long as no stake has left untold, detached or not.
* `BridgeProofs`: neither `RecordsAgree` nor `NothingLostWithClone` is inductive. `BridgeInv`
  adds that numbers not yet given away are blank, and that only a living clone can still be
  settled, or a rebate of Synthetix would reach one that is gone. `FinishingAlwaysPossible`
  is `OwnerCanFinish` with its `ENABLED` spelled out: `CanFinish` lists the conditions of the
  last operation on a settled swap, and `FinishingIsAStep` shows that when they are met the
  step exists.
* `EscrowProofs`, the escrow: `EscrowInv` expresses every line by the locks. A user's line is
  the line of the lock at the user's last checkpoint; the line of the total is the *sum of
  the locks' lines* at its last checkpoint; for each later week the scheduled change is
  minus the sum of the slopes of the locks that end there. `WalkFollows` is the
  heart: the loop over weeks, from any such line to any later time, ends at the sum of the
  locks' lines at that time, since between two stops no lock ends. It also shows that no clamp at
  zero ever takes effect. `TotalAlwaysSum` and the others follow at once.
* `EscrowProofs`, the rewards: `RewardsInv` adds types, the order of the times and marks
  (hence `UpdatesNeverRevert`) and `Backed`: what users are owed at their *present*
  balances, what is queued and what will be paid out until the end of the period is in the
  pool, all multiplied by `SCALE`. Balances only fall by themselves, which leaves more;
  a deposit raises one, but after its user is settled; both divisions round down. Every step is
  one of three kinds (`Kinds`), and `RewardsAlwaysCovered` and `EarnedAlwaysKept` are shown
  for the kinds. The delicate case of the latter is a released lock that
  leaves without an update: the total shrinks under what has accrued, and if it shrinks to zero
  nobody has a balance left to lose by.
* `ChildGaugeProofs`: `GaugeInv` is the types, the running totals and the conservation of SDL,
  each of which needs the types of the others. For `AccruedAlwaysKept` the integral over
  weeks is shown to grow (`IntegralGrows`); for `MintsAlwaysCovered`, `CoveredInv` adds
  what all users are owed in the units of the integral, and that no rate is set beyond
  the current week. A payment is covered because each checkpoint rounds down twice. Both are
  proved under `ToThemselves`: withdrawals are to the caller.
* `DeploymentProofs`, whatever the scripts: `DeploymentTypeCorrect`, and the invariant
  `SkipInv`, on which the rest is built: what the run of the moment has passed has had its effect
  or was left out by a check (`PassedIsSettled`), and so has everything once a run went
  through (`FinishedIsSettled`), since the stores only grow. Time that passes changes nothing
  but `late` (`Stays`), so all but the types take it together with a stutter (`WhatHappens`).
* `DeploymentProofs`, careful scripts. What makes a script safe to cut off is a property
  of its text (`Careful` in `Deployment`), for the most part: blocks nest; a check for something that
  its own block establishes is answered only by who has done the *whole* block by then, in
  this script or another (`ClosesLast`: the pool is asked for, so it is saved last); what may
  not be done twice is behind a check for that very fact (`MakesOnce`); and a call that may
  revert is behind a check that its block answers (`AsksFirst`). From this follow, for any
  plan and any number of cut-offs:
  `CarefulScriptsLoseNothing` by `LossInv` (where a run stands, all steps on its way there had
  their effect, `Entered`; a check that leaves its block out leaves out nothing undone,
  `ClosedIsDone`); that such a script makes and adds nothing twice, by `OnceInv` (inside such a
  block, what was asked still does not hold, `AskedFirst`); and `LaterRunsStayQuiet` by `QuietInv`
  (after a finished run nobody is ever inside a block that establishes its own answer,
  `InsideNothingIsLeftOut`; a local run ends with its first, `FreshEnds`). `CarefulAssumption`
  is how a mistake in a script shows: one that saves its pool before it adds the deposit is
  not careful and TLC refuses it before it runs anything. On the networks that keep their
  state 151 scripts that do anything are careful: 38 of them have calls that may revert or act
  twice, 17 have a longer block that answers its own check.
* `DeploymentProofs`, scripts that were not cut off: what is left of `LossStaysLocal`, which is
  `LossIsLocal` in full. A fragile script need not
  be careful, so a check in it may have been answered by a script before it that is not done
  itself. What holds instead is that in a run that is not cut off the rest of the block is done
  or *promised*: the run is on its way to a step with the same effect, and no check in between
  can leave that one out (`Promised`, kept by every step that does not end the run,
  `PromiseKept`). `LocalInv` says so of the checks that are answered (`AnsweredIsHeld`) and of
  the steps the run has passed (`PassedIsHeld`), for a script that is yet to be gone through
  (`Waits`); when its end is reached all promises have come due (`ReachedIsDone`). A block that
  is for a contract saved elsewhere ("if saved", as in `deploySwapFlashLoan`) is left out for
  good, or made up for by the deployment that follows it. A script that missed its occasion has
  one in its text (`MissedItsOccasion`), so it is listed.
* `DeploymentProofs`, made once: `NothingMadeTwice` is `OnceOnly` in full. What makes it more than
  a statement about careful scripts is that a listed script, which asks too little to be cut off
  itself, is run again because *another* one was. `MadeInv` has two parts. Everything on the
  chain was established behind the place of the run, or in a script that an earlier run came to
  (`OnlyForward`); with `FirstToAct` this means that what a script makes or adds is there only
  if an earlier run ended in that script or beyond it (`FoundByALaterRun`). If it ended beyond,
  the script was gone through in one go and is done (`ReachedIsDone`), so inside its blocks no
  check is true or becomes true (`InsideItIsAsked`); but by `GoesBy` the step is behind a check
  that one of the effects in its block answers, and that is there (`EffectedIsFound`).
* `DeploymentProofs`, nonces: `NoncesAreKept` is `SameNonce` in full, for fragile scripts too.
  Where scripts ask, `KnownNonces` says that behind a check, on a straight way with nothing sent
  in between, the account's next nonce is the one asked for; so a numbered contract that was
  sent is below the account's nonce (`NumberedAreSent`), and one that is reached is not yet made.
  Where one script sends everything without asking, the account's nonce counts the contracts
  of that script that are saved, and they are its first ones (`SentInOrder`).

Only model-checked:

* What the Newton iterations compute (`curve`) and hence `ShareValueHolds`. Convergence is
  a fact about the reals behind the integers, for which nothing is at hand.
* `ExitAlwaysPossible`, `OwnerCanFinish` and the two findings as stated with `ENABLED` (the
  first two are proved with the conditions spelled out), and `Finishes`, which is liveness:
  the provers have neither.
* That the real scripts keep to `CarefulAssumption`, `OccasionsAssumption`, `AtOnceAssumption`
  and `NoncesAssumption`: data, which TLC evaluates.

The arithmetic of `StableSwap` and the loops over weeks are written with recursive functions,
not recursive operators, so that the modules above them can hold theorems.

## Findings and remarks

Findings (each with a run that TLC refutes, see `PROJECT.json`):

* `emergencyWithdraw`, "without caring about rewards", reverts when the rewarder
  cannot pay.
* `Bridge.completeToSynth` says it deletes the storage of the swap; an entry
  stays.
* `ChildGauge.withdraw` checkpoints the receiver of the LP tokens, but it is the
  caller whose balance changes. If they differ, what accrued to the caller since its
  last checkpoint is counted with the new, smaller stake. `AccruedIsKept` holds for
  withdrawals to oneself (`child_gauge`) and fails for others (`child_gauge_exit`).
  `MintsAreCovered` is claimed for withdrawals to oneself only.

Statements of the repository that the code does not keep and that have no run of
their own: a pool can be empty of LP tokens and not of balances after
`removeLiquidityOneToken` of the whole supply, against `certora/spec/Swap.spec:223`;
`getD` needs more than the "4 loops or less" of its comment on unbalanced pools with
a small A; `mint_many` of the child factory does not stop at the first empty entry as
the minter's does, so it reverts unless given 32 gauges; `set_killed` of the child
gauge sets a flag that nothing reads.

Of the deployment: `deployMetaswap` "saves the LP token deployment" (the comment above
it, `deploy/deployUtils.ts:38`), and its first run ends before that, as its deposit
contract looks the LP token up. `deployCrossChainSystemOnSideChain` sends an empty
transaction "to bump it untill it reaches 11" (`deploy/deployUtils.ts:914`), and on an
account that nobody used it reaches 12. `registerPools` "registers any that are not
currently registered" and registers all. `deploy/optimism/250_deploy_child_gauge_impl.ts`
speaks of nonce 7 and uses 11.

Some scripts pass over what they are for without an error. On arbitrum, optimism and fantom
`MasterRegistry` was deployed with the multisig as its admin, so `deployPermissionlessPoolComponents`
registers neither the fee collector nor the deployer of pools; it prints that "multisig tx
required" and is done (`IfAdmin`). `evmos/191` adds the rewards before a time in May 2022, and only
if exactly the first pool has points: cut off before that and started again too late, or started
when `190` was cut off between its deployment and its batch, it prints that it skips them and the
release is finished without them.

Remarks that contradict no promise: `initialize` requires the admin fee to be
*below* its maximum, `setAdminFee` allows the maximum (100 %), where roundings are
no longer paid by the fee, and `removeLiquidityOneToken` of nearly all shares can take the
last unit of its token (100 and 2 units deposited at A = 5 with a swap fee of 4 %: 679 of 685
shares withdrawn in the first token leave balances 0 and 2): then `getD` reverts in every
operation but `removeLiquidity`, and adding liquidity fails; `initialize` accepts `_a = 0`,
which makes a pool without a curve that no ramp can repair and that refuses every deposit; `set` and
`setSaddlePerSecond` apply to the time since the last `updatePool` too unless the
caller updates first; a rewarder that is detached and attached again pays for stakes that have
left in the meantime, as it is told of neither (`MiniChefV2.set` with `overwrite`); a veSDL holder who does not claim before the lock ends gets
nothing for the time since the last update, because the balance is zero then.

## What is not modelled

* Formats, events, getters without a caller, ERC20 approvals (given), permits,
  gas, and casts that the amounts of the model do not reach.
* The list of components with their status is in `PROJECT.json`. Earlier versions
  (V1, V2) are predecessors of the modelled pool. Helpers, interfaces and mocks hold
  no logic of the system.
* In the deployment: values of parameters, the accounts that hold the roles (but whether the deployer is the admin of `MasterRegistry`), gas and the
  verification of sources; scripts whose body is commented out or only reads and prints
  have no steps. `checkTokens`, whose promises are not awaited in two functions, is left
  out there (all tokens of the networks that call them are saved). Not modelled at all
  are `ropsten`, `evmos_testnet` and `kava_testnet`, earlier copies of mainnet, evmos and
  kava for networks that are switched off, and `deployScriptTemplate.ts`, which is empty.
* Tests, the tasks of the development node (`tasks/`) and one-off queries (`scripts/`).
* In the escrow: history of points and block numbers (used by views of the past),
  the checker of contract wallets, two-step changes of admin. A behaviour is
  shorter than the loop over 255 weeks.
* In the cross-chain gauges: external rewards of a gauge, approvals and permits, the
  rate within a week on the root chain (minter and gauge controller), deploying and
  mirroring gauges, fees of bridges. A behaviour is shorter than the loop over 256
  weeks.
* In the rewards: gov's `sweep`, which may take everything and about which nothing
  could be said, and the whitelist of accounts that may lock a reward for others.

## Plan

The contracts that are left, in this order, most important first; each module is written
so that it can be proved about (constants with named assumptions, one action per
operation, no recursive operators).

1. `Gauges`: `Minter` with the epochs and committed rates, and `GaugeController`
   with votes whose slopes expire. Properties: nobody mints more than a gauge's
   share of the emissions; sums of weights are the sums of the votes, also in weeks
   nobody touched. Abstract specification: a stream of emissions split by weights.
2. `VeOracle`: points of veSDL pushed to the child chain by messages that are late,
   lost or reordered, composed with `ChildGauge` in place of its free `ve`; external
   rewards of the child gauge. Properties: an older point never replaces a newer one;
   what is stored was true at its time.
3. `FeeDistributor` over `VotingEscrow` extended by the history of points: what is
   claimed for a week is no more than the week's fees.
4. `MetaSwap`: two instances of the pool with the cached virtual price.
5. `Vesting`, `RewardScheduler`, `SDL`: released never exceeds vested, instalments at
   least a week apart, transfers before they are enabled.
6. Permissionless fee sharing and the registries; the guarded launch.

Of the deployment: the steps of two releases in parallel, from two machines with a
`deployments/` directory each.

Theorems to come: vesting bounds; the order of points in `ChildOracle`.
