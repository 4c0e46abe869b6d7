----------------------------- MODULE DeploySteps -----------------------------
(***************************************************************************)
(* The vocabulary of the deployment scripts: what hardhat-deploy and       *)
(* ethers offer a script, as data.  A script is a record of its file name, *)
(* its tags, the tags it depends on and the sequence of its steps, in the  *)
(* order in which the code awaits them.  Deployment says what a step does. *)
(*                                                                         *)
(* Two stores outlive a run: the deployments saved on disk (a set of       *)
(* names) and the chain (a set of facts <<contract, fact>>).  A contract   *)
(* is known by the name its script gives it; addresses, ABIs and the       *)
(* numbers of a pool are left out.                                         *)
(***************************************************************************)
EXTENDS Sequences, SequencesExt

\* isTestNetwork(chainId): a local chain, where tokens can be minted.
CONSTANT TestNetwork

(***************************************************************************)
(* Steps.                                                                  *)
(***************************************************************************)
NoStep == [do |-> "", of |-> "", fact |-> "", names |-> {}, by |-> "deployer", nonce |-> 0, skip |-> 0]
Step(do, of, fact) == [NoStep EXCEPT !.do = do, !.of = of, !.fact = fact]

\* deployments.get(name), read(name, ..) and ethers.getContract(name): the
\* run aborts unless every one of the names is saved.
Get(names) == << [NoStep EXCEPT !.do = "get", !.names = names] >>

\* What throws whatever the state.
Throw == << Step("throw", "", "") >>

\* deploy(n, ..): does nothing when n is saved (skipIfAlreadyDeployed, or
\* the same bytecode and arguments as what is saved); else it creates n and
\* saves it in one step, since a transaction that was sent is remembered in
\* .pendingTransactions and picked up by the next run.
Deploy(n) == << Step("deploy", n, "created") >>

\* A transaction that makes a contract hardhat-deploy does not know of: its
\* address is in an event, and the script saves it in a later step.
Make(n, fact) == << Step("make", n, fact) >>
Save(n)       == << Step("save", n, "") >>

\* execute(n, ..).  A call that sets something may be repeated; one that
\* succeeds only once reverts the second time; one that adds something adds
\* it again; one of the owner reverts when the contract was handed over,
\* unless the multisig is the deployer, as on a test network.
Call(n, fact)      == << Step("set", n, fact) >>
CallOnce(n, fact)  == << Step("once", n, fact) >>
CallAdds(n, fact)  == << Step("add", n, fact) >>
OwnerCall(n, fact) == << Step(IF TestNetwork THEN "set" ELSE "owner", n, fact) >>

Initialize(n) == CallOnce(n, "initialized")
\* transferOwnership(multisig), which only the owner of the moment may call.
HandOver(n)   == OwnerCall(n, "handed over")

(***************************************************************************)
(* The gauges of several chains have one address because the account       *)
(* crossChainDeployer makes them on each chain with the same nonce.        *)
(***************************************************************************)
CrossDeploy(n)     == << [Step("deploy", n, "created") EXCEPT !.by = "crossChainDeployer"] >>
\* rawTx of nothing to itself, sent to use a nonce.
SpendNonce         == << [Step("spend", "", "") EXCEPT !.by = "crossChainDeployer"] >>
\* expect(getTransactionCount(crossChainDeployer)).to.eq(n)
ExpectNonce(n)     == << [NoStep EXCEPT !.do = "expect nonce", !.nonce = n] >>
IfNonce(n, block)  == << [NoStep EXCEPT !.do = "if nonce", !.nonce = n, !.skip = Len(block)] >> \o block

(***************************************************************************)
(* Branches.  The condition is evaluated when the step is reached, and the *)
(* whole block is executed or skipped.                                     *)
(***************************************************************************)
Branch(do, n, fact, block) == << [Step(do, n, fact) EXCEPT !.skip = Len(block)] >> \o block

UnlessSaved(n, block)       == Branch("unless saved", n, "", block)
IfSaved(n, block)           == Branch("if saved", n, "", block)
UnlessHolds(n, fact, block) == Branch("unless holds", n, fact, block)
\* A check for the right moment: what it leaves out may never be done.
IfHolds(n, fact, block)     == Branch("if holds", n, fact, block)
Before(deadline, block)     == Branch("before", deadline, "", block)
\* A try around a call that reverts: the run goes on.
Try(n, fact)                == UnlessHolds(n, fact, CallOnce(n, fact))

\* for (const x of s) { Body(x) }
ForEach(s, Body(_)) == FlattenSeq([i \in DOMAIN s |-> Body(s[i])])
When(condition, block) == IF condition THEN block ELSE << >>
OnTestNetwork(block)   == When(TestNetwork, block)
OnMainnet(block)       == When(~TestNetwork, block)

(***************************************************************************)
(* Scripts: func, func.tags, func.dependencies and func.skip, by which a   *)
(* script that has done its work is kept from running again.               *)
(***************************************************************************)
Script(file, tags, dependencies, steps) ==
  [file |-> file, tags |-> tags, dependencies |-> dependencies, steps |-> steps, skip |-> FALSE]
Skipped(script) == [script EXCEPT !.skip = TRUE]

LP(pool)      == pool \o "LPToken"
Deposit(pool) == pool \o "Deposit"
Gauge(lp)     == "LiquidityGaugeV5_" \o lp

(***************************************************************************)
(* What the scripts say over and over.                                     *)
(***************************************************************************)
\* The tokens of a pool: stand-ins are minted on a test network.
Token(token)   == Deploy(token) \o OnTestNetwork(Call(token, "minted"))
Tokens(tokens) == ForEach(tokens, Token)

\* Scripts that look whether a token is saved before they deploy and mint it.
MissingToken(token)   == UnlessSaved(token, Token(token))
MissingTokens(tokens) == ForEach(tokens, MissingToken)

\* A pool by SwapDeployer.deploy or .deployMetaSwap, which clones a target,
\* initializes the clone and gives it to its own owner in one transaction;
\* the address is in an event.
FactoryPool(pool, deployer, uses, abi) ==
  UnlessSaved(pool,
    Get(uses \union {deployer}) \o Make(pool, "initialized") \o Save(pool)
      \o Get({pool} \union abi) \o Save(LP(pool)))

\* A MetaSwap deployed, initialized and given away by the script itself.
OwnMetaPool(pool, uses, savesAs) ==
  UnlessSaved(pool,
    Get({"SwapUtils", "MetaSwapUtils", "AmplificationUtils"} \union uses)
      \o Deploy(pool) \o ForEach(savesAs, Save)
      \o Get({"LPToken"}) \o Initialize(pool) \o HandOver(pool) \o Save(LP(pool)))

\* A clone of an earlier MetaSwapDeposit, initialized by the next transaction.
ClonedDeposit(deposit, target, base, pool) ==
  UnlessSaved(deposit,
    Get({target, "SwapDeployer"}) \o Make(deposit, "created") \o Save(deposit)
      \o Get({base, pool, LP(pool)}) \o Initialize(deposit))

\* A batch of PoolRegistry.addPool, which reverts as a whole; the script asks
\* first whether the first of the pools is registered.
RegisterPools(names, uses) ==
  Get({"PoolRegistry"} \union uses) \o Try("PoolRegistry", names)

\* The scripts that deploy a LiquidityGaugeV5 for each LP token.
PoolGauge(lp)   == Get({lp}) \o Deploy(Gauge(lp))
PoolGauges(lps) == Get({"Minter"}) \o ForEach(lps, PoolGauge)
==============================================================================
