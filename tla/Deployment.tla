----------------------------- MODULE Deployment ------------------------------
(***************************************************************************)
(* What `hardhat deploy` does with the scripts of a network.  A release is *)
(* the plan it runs (scripts in the order hardhat-deploy gives them) and   *)
(* what stood on the chain and in deployments/<network> before.  The run   *)
(* executes one step after the other; a step that throws ends it, and it   *)
(* may be cut off between any two steps: the machine, the node or the gas  *)
(* gives out.  What was saved and what was sent stays, and a later run     *)
(* starts from the first script again, which is how deployments are made   *)
(* to go on (package.json: "deploy": "hardhat deploy").                    *)
(***************************************************************************)
EXTENDS Naturals, Sequences, FiniteSets

CONSTANTS
  Releases,     \* the releases, each to be deployed by itself
  MaxCrashes    \* how often a release is cut off, at most

Kinds == {"get", "deploy", "make", "save", "set", "once", "add", "owner", "throw", "spend",
          "expect nonce", "if nonce", "if saved", "if holds", "before", "unless saved", "unless holds"}
Steps == [do : Kinds, of : STRING, fact : STRING, names : SUBSET STRING, by : STRING,
          nonce : Nat, skip : Nat]
Scripts == [file : STRING, tags : SUBSET STRING, dependencies : Seq(STRING), steps : Seq(Steps), skip : BOOLEAN]

\* live: on a network that keeps its state, where a run can be cut off and
\* made again; again: everything in the plan has been deployed before;
\* fragile: the files of the scripts that need a hand after a failure.
ReleaseRecords ==
  [plan : Seq(Scripts), saved : SUBSET STRING, chain : SUBSET (STRING \X STRING), sent : Seq(STRING),
   live : BOOLEAN, again : BOOLEAN, fragile : SUBSET STRING]

ASSUME ReleasesAssumption == \A r \in Releases : r \in ReleaseRecords
ASSUME MaxCrashesAssumption == MaxCrashes \in Nat

\* What step is for is found in the stores.
FoundIn(step, names, facts) ==
  CASE step.do \in {"deploy", "save"}                      -> step.of \in names
    [] step.do \in {"make", "set", "once", "add", "owner"} -> <<step.of, step.fact>> \in facts
    [] OTHER                                               -> TRUE
ASSUME AgainAssumption ==
  \A r \in Releases : r.again =>
    \A i \in DOMAIN r.plan : r.plan[i].skip \/
      \A k \in DOMAIN r.plan[i].steps : FoundIn(r.plan[i].steps[k], r.saved, r.chain)

VARIABLES
  release,   \* the release that is deployed
  status,    \* of the run: "running", "done", or ended early: "threw", "stopped"
  at, pc,    \* the script of the plan and its step that come next
  saved,     \* the names that this release saved on disk
  chain,     \* the facts <<contract, fact>> that it established on the chain
  sent,      \* the transactions of crossChainDeployer: what each deployed
  twice,     \* the scripts that made or added something again
  hit,       \* the scripts in which a run threw or was cut off
  missed,    \* the scripts that did not find the occasion for what they do
  late,      \* the deadlines that have passed
  crashes,
  finished   \* whether a run ever went through the plan

stores == <<saved, chain, sent, twice>>
vars == <<release, status, at, pc, saved, chain, sent, twice, hit, missed, late, crashes, finished>>

Plan == release.plan
This == Plan[at]
Now  == This.steps[pc]

IsSaved(name)     == name \in release.saved \/ name \in saved
Holds(name, fact) == <<name, fact>> \in release.chain \/ <<name, fact>> \in chain

Init ==
  /\ release \in Releases
  /\ status = "running" /\ at = 1 /\ pc = 1
  /\ saved = {} /\ chain = {} /\ twice = {}
  /\ sent = release.sent
  /\ hit = {} /\ missed = {} /\ late = {} /\ crashes = 0 /\ finished = release.again

\* The run is at a step of one of these kinds.
At(kinds) ==
  /\ status = "running" /\ at <= Len(Plan) /\ ~This.skip
  /\ pc <= Len(This.steps) /\ Now.do \in kinds
Advance == pc' = pc + 1 /\ UNCHANGED <<release, status, at, hit, missed, late, crashes, finished>>

(***************************************************************************)
(* The steps.                                                              *)
(***************************************************************************)
\* A mutant: the expected nonce or a later one.
FulfilledFromNonceOn ==
  CASE Now.do = "get"          -> \A name \in Now.names : IsSaved(name)
    [] Now.do = "expect nonce" -> Len(sent) >= Now.nonce
    [] Now.do = "throw"        -> FALSE
Fulfilled ==
  CASE Now.do = "get"          -> \A name \in Now.names : IsSaved(name)
    [] Now.do = "expect nonce" -> Len(sent) = Now.nonce
    [] Now.do = "throw"        -> FALSE
Check ==
  /\ At({"get", "expect nonce", "throw"}) /\ Fulfilled
  /\ Advance /\ UNCHANGED stores

\* skipIfAlreadyDeployed: what is saved is used.
Reuse ==
  /\ At({"deploy"}) /\ IsSaved(Now.of)
  /\ Advance /\ UNCHANGED stores

DeployNew ==
  /\ At({"deploy"}) /\ ~IsSaved(Now.of)
  /\ saved' = saved \union {Now.of}
  /\ chain' = chain \union {<<Now.of, Now.fact>>}
  /\ sent' = IF Now.by = "crossChainDeployer" THEN Append(sent, Now.of) ELSE sent
  /\ Advance /\ UNCHANGED twice

SaveName ==
  /\ At({"save"})
  /\ saved' = IF IsSaved(Now.of) THEN saved ELSE saved \union {Now.of}
  /\ Advance /\ UNCHANGED <<chain, sent, twice>>

\* A call that succeeds once was made, or the caller is not the owner any more.
Reverts ==
  \/ Now.do = "once"  /\ Holds(Now.of, Now.fact)
  \/ Now.do = "owner" /\ Holds(Now.of, "handed over")

Transact ==
  /\ At({"make", "set", "once", "add", "owner"}) /\ ~Reverts
  /\ chain' = IF Holds(Now.of, Now.fact) THEN chain ELSE chain \union {<<Now.of, Now.fact>>}
  /\ twice' = IF Now.do \in {"make", "add"} /\ Holds(Now.of, Now.fact)
              THEN twice \union {at} ELSE twice
  /\ Advance /\ UNCHANGED <<saved, sent>>

Spend ==
  /\ At({"spend"})
  /\ sent' = Append(sent, Now.of)
  /\ Advance /\ UNCHANGED <<saved, chain, twice>>

\* A mutant: what this release did itself is not seen.
LeftOutAsAtStart(step) ==
  CASE step.do = "unless saved" -> step.of \in release.saved
    [] step.do = "unless holds" -> <<step.of, step.fact>> \in release.chain
    [] step.do = "if saved"     -> step.of \notin release.saved
    [] step.do = "if nonce"     -> Len(sent) # step.nonce
    [] step.do = "if holds"     -> <<step.of, step.fact>> \notin release.chain
    [] step.do = "before"       -> step.of \in late

\* A mutant: a contract that is saved is taken to be set up as well.
LeftOutOnceSaved(step) ==
  CASE step.do \in {"unless saved", "unless holds"} -> IsSaved(step.of)
    [] step.do = "if saved"                         -> ~IsSaved(step.of)
    [] step.do = "if nonce"                         -> Len(sent) # step.nonce
    [] step.do = "if holds"                         -> ~IsSaved(step.of)
    [] step.do = "before"                           -> step.of \in late

\* Whether the block after the step is left out.
LeftOut(step) ==
  CASE step.do = "unless saved" -> IsSaved(step.of)
    [] step.do = "unless holds" -> Holds(step.of, step.fact)
    [] step.do = "if saved"     -> ~IsSaved(step.of)
    [] step.do = "if nonce"     -> Len(sent) # step.nonce
    [] step.do = "if holds"     -> ~Holds(step.of, step.fact)
    [] step.do = "before"       -> step.of \in late
\* What is left out then was not done before: it is too late, or too early.
Occasions == {"if holds", "before"}
Branches  == {"unless saved", "unless holds", "if saved", "if nonce"} \union Occasions

Branch ==
  /\ At(Branches)
  /\ pc' = IF LeftOut(Now) THEN pc + 1 + Now.skip ELSE pc + 1
  /\ missed' = IF Now.do \in Occasions /\ LeftOut(Now) THEN missed \union {at} ELSE missed
  /\ UNCHANGED <<release, status, at, hit, late, crashes, finished>> /\ UNCHANGED stores

Fail ==
  /\ \/ At({"get", "expect nonce", "throw"}) /\ ~Fulfilled
     \/ At({"once", "owner"}) /\ Reverts
  /\ status' = "threw" /\ hit' = hit \union {at}
  /\ UNCHANGED <<release, at, pc, missed, late, crashes, finished>> /\ UNCHANGED stores

(***************************************************************************)
(* The run.                                                                *)
(***************************************************************************)
NextScript ==
  /\ status = "running" /\ at <= Len(Plan)
  /\ This.skip \/ pc > Len(This.steps)
  /\ at' = at + 1 /\ pc' = 1
  /\ UNCHANGED <<release, status, hit, missed, late, crashes, finished>> /\ UNCHANGED stores

Finish ==
  /\ status = "running" /\ at > Len(Plan)
  /\ status' = "done" /\ finished' = TRUE
  /\ UNCHANGED <<release, at, pc, hit, missed, late, crashes>> /\ UNCHANGED stores

Crash ==
  /\ status = "running" /\ at <= Len(Plan) /\ release.live /\ crashes < MaxCrashes
  /\ status' = "stopped" /\ crashes' = crashes + 1 /\ hit' = hit \union {at}
  /\ UNCHANGED <<release, at, pc, missed, late, finished>> /\ UNCHANGED stores

Rerun ==
  /\ status # "running" /\ release.live
  /\ status' = "running" /\ at' = 1 /\ pc' = 1
  /\ UNCHANGED <<release, hit, missed, late, crashes, finished>> /\ UNCHANGED stores

\* Time goes on, between two steps and between two runs.
DeadlinePasses ==
  /\ \E i \in DOMAIN Plan : \E k \in DOMAIN Plan[i].steps :
       LET step == Plan[i].steps[k]
       IN step.do = "before" /\ step.of \notin late /\ late' = late \union {step.of}
  /\ UNCHANGED <<release, status, at, pc, hit, missed, crashes, finished>> /\ UNCHANGED stores

Run == Check \/ Reuse \/ DeployNew \/ SaveName \/ Transact \/ Spend \/ Branch \/ Fail \/ NextScript \/ Finish
Next == Run \/ Crash \/ Rerun \/ DeadlinePasses

\* A run that was started goes on until it ends or is cut off, and the team
\* starts it again while it has not ended well; nothing makes it crash.
Spec == Init /\ [][Next]_vars /\ WF_vars(Run) /\ WF_vars(~finished /\ Rerun)

------------------------------------------------------------------------------
(***************************************************************************)
(* Properties.                                                             *)
(***************************************************************************)
\* Type invariant of the run and of the two stores it leaves behind.
DeploymentTypeOK ==
  /\ status \in {"running", "done", "threw", "stopped"}
  /\ at \in Nat \ {0} /\ pc \in Nat \ {0}
  /\ saved \in SUBSET STRING /\ chain \in SUBSET (STRING \X STRING) /\ twice \in SUBSET Nat
  /\ sent \in Seq(STRING)
  /\ hit \in SUBSET Nat /\ missed \in SUBSET Nat /\ late \in SUBSET STRING
  /\ crashes \in 0..MaxCrashes /\ finished \in BOOLEAN

\* What a step is for has been done: the name is saved, the fact holds.
Effects == {"deploy", "make", "save", "set", "once", "add", "owner"}
Effected(step) == FoundIn(step, release.saved \union saved, release.chain \union chain)

\* Step j of a script is a check that leaves out step k.
Covers(steps, j, k) == steps[j].do \in Branches /\ j < k /\ k <= j + steps[j].skip
\* A check for something its own block establishes may not excuse the rest.
Establishes(check, step) ==
  \/ check.do = "unless saved" /\ step.do \in {"deploy", "save"} /\ step.of = check.of
  \/ check.do = "unless holds" /\ step.do \in Effects \ {"save"} /\ step.of = check.of /\ step.fact = check.fact
Excused(steps, k) ==
  \E j \in DOMAIN steps :
    /\ Covers(steps, j, k) /\ LeftOut(steps[j]) /\ steps[j].do \notin Occasions
    /\ ~\E b \in DOMAIN steps : Covers(steps, j, b) /\ Establishes(steps[j], steps[b])
Complete(script) ==
  \A k \in DOMAIN script.steps : Effected(script.steps[k]) \/ Excused(script.steps, k)

Fragile(i) == Plan[i].file \in release.fragile
Executed   == {i \in DOMAIN Plan : ~Plan[i].skip}

\* Once a run went through the plan, every script has done all it is for,
\* though the runs before it were cut off anywhere: a check for what was
\* saved never hides a half-done script, but for the scripts listed as
\* fragile when they themselves were hit, or missed their occasion.
LossIsLocal ==
  finished => \A i \in Executed : Complete(Plan[i]) \/ (i \in hit \union missed /\ Fragile(i))

\* Until a run has gone through the plan, the runs that are made again clone
\* no pool and add no reward that a script cloned or added in one go, though
\* the scripts after it, or before it, were cut off: only a listed script
\* that was itself cut off does so.
OnceOnly == \A i \in twice : Fragile(i) /\ (i \in hit \/ finished)

\* Once the plan was gone through, running it again throws nowhere and
\* changes nothing on the chain nor on disk: every script finds what it did,
\* as the next release needs, which begins with all of these scripts.
LaterRunsAreQuiet ==
  [][finished => \/ UNCHANGED stores /\ (status' = "threw" => status = "threw")
                 \/ at \in DOMAIN Plan /\ Fragile(at)]_vars

\* The gauges of several chains have one address because the account that
\* makes them uses the same nonce on each: whatever is cut off, a contract
\* is made with its own nonce or not at all.
NonceOf == [n \in {"RootGaugeFactory", "ChildGaugeFactory", "ProxyAdmin", "AnyCallTranslatorLogic",
                    "AnyCallTranslatorProxy", "RootOracle", "ChildOracle", "RootGaugeV2", "ChildGaugeV2"} |->
  CASE n \in {"RootGaugeFactory", "ChildGaugeFactory"} -> 0
    [] n = "ProxyAdmin"                                -> 2
    [] n = "AnyCallTranslatorLogic"                    -> 3
    [] n = "AnyCallTranslatorProxy"                    -> 4
    [] n \in {"RootOracle", "ChildOracle"}             -> 5
    [] n \in {"RootGaugeV2", "ChildGaugeV2"}           -> 11]
SameNonce ==
  \A i \in DOMAIN sent : sent[i] \in DOMAIN NonceOf => i = NonceOf[sent[i]] + 1

\* A release without fragile scripts is finished at last: however it is cut
\* off, the team has only to start it again.
Finishes == (\A i \in Executed : ~Fragile(i)) ~> finished
------------------------------------------------------------------------------
(***************************************************************************)
(* Careful scripts: what the text of a script must keep to so that it may  *)
(* be cut off anywhere, and however often.  These are conditions on the    *)
(* plan and on what stood before, and TLC evaluates them for each release; *)
(* that they are enough is what DeploymentProofs shows.                    *)
(***************************************************************************)
Unless       == {"unless saved", "unless holds"}
Transactions == {"make", "set", "once", "add", "owner"}

\* A careful script looks up, deploys, saves and calls behind checks for
\* what was done: it counts no nonces and throws nothing of its own.
IsPlain(steps) == \A k \in DOMAIN steps : steps[k].do \in {"get"} \union Effects \union Unless

\* A block that begins inside another ends inside it.
WellNested(steps) ==
  \A j \in DOMAIN steps, b \in DOMAIN steps :
    Covers(steps, j, b) /\ steps[b].do \in Branches => b + steps[b].skip <= j + steps[j].skip

\* A run that reaches step b executes step m as well, if it is not cut off.
GoesWith(steps, m, b) == \A c \in DOMAIN steps : Covers(steps, c, m) => m = b \/ Covers(steps, c, b)
\* Where step b is reached by a run, step m was executed by it before.
OnTheWay(steps, m, b) == m <= b /\ GoesWith(steps, m, b)

\* What makes s effected makes t effected.
SameEffect(s, t) ==
  \/ {s.do, t.do} \subseteq {"deploy", "save"} /\ s.of = t.of
  \/ {s.do, t.do} \subseteq Transactions /\ s.of = t.of /\ s.fact = t.fact

\* The answer of check j is established by a step of the block it leaves out.
Closes(steps, j) ==
  steps[j].do \in Unless /\ \E b \in DOMAIN steps : Covers(steps, j, b) /\ Establishes(steps[j], steps[b])
StoodBefore(r, check) ==
  IF check.do = "unless saved" THEN check.of \in r.saved ELSE <<check.of, check.fact>> \in r.chain

\* Whoever establishes what such a check asks for has done the whole block
\* by then, be it this script, another of the plan, or the releases before.
ClosesLast(r, steps) ==
  \A j \in DOMAIN steps : Closes(steps, j) =>
    \A k \in DOMAIN steps : Covers(steps, j, k) =>
      /\ StoodBefore(r, steps[j]) => FoundIn(steps[k], r.saved, r.chain)
      /\ steps[k].do \in Effects =>
           \A l \in DOMAIN r.plan : \A b \in DOMAIN r.plan[l].steps :
             ~r.plan[l].skip /\ Establishes(steps[j], r.plan[l].steps[b]) =>
               \E m \in DOMAIN r.plan[l].steps :
                 OnTheWay(r.plan[l].steps, m, b) /\ SameEffect(r.plan[l].steps[m], steps[k])

\* What may not be done twice is done behind a check for that very fact,
\* which nothing establishes in between.
MakesOnce(steps) ==
  \A k \in DOMAIN steps : steps[k].do \in {"make", "add"} =>
    \E j \in DOMAIN steps :
      /\ Covers(steps, j, k) /\ steps[j].do = "unless holds"
      /\ steps[j].of = steps[k].of /\ steps[j].fact = steps[k].fact
      /\ \A b \in DOMAIN steps : j < b /\ b < k => ~Establishes(steps[j], steps[b])

\* A step of these kinds is behind a check that its block closes.
AsksBefore(steps, kinds) ==
  \A k \in DOMAIN steps : steps[k].do \in kinds =>
    \E j \in DOMAIN steps, b \in DOMAIN steps :
      /\ Covers(steps, j, k) /\ Covers(steps, j, b)
      /\ steps[j].do \in Unless /\ Establishes(steps[j], steps[b])
      /\ steps[j].do = "unless holds" => steps[b].do # "deploy"
      /\ \A c \in DOMAIN steps : Covers(steps, c, b) => Covers(steps, c, k)
\* And so is what may revert, or act again.
AsksFirst(steps) == AsksBefore(steps, Transactions \ {"set"})

\* When everything has been deployed before, so has what is looked up.
FindsAll(r, steps) ==
  r.again => \A k \in DOMAIN steps : steps[k].do = "get" => steps[k].names \subseteq r.saved

Careful(r, steps) ==
  /\ IsPlain(steps) /\ WellNested(steps) /\ ClosesLast(r, steps)
  /\ MakesOnce(steps) /\ AsksFirst(steps) /\ FindsAll(r, steps)

\* On the networks that keep their state, and where everything stands, each
\* script that is not listed as fragile is careful.
ASSUME CarefulAssumption ==
  \A r \in Releases : r.live \/ r.again =>
    \A i \in DOMAIN r.plan :
      r.plan[i].skip \/ r.plan[i].file \in r.fragile \/ Careful(r, r.plan[i].steps)

\* A script that does something on an occasion only is listed, too.
ASSUME OccasionsAssumption ==
  \A r \in Releases : \A i \in DOMAIN r.plan :
    r.plan[i].skip \/ r.plan[i].file \in r.fragile \/
      \A k \in DOMAIN r.plan[i].steps : r.plan[i].steps[k].do \notin Occasions

(***************************************************************************)
(* Scripts that were not cut off: what the text of any script must keep to *)
(* so that it is done once a run has gone through it in one go.            *)
(***************************************************************************)
\* Who established before what check j asks for, a release or a script that
\* was run before, has done step k of its block, or is about to.
AnsweredWithAll(r, i, j, k) ==
  LET steps == r.plan[i].steps
  IN /\ StoodBefore(r, steps[j]) => FoundIn(steps[k], r.saved, r.chain)
     /\ \A l \in DOMAIN r.plan : \A b \in DOMAIN r.plan[l].steps :
          ~r.plan[l].skip /\ (l < i \/ (l = i /\ b < j)) /\ Establishes(steps[j], r.plan[l].steps[b]) =>
             \E m \in DOMAIN r.plan[l].steps :
               /\ GoesWith(r.plan[l].steps, m, b) /\ SameEffect(r.plan[l].steps[m], steps[k])
               /\ m <= b \/ ~r.live \/ l = i

\* What is done for a contract that is saved only is not called for, or is
\* done when it is not saved, too: as in deploySwapFlashLoan.
SavedByNone(r, name) ==
  \A l \in DOMAIN r.plan : \A b \in DOMAIN r.plan[l].steps :
    r.plan[l].skip \/ ~(r.plan[l].steps[b].do \in {"deploy", "save"} /\ r.plan[l].steps[b].of = name)
OtherwiseDone(steps, j, k) ==
  \E m \in DOMAIN steps :
    /\ j < m /\ SameEffect(steps[m], steps[k])
    /\ \A c \in DOMAIN steps : Covers(steps, c, m) =>
         \/ Covers(steps, c, j)
         \/ /\ j < c /\ steps[c].do = "unless saved" /\ steps[c].of = steps[j].of
            /\ \A b \in DOMAIN steps : j < b /\ b < c => ~Establishes(steps[c], steps[b])
DoneAnyway(r, i, j, k) ==
  /\ r.plan[i].steps[j].do = "if saved"
  /\ \/ r.plan[i].steps[j].of \in r.saved
     \/ SavedByNone(r, r.plan[i].steps[j].of)
     \/ OtherwiseDone(r.plan[i].steps, j, k)

DoneAtOnce(r, i) ==
  LET steps == r.plan[i].steps
  IN \A j \in DOMAIN steps, k \in DOMAIN steps :
       Covers(steps, j, k) /\ steps[k].do \in Effects =>
         /\ Closes(steps, j) => AnsweredWithAll(r, i, j, k)
         /\ steps[j].do \notin Unless \union Occasions => DoneAnyway(r, i, j, k)

\* Before a script makes or adds something, nobody did.
FirstToAct(r, i) ==
  \A k \in DOMAIN r.plan[i].steps :
    LET step == r.plan[i].steps[k]
    IN step.do \in {"make", "add"} =>
         /\ <<step.of, step.fact>> \notin r.chain
         /\ \A l \in DOMAIN r.plan : \A b \in DOMAIN r.plan[l].steps :
              LET other == r.plan[l].steps[b]
              IN ~r.plan[l].skip /\ (l < i \/ (l = i /\ b < k)) /\ other.do \in Effects \ {"save"} =>
                   other.of # step.of \/ other.fact # step.fact

\* A later run goes by what such a script made in one go: it asks before, on
\* no occasion only, or is the last one, so that no script after it fails.
GoesBy(r, i) ==
  LET steps == r.plan[i].steps
  IN (\E k \in DOMAIN steps : steps[k].do \in {"make", "add"}) =>
       \/ i = Len(r.plan)
       \/ /\ WellNested(steps) /\ AsksBefore(steps, {"make", "add"})
          /\ \A k \in DOMAIN steps : steps[k].do \notin Occasions

\* All scripts, fragile or not, where not everything has been deployed.
ASSUME AtOnceAssumption ==
  \A r \in Releases : ~r.again =>
    \A i \in DOMAIN r.plan : r.plan[i].skip \/
      /\ DoneAtOnce(r, i)
      /\ FirstToAct(r, i)
      /\ r.live => GoesBy(r, i)

(***************************************************************************)
(* Nonces: what a plan must keep to so that crossChainDeployer makes each  *)
(* contract with the contract's own nonce.                                 *)
(***************************************************************************)
Sends(step) == step.do = "spend" \/ (step.do = "deploy" /\ step.by = "crossChainDeployer")
Numbered(step) == step.do = "deploy" /\ Sends(step) /\ step.of \in DOMAIN NonceOf

\* Where a run is at step k, it has come there from step m one by one, and
\* nothing was sent in between.
Straight(steps, m, k) ==
  /\ m < k
  /\ \A l \in DOMAIN steps : Sends(steps[l]) => l <= m \/ k <= l
  /\ \A c \in DOMAIN steps : steps[c].do \in Branches =>
       /\ c <= m \/ k <= c
       /\ c + 1 + steps[c].skip <= m \/ k < c + 1 + steps[c].skip

\* Behind a check for a nonce, and behind a numbered contract, the next
\* transaction of the account is known.
Knows(step)     == step.do \in {"expect nonce", "if nonce"} \/ Numbered(step)
NextNonce(step) == IF step.do = "deploy" THEN NonceOf[step.of] + 1 ELSE step.nonce
KnownAt(steps, k, nonce) ==
  \E m \in DOMAIN steps : Knows(steps[m]) /\ Straight(steps, m, k) /\ NextNonce(steps[m]) = nonce

NumberedNames(r) ==
  {n \in DOMAIN NonceOf : \E i \in DOMAIN r.plan : ~r.plan[i].skip /\
                            \E k \in DOMAIN r.plan[i].steps :
                              Numbered(r.plan[i].steps[k]) /\ r.plan[i].steps[k].of = n}

\* Each numbered contract is made where its nonce is known, and nothing else
\* goes by its name: as on the side chains, whose scripts ask for the nonce.
AsksNonces(r) ==
  /\ \A n \in NumberedNames(r) \intersect r.saved : NonceOf[n] < Len(r.sent)
  /\ \A i \in DOMAIN r.plan : ~r.plan[i].skip =>
       \A k \in DOMAIN r.plan[i].steps :
         LET step == r.plan[i].steps[k]
         IN step.do \in {"deploy", "save"} /\ step.of \in NumberedNames(r) =>
              Numbered(step) /\ KnownAt(r.plan[i].steps, k, NonceOf[step.of])

\* All that is sent is sent by one script, which deploys one contract after
\* the other from the nonce at which it starts: as 670 on mainnet.
Place(steps, k) == Cardinality({l \in DOMAIN steps : l < k /\ Sends(steps[l])})
DeploysInOrder(r, i) ==
  /\ ~r.plan[i].skip
  /\ \A l \in DOMAIN r.plan : \A b \in DOMAIN r.plan[l].steps :
       ~r.plan[l].skip /\ Sends(r.plan[l].steps[b]) => l = i
  /\ \A k \in DOMAIN r.plan[i].steps :
       LET step == r.plan[i].steps[k]
       IN Sends(step) =>
            /\ step.do = "deploy" /\ step.of \notin r.saved
            /\ ~\E c \in DOMAIN r.plan[i].steps : Covers(r.plan[i].steps, c, k)
            /\ step.of \in DOMAIN NonceOf => NonceOf[step.of] = Len(r.sent) + Place(r.plan[i].steps, k)
            /\ \A l \in DOMAIN r.plan : \A b \in DOMAIN r.plan[l].steps :
                 LET other == r.plan[l].steps[b]
                 IN ~r.plan[l].skip /\ other.do \in {"deploy", "save"} /\ other.of = step.of =>
                      l = i /\ b = k

\* Whether fragile or not.
ASSUME NoncesAssumption ==
  \A r \in Releases :
    /\ \A i \in DOMAIN r.sent : r.sent[i] \in DOMAIN NonceOf => i = NonceOf[r.sent[i]] + 1
    /\ \A i \in DOMAIN r.plan : \A k \in DOMAIN r.plan[i].steps :
         r.plan[i].steps[k].do = "spend" => r.plan[i].steps[k].of \notin DOMAIN NonceOf
    /\ AsksNonces(r) \/ \E i \in DOMAIN r.plan : DeploysInOrder(r, i)
==============================================================================
