--------------------------- MODULE DeploymentProofs ---------------------------
(***************************************************************************)
(* Proofs about Deployment, for every network, every plan of scripts and   *)
(* every number of crashes: the type invariant; that a run that went       *)
(* through its plan left nothing undone but what a check told it to leave; *)
(* that scripts whose text is careful complete, act once and stay quiet    *)
(* however they were cut off; that the numbered contracts are made with    *)
(* their own nonces; that any script is complete that was not cut off      *)
(* itself; and that nothing but the listed scripts acts twice.             *)
(***************************************************************************)
EXTENDS Deployment, FiniteSetTheorems, TLAPS

\* Time changes nothing of the run.
besides == <<release, status, at, pc, saved, chain, sent, twice, hit, missed, crashes, finished>>
Stays   == UNCHANGED besides

LEMMA WhatHappens == [Next]_vars => Run \/ Crash \/ Rerun \/ Stays
  BY DEF Next, DeadlinePasses, Stays, besides, stores, vars

\* The release is not changed by any step.
TypeInv == DeploymentTypeOK /\ release \in Releases

\* The step that comes next is one of the plan.
LEMMA NowIsAStep ==
  ASSUME NEW kinds, TypeInv, At(kinds)
  PROVE  /\ release \in ReleaseRecords
         /\ at \in DOMAIN Plan /\ ~This.skip
         /\ pc \in DOMAIN This.steps
         /\ Now \in Steps /\ Now.do \in kinds
<1>1. release \in ReleaseRecords
  BY ReleasesAssumption DEF TypeInv
<1>2. Plan \in Seq(Scripts)
  BY <1>1 DEF ReleaseRecords, Plan
<1>3. at \in DOMAIN Plan /\ ~This.skip
  BY <1>2 DEF At, TypeInv, DeploymentTypeOK
<1>4. This \in Scripts
  BY <1>2, <1>3 DEF This
<1>5. This.steps \in Seq(Steps)
  BY <1>4 DEF Scripts
<1>6. pc \in DOMAIN This.steps
  BY <1>5 DEF At, TypeInv, DeploymentTypeOK
<1>7. Now \in Steps /\ Now.do \in kinds
  BY <1>5, <1>6 DEF Now, At
<1> QED
  BY <1>1, <1>3, <1>6, <1>7

LEMMA TypeInvInit == Init => TypeInv
<1> SUFFICES ASSUME Init PROVE TypeInv
  OBVIOUS
<1>1. release \in ReleaseRecords
  BY ReleasesAssumption DEF Init
<1>2. sent \in Seq(STRING) /\ finished \in BOOLEAN
  BY <1>1 DEF Init, ReleaseRecords
<1> QED
  BY <1>2, MaxCrashesAssumption DEF Init, TypeInv, DeploymentTypeOK

\* The invariant in two parts, since a step changes the stores or the run.
StoresTyped ==
  /\ saved \in SUBSET STRING /\ chain \in SUBSET (STRING \X STRING) /\ twice \in SUBSET Nat
  /\ sent \in Seq(STRING)
RunTyped ==
  /\ release \in Releases
  /\ status \in {"running", "done", "threw", "stopped"}
  /\ at \in Nat \ {0} /\ pc \in Nat \ {0}
  /\ hit \in SUBSET Nat /\ missed \in SUBSET Nat
  /\ crashes \in 0..MaxCrashes /\ finished \in BOOLEAN

LEMMA TwoParts == TypeInv <=> StoresTyped /\ RunTyped /\ late \in SUBSET STRING
  BY DEF TypeInv, DeploymentTypeOK, StoresTyped, RunTyped
LEMMA TwoPartsNext == TypeInv' <=> StoresTyped' /\ RunTyped' /\ late' \in SUBSET STRING
  BY DEF TypeInv, DeploymentTypeOK, StoresTyped, RunTyped

LEMMA StoresKept == ASSUME StoresTyped, UNCHANGED stores PROVE StoresTyped'
  BY DEF StoresTyped, stores

LEMMA AdvanceTyped == ASSUME RunTyped, Advance PROVE RunTyped'
<1>1. pc + 1 \in Nat \ {0}
  BY DEF RunTyped
<1> QED
  BY <1>1 DEF RunTyped, Advance

\* The deadlines that pass are those that a script of the plan asks for.
LEMMA LateTyped == TypeInv /\ [Next]_vars => late' \in SUBSET STRING
<1> SUFFICES ASSUME TypeInv, [Next]_vars PROVE late' \in SUBSET STRING
  OBVIOUS
<1>1. late \in SUBSET STRING /\ release \in ReleaseRecords
  BY ReleasesAssumption DEF TypeInv, DeploymentTypeOK
<1>2. CASE late' = late
  BY <1>1, <1>2
<1>3. CASE DeadlinePasses
  <2>1. PICK i \in DOMAIN Plan : \E k \in DOMAIN Plan[i].steps : late' = late \union {Plan[i].steps[k].of}
    BY <1>3 DEF DeadlinePasses
  <2>2. PICK k \in DOMAIN Plan[i].steps : late' = late \union {Plan[i].steps[k].of}
    BY <2>1
  <2>3. Plan \in Seq(Scripts)
    BY <1>1 DEF Plan, ReleaseRecords
  <2>4. Plan[i] \in Scripts
    BY <2>3
  <2>5. Plan[i].steps \in Seq(Steps)
    BY <2>4 DEF Scripts
  <2>6. Plan[i].steps[k] \in Steps
    BY <2>5
  <2>7. Plan[i].steps[k].of \in STRING
    BY <2>6 DEF Steps
  <2> QED
    BY <1>1, <2>2, <2>7
<1> QED
  BY <1>2, <1>3 DEF Next, Run, Check, Reuse, DeployNew, SaveName, Transact, Spend, Branch, Fail, NextScript,
                    Finish, Crash, Rerun, Advance, vars

LEMMA TypeInvNext == TypeInv /\ [Next]_vars => TypeInv'
<1> SUFFICES ASSUME TypeInv, [Next]_vars PROVE StoresTyped' /\ RunTyped'
  BY LateTyped, TwoPartsNext
<1>0. StoresTyped /\ RunTyped
  BY TwoParts
<1>1. CASE Check
  BY <1>0, <1>1, StoresKept, AdvanceTyped DEF Check
<1>2. CASE Reuse
  BY <1>0, <1>2, StoresKept, AdvanceTyped DEF Reuse
<1>3. CASE DeployNew
  <2>1. RunTyped'
    BY <1>0, <1>3, AdvanceTyped DEF DeployNew
  <2>2. Now \in Steps
    BY <1>3, NowIsAStep DEF DeployNew
  <2>3. Now.of \in STRING /\ Now.fact \in STRING
    BY <2>2 DEF Steps
  <2>4. /\ saved' = saved \union {Now.of}
        /\ chain' = chain \union {<<Now.of, Now.fact>>}
        /\ sent' = IF Now.by = "crossChainDeployer" THEN Append(sent, Now.of) ELSE sent
        /\ twice' = twice
    BY <1>3 DEF DeployNew
  <2>5. Append(sent, Now.of) \in Seq(STRING)
    BY <1>0, <2>3 DEF StoresTyped
  <2>6. sent' \in Seq(STRING)
    BY <1>0, <2>4, <2>5 DEF StoresTyped
  <2>7. chain' \in SUBSET (STRING \X STRING)
    BY <1>0, <2>3, <2>4 DEF StoresTyped
  <2>8. saved' \in SUBSET STRING /\ twice' \in SUBSET Nat
    BY <1>0, <2>3, <2>4 DEF StoresTyped
  <2>9. StoresTyped'
    BY <2>6, <2>7, <2>8 DEF StoresTyped
  <2> QED
    BY <2>1, <2>9
<1>4. CASE SaveName
  <2>1. RunTyped'
    BY <1>0, <1>4, AdvanceTyped DEF SaveName
  <2>2. Now \in Steps
    BY <1>4, NowIsAStep DEF SaveName
  <2>3. Now.of \in STRING
    BY <2>2 DEF Steps
  <2>4. /\ saved' = IF IsSaved(Now.of) THEN saved ELSE saved \union {Now.of}
        /\ chain' = chain /\ sent' = sent /\ twice' = twice
    BY <1>4 DEF SaveName
  <2>5. StoresTyped'
    BY <1>0, <2>3, <2>4 DEF StoresTyped
  <2> QED
    BY <2>1, <2>5
<1>5. CASE Transact
  <2>1. RunTyped'
    BY <1>0, <1>5, AdvanceTyped DEF Transact
  <2>2. Now \in Steps
    BY <1>5, NowIsAStep DEF Transact
  <2>3. Now.of \in STRING /\ Now.fact \in STRING
    BY <2>2 DEF Steps
  <2>4. /\ chain' = IF Holds(Now.of, Now.fact) THEN chain ELSE chain \union {<<Now.of, Now.fact>>}
        /\ twice' = twice \/ twice' = twice \union {at}
        /\ saved' = saved /\ sent' = sent
    BY <1>5 DEF Transact
  <2>5. chain' \in SUBSET (STRING \X STRING)
    BY <1>0, <2>3, <2>4 DEF StoresTyped
  <2>6. twice' \in SUBSET Nat
    BY <1>0, <2>4 DEF StoresTyped, RunTyped
  <2>7. StoresTyped'
    BY <1>0, <2>4, <2>5, <2>6 DEF StoresTyped
  <2> QED
    BY <2>1, <2>7
<1>6. CASE Spend
  <2>1. RunTyped'
    BY <1>0, <1>6, AdvanceTyped DEF Spend
  <2>2. Now \in Steps
    BY <1>6, NowIsAStep DEF Spend
  <2>3. Now.of \in STRING
    BY <2>2 DEF Steps
  <2>4. /\ sent' = Append(sent, Now.of)
        /\ saved' = saved /\ chain' = chain /\ twice' = twice
    BY <1>6 DEF Spend
  <2>5. Append(sent, Now.of) \in Seq(STRING)
    BY <1>0, <2>3 DEF StoresTyped
  <2>6. StoresTyped'
    BY <1>0, <2>4, <2>5 DEF StoresTyped
  <2> QED
    BY <2>1, <2>6
<1>7. CASE Branch
  <2>1. StoresTyped'
    BY <1>0, <1>7, StoresKept DEF Branch
  <2>2. Now \in Steps
    BY <1>7, NowIsAStep DEF Branch
  <2>3. Now.skip \in Nat
    BY <2>2 DEF Steps
  <2>4. pc' = pc + 1 + Now.skip \/ pc' = pc + 1
    BY <1>7 DEF Branch
  <2>5. pc' \in Nat \ {0}
    BY <1>0, <2>3, <2>4 DEF RunTyped
  <2>6. missed' = missed \/ missed' = missed \union {at}
    BY <1>7 DEF Branch
  <2>7. missed' \in SUBSET Nat
    BY <1>0, <2>6 DEF RunTyped
  <2>8. RunTyped'
    BY <1>0, <1>7, <2>5, <2>7 DEF Branch, RunTyped
  <2> QED
    BY <2>1, <2>8
<1>8. CASE Fail
  <2>1. StoresTyped'
    BY <1>0, <1>8, StoresKept DEF Fail
  <2>2. RunTyped'
    BY <1>0, <1>8 DEF Fail, RunTyped
  <2> QED
    BY <2>1, <2>2
<1>9. CASE NextScript
  <2>1. StoresTyped'
    BY <1>0, <1>9, StoresKept DEF NextScript
  <2>2. RunTyped'
    BY <1>0, <1>9 DEF NextScript, RunTyped
  <2> QED
    BY <2>1, <2>2
<1>10. CASE Finish
  <2>1. StoresTyped'
    BY <1>0, <1>10, StoresKept DEF Finish
  <2>2. RunTyped'
    BY <1>0, <1>10 DEF Finish, RunTyped
  <2> QED
    BY <2>1, <2>2
<1>11. CASE Crash
  <2>1. StoresTyped'
    BY <1>0, <1>11, StoresKept DEF Crash
  <2>2. crashes' \in 0..MaxCrashes
    BY <1>0, <1>11, MaxCrashesAssumption DEF Crash, RunTyped
  <2>3. RunTyped'
    BY <1>0, <1>11, <2>2 DEF Crash, RunTyped
  <2> QED
    BY <2>1, <2>3
<1>12. CASE Rerun
  <2>1. StoresTyped'
    BY <1>0, <1>12, StoresKept DEF Rerun
  <2>2. RunTyped'
    BY <1>0, <1>12 DEF Rerun, RunTyped
  <2> QED
    BY <2>1, <2>2
<1>13. CASE Stays
  BY <1>0, <1>13 DEF Stays, besides, StoresTyped, RunTyped
<1> QED
  BY <1>1, <1>2, <1>3, <1>4, <1>5, <1>6, <1>7, <1>8, <1>9, <1>10, <1>11, <1>12, <1>13, WhatHappens DEF Run

\* Type correctness: whatever the scripts do and wherever a run is cut off,
\* both stores stay sets of names and facts and the run at a step or an end.
THEOREM DeploymentTypeCorrect == Spec => []DeploymentTypeOK
<1>1. Init => TypeInv
  BY TypeInvInit
<1>2. TypeInv /\ [Next]_vars => TypeInv'
  BY TypeInvNext
<1>3. TypeInv => DeploymentTypeOK
  BY DEF TypeInv
<1> QED
  BY <1>1, <1>2, <1>3, PTL DEF Spec

(***************************************************************************)
(* What a step was for stays done, and a check that found it goes on       *)
(* finding it: nothing is taken from the stores.  What a script looked up  *)
(* stays there as well.                                                    *)
(***************************************************************************)
\* What a check left out: the check is still true, if nothing makes it false.
LeftOutByCheck(steps, k) ==
  \E j \in DOMAIN steps : Covers(steps, j, k) /\ (steps[j].do \in Unless => LeftOut(steps[j]))
Met(step)     == Effected(step) /\ (step.do = "get" => \A name \in step.names : IsSaved(name))
Settled(i, k) == Met(Plan[i].steps[k]) \/ LeftOutByCheck(Plan[i].steps, k)
StoresGrow    == release' = release /\ saved \subseteq saved' /\ chain \subseteq chain'

LEMMA NextGrows == TypeInv /\ [Next]_vars => StoresGrow
<1> SUFFICES ASSUME TypeInv, [Next]_vars PROVE StoresGrow
  OBVIOUS
<1>1. CASE Check \/ Reuse
  BY <1>1 DEF Check, Reuse, Advance, stores, StoresGrow
<1>2. CASE DeployNew
  BY <1>2 DEF DeployNew, Advance, StoresGrow
<1>3. CASE SaveName
  BY <1>3 DEF SaveName, Advance, StoresGrow
<1>4. CASE Transact
  BY <1>4 DEF Transact, Advance, StoresGrow
<1>5. CASE Spend
  BY <1>5 DEF Spend, Advance, StoresGrow
<1>6. CASE Branch \/ Fail \/ NextScript \/ Finish
  BY <1>6 DEF Branch, Fail, NextScript, Finish, stores, StoresGrow
<1>7. CASE Crash \/ Rerun
  BY <1>7 DEF Crash, Rerun, stores, StoresGrow
<1>8. CASE Stays
  BY <1>8 DEF Stays, besides, StoresGrow
<1> QED
  BY <1>1, <1>2, <1>3, <1>4, <1>5, <1>6, <1>7, <1>8, WhatHappens DEF Run

LEMMA EffectedGrows ==
  ASSUME NEW step, StoresGrow, Effected(step)
  PROVE  Effected(step)'
  BY DEF StoresGrow, Effected, FoundIn

LEMMA MetGrows ==
  ASSUME NEW step, StoresGrow, Met(step)
  PROVE  Met(step)'
<1>1. Effected(step)'
  BY EffectedGrows DEF Met
<1>2. \A name : IsSaved(name) => IsSaved(name)'
  BY DEF StoresGrow, IsSaved
<1> QED
  BY <1>1, <1>2 DEF Met

LEMMA LeftOutGrows ==
  ASSUME NEW step, StoresGrow, step.do \in Unless, LeftOut(step)
  PROVE  LeftOut(step)'
<1>1. CASE step.do = "unless saved"
  BY <1>1 DEF StoresGrow, LeftOut, IsSaved
<1>2. CASE step.do = "unless holds"
  BY <1>2 DEF StoresGrow, LeftOut, Holds
<1> QED
  BY <1>1, <1>2 DEF Unless

LEMMA SettledGrows ==
  ASSUME NEW i, NEW k, StoresGrow, Settled(i, k)
  PROVE  Settled(i, k)'
<1>0. Plan' = Plan
  BY DEF StoresGrow, Plan
<1>1. CASE Met(Plan[i].steps[k])
  <2>1. PICK s : s = Plan[i].steps[k]
    OBVIOUS
  <2>2. Met(s)'
    BY <1>1, <2>1, MetGrows
  <2> QED
    BY <1>0, <2>1, <2>2 DEF Settled
<1>2. CASE LeftOutByCheck(Plan[i].steps, k)
  <2>1. PICK j \in DOMAIN Plan[i].steps :
          /\ Covers(Plan[i].steps, j, k)
          /\ Plan[i].steps[j].do \in Unless => LeftOut(Plan[i].steps[j])
    BY <1>2 DEF LeftOutByCheck
  <2>2. Plan[i].steps[j].do \in Unless => LeftOut(Plan[i].steps[j])'
    BY <1>0, <2>1, LeftOutGrows
  <2>3. LeftOutByCheck(Plan[i].steps, k)'
    BY <1>0, <2>1, <2>2 DEF LeftOutByCheck, Covers
  <2> QED
    BY <2>3 DEF Settled
<1> QED
  BY <1>1, <1>2 DEF Settled

(***************************************************************************)
(* The inductive invariant: what the run of the moment has passed is       *)
(* settled, and everything is once a run went through the plan.  (Where    *)
(* all was deployed before, what the scripts look up may have been left    *)
(* out then, until a run of this release has come by.)                     *)
(***************************************************************************)
PassedIsSettled ==
  \A i \in Executed : \A k \in DOMAIN Plan[i].steps :
    i < at \/ (i = at /\ k < pc) => Settled(i, k)
FinishedIsSettled ==
  finished /\ ~release.again => \A i \in Executed : \A k \in DOMAIN Plan[i].steps : Settled(i, k)
SkipInv == TypeInv /\ PassedIsSettled /\ FinishedIsSettled

\* Where all was deployed before, nothing is left undone from the start.
AllIsDoneOrLeftOut ==
  finished =>
    \A i \in Executed : \A k \in DOMAIN Plan[i].steps :
      Effected(Plan[i].steps[k]) \/ LeftOutByCheck(Plan[i].steps, k)

LEMMA SettledIsSkipped == SkipInv => AllIsDoneOrLeftOut
<1> SUFFICES ASSUME SkipInv, finished, NEW i \in Executed, NEW k \in DOMAIN Plan[i].steps
             PROVE  Effected(Plan[i].steps[k]) \/ LeftOutByCheck(Plan[i].steps, k)
  BY DEF AllIsDoneOrLeftOut
<1>1. CASE ~release.again
  <2>1. Settled(i, k)
    BY <1>1 DEF SkipInv, FinishedIsSettled
  <2> QED
    BY <2>1 DEF Settled, Met
<1>2. CASE release.again
  <2>1. release \in Releases /\ i \in DOMAIN release.plan /\ ~release.plan[i].skip
    BY DEF SkipInv, TypeInv, Executed, Plan
  <2>2. FoundIn(Plan[i].steps[k], release.saved, release.chain)
    BY <1>2, <2>1, AgainAssumption DEF Plan
  <2> QED
    BY <2>2 DEF Effected, FoundIn
<1> QED
  BY <1>1, <1>2

LEMMA SkipInvInit == Init => SkipInv
<1> SUFFICES ASSUME Init PROVE SkipInv
  OBVIOUS
<1>1. TypeInv
  BY TypeInvInit
<1>2. PassedIsSettled
  <2> SUFFICES ASSUME NEW i \in Executed, NEW k \in DOMAIN Plan[i].steps,
                      i < 1 \/ (i = 1 /\ k < 1)
               PROVE  FALSE
    BY DEF PassedIsSettled, Init
  <2>1. Plan \in Seq(Scripts)
    BY <1>1, ReleasesAssumption DEF TypeInv, Plan, ReleaseRecords
  <2>2. i \in Nat \ {0} /\ Plan[i] \in Scripts
    BY <2>1 DEF Executed
  <2>3. Plan[i].steps \in Seq(Steps)
    BY <2>2 DEF Scripts
  <2>4. k \in Nat \ {0}
    BY <2>3
  <2> QED
    BY <2>2, <2>4
<1>3. FinishedIsSettled
  BY DEF FinishedIsSettled, Init
<1> QED
  BY <1>1, <1>2, <1>3 DEF SkipInv

\* The step at which the run stands is settled when it goes on to the next.
LEMMA StepSettled ==
  ASSUME NEW step, step = Now, TypeInv, StoresGrow,
         Check \/ Reuse \/ DeployNew \/ SaveName \/ Transact \/ Spend
  PROVE  Met(step)'
<1>0. release' = release
  BY DEF StoresGrow
<1>1. CASE Check
  <2>1. /\ step.do \in {"get", "expect nonce", "throw"} /\ saved' = saved
        /\ step.do = "get" => \A name \in step.names : IsSaved(name)
    BY <1>1 DEF Check, At, Fulfilled, stores
  <2>2. step.do = "get" => \A name \in step.names : IsSaved(name)'
    BY <1>0, <2>1 DEF IsSaved
  <2> QED
    BY <2>1, <2>2 DEF Met, Effected, FoundIn
<1>2. CASE Reuse
  <2>1. step.do = "deploy" /\ IsSaved(step.of) /\ saved' = saved
    BY <1>2 DEF Reuse, At, stores
  <2> QED
    BY <1>0, <2>1 DEF Met, Effected, FoundIn, IsSaved
<1>3. CASE DeployNew
  <2>1. step.do = "deploy" /\ saved' = saved \union {step.of}
    BY <1>3 DEF DeployNew, At
  <2> QED
    BY <2>1 DEF Met, Effected, FoundIn
<1>4. CASE SaveName
  <2>1. step.do = "save" /\ saved' = IF IsSaved(step.of) THEN saved ELSE saved \union {step.of}
    BY <1>4 DEF SaveName, At
  <2> QED
    BY <1>0, <2>1 DEF Met, Effected, FoundIn, IsSaved
<1>5. CASE Transact
  <2>1. /\ step.do \in {"make", "set", "once", "add", "owner"}
        /\ chain' = IF Holds(step.of, step.fact) THEN chain ELSE chain \union {<<step.of, step.fact>>}
    BY <1>5 DEF Transact, At
  <2> QED
    BY <1>0, <2>1 DEF Met, Effected, FoundIn, Holds
<1>6. CASE Spend
  <2>1. step.do = "spend"
    BY <1>6 DEF Spend, At
  <2> QED
    BY <2>1 DEF Met, Effected, FoundIn
<1> QED
  BY <1>1, <1>2, <1>3, <1>4, <1>5, <1>6

\* Steps after which the run is at the next step of the same script.
LEMMA PassedAdvances ==
  ASSUME TypeInv, StoresGrow, PassedIsSettled, Advance,
         Check \/ Reuse \/ DeployNew \/ SaveName \/ Transact \/ Spend
  PROVE  PassedIsSettled'
<1>1. Plan' = Plan /\ Executed' = Executed /\ at' = at /\ pc' = pc + 1
  BY DEF StoresGrow, Advance, Plan, Executed
<1> SUFFICES ASSUME NEW i \in Executed, NEW k \in DOMAIN Plan[i].steps, i < at \/ (i = at /\ k < pc + 1)
             PROVE  Settled(i, k)'
  BY <1>1 DEF PassedIsSettled
<1>2. Plan[i] \in Scripts /\ i \in Nat
  BY ReleasesAssumption DEF TypeInv, Plan, ReleaseRecords, Executed
<1>3. k \in Nat
  BY <1>2 DEF Scripts
<1>4. at \in Nat /\ pc \in Nat
  BY DEF TypeInv, DeploymentTypeOK
<1>5. CASE i < at \/ (i = at /\ k < pc)
  <2>1. Settled(i, k)
    BY <1>5 DEF PassedIsSettled
  <2> QED
    BY <2>1, SettledGrows
<1>6. CASE i = at /\ k = pc
  <2>1. Plan[i].steps[k] = Now
    BY <1>6 DEF Now, This
  <2>2. PICK s : s = Plan[i].steps[k]
    OBVIOUS
  <2>3. Met(s)'
    BY <2>1, <2>2, StepSettled
  <2> QED
    BY <1>1, <2>2, <2>3 DEF Settled
<1> QED
  BY <1>3, <1>4, <1>5, <1>6

\* A check goes on behind the block that it leaves out.
LEMMA PassedBranches ==
  ASSUME TypeInv, StoresGrow, PassedIsSettled, Branch
  PROVE  PassedIsSettled'
<1>1. Plan' = Plan /\ Executed' = Executed /\ at' = at
  BY DEF StoresGrow, Branch, Plan, Executed
<1>2. Now \in Steps /\ Now.do \in Branches /\ pc \in DOMAIN This.steps
  BY NowIsAStep DEF Branch
<1>3. pc' = IF LeftOut(Now) THEN pc + 1 + Now.skip ELSE pc + 1
  BY DEF Branch
<1>4. at \in Nat /\ pc \in Nat /\ Now.skip \in Nat
  BY <1>2 DEF TypeInv, DeploymentTypeOK, Steps
<1> SUFFICES ASSUME NEW i \in Executed, NEW k \in DOMAIN Plan[i].steps, i < at \/ (i = at /\ k < pc')
             PROVE  Settled(i, k)
  <2>1. SUFFICES ASSUME NEW i \in Executed, NEW k \in DOMAIN Plan[i].steps, i < at \/ (i = at /\ k < pc')
                 PROVE  Settled(i, k)'
    BY <1>1 DEF PassedIsSettled
  <2> QED
    BY <2>1, SettledGrows
<1>5. Plan[i] \in Scripts /\ i \in Nat
  BY ReleasesAssumption DEF TypeInv, Plan, ReleaseRecords, Executed
<1>6. k \in Nat
  BY <1>5 DEF Scripts
<1>7. CASE i < at \/ (i = at /\ k < pc)
  BY <1>7 DEF PassedIsSettled
<1>8. CASE i = at /\ k = pc
  <2>1. Plan[i].steps[k].do \in Branches
    BY <1>2, <1>8 DEF Now, This
  <2>2. Effected(Plan[i].steps[k])
    BY <2>1 DEF Branches, Occasions, Effected, FoundIn
  <2> QED
    BY <2>1, <2>2 DEF Settled, Met, Branches, Occasions
<1>9. CASE i = at /\ k > pc
  <2>1. LeftOut(Now) /\ k <= pc + Now.skip
    BY <1>3, <1>4, <1>6, <1>9
  <2>2. Plan[i].steps[pc] = Now /\ pc \in DOMAIN Plan[i].steps
    BY <1>2, <1>9 DEF Now, This
  <2>3. Covers(Plan[i].steps, pc, k)
    BY <1>2, <1>4, <1>6, <1>9, <2>1, <2>2 DEF Covers
  <2>4. LeftOutByCheck(Plan[i].steps, k)
    BY <2>1, <2>2, <2>3 DEF LeftOutByCheck
  <2> QED
    BY <2>4 DEF Settled
<1> QED
  BY <1>4, <1>6, <1>7, <1>8, <1>9

\* A script is left behind when it is skipped or was gone through.
LEMMA PassedNextScript ==
  ASSUME TypeInv, StoresGrow, PassedIsSettled, NextScript
  PROVE  PassedIsSettled'
<1>1. Plan' = Plan /\ Executed' = Executed /\ at' = at + 1 /\ pc' = 1
  BY DEF StoresGrow, NextScript, Plan, Executed
<1>2. at \in Nat /\ pc \in Nat
  BY DEF TypeInv, DeploymentTypeOK
<1> SUFFICES ASSUME NEW i \in Executed, NEW k \in DOMAIN Plan[i].steps,
                    i < at + 1 \/ (i = at + 1 /\ k < 1)
             PROVE  Settled(i, k)
  <2>1. SUFFICES ASSUME NEW i \in Executed, NEW k \in DOMAIN Plan[i].steps,
                        i < at + 1 \/ (i = at + 1 /\ k < 1)
                 PROVE  Settled(i, k)'
    BY <1>1 DEF PassedIsSettled
  <2> QED
    BY <2>1, SettledGrows
<1>3. Plan[i] \in Scripts /\ i \in Nat /\ ~Plan[i].skip
  BY ReleasesAssumption DEF TypeInv, Plan, ReleaseRecords, Executed
<1>4. Plan[i].steps \in Seq(Steps)
  BY <1>3 DEF Scripts
<1>5. k \in 1..Len(Plan[i].steps)
  BY <1>4
<1>6. i < at \/ i = at
  BY <1>2, <1>3, <1>5
<1>7. i = at => k < pc
  BY <1>2, <1>3, <1>4, <1>5 DEF NextScript, This
<1> QED
  BY <1>6, <1>7 DEF PassedIsSettled

LEMMA SkipInvNext == SkipInv /\ [Next]_vars => SkipInv'
<1> SUFFICES ASSUME SkipInv, [Next]_vars PROVE SkipInv'
  OBVIOUS
<1>1. TypeInv /\ PassedIsSettled /\ FinishedIsSettled
  BY DEF SkipInv
<1>2. TypeInv' /\ StoresGrow
  BY <1>1, TypeInvNext, NextGrows
<1>3. Plan' = Plan /\ Executed' = Executed
  BY <1>2 DEF StoresGrow, Plan, Executed
\* The run stands where it stood.
<1>4. ASSUME at' = at, pc' = pc PROVE PassedIsSettled'
  <2> SUFFICES ASSUME NEW i \in Executed, NEW k \in DOMAIN Plan[i].steps, i < at \/ (i = at /\ k < pc)
               PROVE  Settled(i, k)'
    BY <1>3, <1>4 DEF PassedIsSettled
  <2>1. Settled(i, k)
    BY <1>1 DEF PassedIsSettled
  <2> QED
    BY <1>2, <2>1, SettledGrows
\* What was settled when a run ended well is settled for ever.
<1>5. ASSUME finished' = finished PROVE FinishedIsSettled'
  <2> SUFFICES ASSUME finished, ~release.again, NEW i \in Executed, NEW k \in DOMAIN Plan[i].steps
               PROVE  Settled(i, k)'
    BY <1>2, <1>3, <1>5 DEF FinishedIsSettled, StoresGrow
  <2>1. Settled(i, k)
    BY <1>1 DEF FinishedIsSettled
  <2> QED
    BY <1>2, <2>1, SettledGrows
<1>6. CASE Check \/ Reuse \/ DeployNew \/ SaveName \/ Transact \/ Spend
  <2>1. Advance
    BY <1>6 DEF Check, Reuse, DeployNew, SaveName, Transact, Spend
  <2>2. PassedIsSettled'
    BY <1>1, <1>2, <1>6, <2>1, PassedAdvances
  <2>3. FinishedIsSettled'
    BY <1>5, <2>1 DEF Advance
  <2> QED
    BY <1>2, <2>2, <2>3 DEF SkipInv
<1>7. CASE Branch
  <2>1. FinishedIsSettled'
    BY <1>5, <1>7 DEF Branch
  <2> QED
    BY <1>1, <1>2, <1>7, <2>1, PassedBranches DEF SkipInv
<1>8. CASE NextScript
  <2>1. FinishedIsSettled'
    BY <1>5, <1>8 DEF NextScript
  <2> QED
    BY <1>1, <1>2, <1>8, <2>1, PassedNextScript DEF SkipInv
<1>9. CASE Fail \/ Crash \/ Stays
  <2>1. at' = at /\ pc' = pc /\ finished' = finished
    BY <1>9 DEF Fail, Crash, Stays, besides
  <2> QED
    BY <1>2, <1>4, <1>5, <2>1 DEF SkipInv
<1>10. CASE Rerun
  <2>1. at' = 1 /\ pc' = 1 /\ finished' = finished
    BY <1>10 DEF Rerun
  <2>2. PassedIsSettled'
    <3> SUFFICES ASSUME NEW i \in Executed, NEW k \in DOMAIN Plan[i].steps, i < 1 \/ (i = 1 /\ k < 1)
                 PROVE  FALSE
      BY <1>3, <2>1 DEF PassedIsSettled
    <3>1. Plan[i] \in Scripts /\ i \in Nat \ {0}
      BY <1>1, ReleasesAssumption DEF TypeInv, Plan, ReleaseRecords, Executed
    <3>2. Plan[i].steps \in Seq(Steps)
      BY <3>1 DEF Scripts
    <3> QED
      BY <3>1, <3>2
  <2> QED
    BY <1>2, <1>5, <2>1, <2>2 DEF SkipInv
<1>11. CASE Finish
  <2>1. at' = at /\ pc' = pc /\ at > Len(Plan)
    BY <1>11 DEF Finish
  <2>2. FinishedIsSettled'
    <3> SUFFICES ASSUME NEW i \in Executed, NEW k \in DOMAIN Plan[i].steps
                 PROVE  Settled(i, k)'
      BY <1>3 DEF FinishedIsSettled
    <3>1. i \in 1..Len(Plan) /\ at \in Nat /\ Len(Plan) \in Nat
      BY <1>1, ReleasesAssumption DEF TypeInv, DeploymentTypeOK, Plan, ReleaseRecords, Executed
    <3>2. i < at
      BY <2>1, <3>1
    <3>3. Settled(i, k)
      BY <1>1, <3>2 DEF PassedIsSettled
    <3> QED
      BY <1>2, <3>3, SettledGrows
  <2> QED
    BY <1>2, <1>4, <2>1, <2>2 DEF SkipInv
<1> QED
  BY <1>6, <1>7, <1>8, <1>9, <1>10, <1>11, WhatHappens DEF Run

(***************************************************************************)
(* Careful scripts.  What a run does inside a block: the steps on its way  *)
(* there have had their effect, whatever the script.                       *)
(***************************************************************************)
LEMMA ScriptTyped ==
  ASSUME TypeInv, NEW i \in Executed
  PROVE  /\ i \in Nat \ {0} /\ i <= Len(Plan) /\ Len(Plan) \in Nat /\ ~Plan[i].skip
         /\ release \in ReleaseRecords
         /\ DOMAIN Plan[i].steps \subseteq Nat \ {0}
         /\ \A k \in DOMAIN Plan[i].steps : Plan[i].steps[k] \in Steps /\ Plan[i].steps[k].skip \in Nat
<1>0. release \in ReleaseRecords
  BY ReleasesAssumption DEF TypeInv
<1>1. Plan \in Seq(Scripts)
  BY <1>0 DEF Plan, ReleaseRecords
<1>2. i \in 1..Len(Plan) /\ Plan[i] \in Scripts /\ ~Plan[i].skip
  BY <1>1 DEF Executed
<1>3. Plan[i].steps \in Seq(Steps)
  BY <1>2 DEF Scripts
<1>4. \A k \in DOMAIN Plan[i].steps : Plan[i].steps[k] \in Steps
  BY <1>3
<1>5. \A k \in DOMAIN Plan[i].steps : Plan[i].steps[k].skip \in Nat
  BY <1>4 DEF Steps
<1>6. DOMAIN Plan[i].steps \subseteq Nat \ {0}
  BY <1>3
<1>7. Len(Plan) \in Nat
  BY <1>1
<1> QED
  BY <1>0, <1>2, <1>4, <1>5, <1>6, <1>7

\* A step of a script is taken where the run stands.
LEMMA StandsInScript ==
  ASSUME TypeInv, NEW kinds, At(kinds)
  PROVE  /\ status = "running" /\ at \in Executed /\ pc \in DOMAIN Plan[at].steps
         /\ Now = Plan[at].steps[pc] /\ Now \in Steps /\ Now.do \in kinds /\ at <= Len(Plan)
<1>1. at \in DOMAIN Plan /\ ~This.skip /\ pc \in DOMAIN This.steps /\ Now \in Steps /\ Now.do \in kinds
  BY NowIsAStep
<1>2. status = "running" /\ at <= Len(Plan)
  BY DEF At
<1> QED
  BY <1>1, <1>2 DEF Executed, This, Now

\* The six steps after which the run is at the next step of its script.
LEMMA StandsAndAdvances ==
  ASSUME TypeInv, Check \/ Reuse \/ DeployNew \/ SaveName \/ Transact \/ Spend
  PROVE  /\ Advance
         /\ status = "running" /\ at \in Executed /\ pc \in DOMAIN Plan[at].steps
         /\ Now = Plan[at].steps[pc] /\ Now \in Steps /\ Now.do \notin Branches /\ at <= Len(Plan)
<1> DEFINE Stands(kinds) ==
      /\ status = "running" /\ at \in Executed /\ pc \in DOMAIN Plan[at].steps
      /\ Now = Plan[at].steps[pc] /\ Now \in Steps /\ Now.do \in kinds /\ at <= Len(Plan)
<1>0. \A kinds : At(kinds) => Stands(kinds)
  BY StandsInScript
<1> HIDE DEF Stands
<1>1. CASE Check
  <2>1. Advance /\ Stands({"get", "expect nonce", "throw"})
    BY <1>0, <1>1 DEF Check
  <2> QED
    BY <2>1 DEF Stands, Branches, Occasions
<1>2. CASE Reuse
  <2>1. Advance /\ Stands({"deploy"})
    BY <1>0, <1>2 DEF Reuse
  <2> QED
    BY <2>1 DEF Stands, Branches, Occasions
<1>3. CASE DeployNew
  <2>1. Advance /\ Stands({"deploy"})
    BY <1>0, <1>3 DEF DeployNew
  <2> QED
    BY <2>1 DEF Stands, Branches, Occasions
<1>4. CASE SaveName
  <2>1. Advance /\ Stands({"save"})
    BY <1>0, <1>4 DEF SaveName
  <2> QED
    BY <2>1 DEF Stands, Branches, Occasions
<1>5. CASE Transact
  <2>1. Advance /\ Stands({"make", "set", "once", "add", "owner"})
    BY <1>0, <1>5 DEF Transact
  <2> QED
    BY <2>1 DEF Stands, Branches, Occasions
<1>6. CASE Spend
  <2>1. Advance /\ Stands({"spend"})
    BY <1>0, <1>6 DEF Spend
  <2> QED
    BY <2>1 DEF Stands, Branches, Occasions
<1> QED
  BY <1>1, <1>2, <1>3, <1>4, <1>5, <1>6

\* Where the run goes from one state to the next, when it is running then.
Enters(i, p) ==
  \/ /\ status = "running" /\ i = at /\ p = pc + 1 /\ pc \in DOMAIN Plan[at].steps
     /\ Plan[at].steps[pc].do \notin Branches
     /\ Check \/ Reuse \/ DeployNew \/ SaveName \/ Transact \/ Spend
  \/ /\ status = "running" /\ i = at /\ pc \in DOMAIN Plan[at].steps
     /\ Plan[at].steps[pc].do \in Branches /\ Branch
     /\ p = IF LeftOut(Plan[at].steps[pc]) THEN pc + 1 + Plan[at].steps[pc].skip ELSE pc + 1
  \/ p = 1
  \/ status = "running" /\ i = at /\ p = pc /\ Stays

LEMMA RunGoesOn ==
  ASSUME TypeInv, [Next]_vars, status' = "running", NEW i, i = at', NEW p, p = pc'
  PROVE  Enters(i, p)
<1>1. CASE Check \/ Reuse \/ DeployNew \/ SaveName \/ Transact \/ Spend
  BY <1>1, StandsAndAdvances DEF Enters, Advance
<1>2. CASE Branch
  <2>1. /\ status = "running" /\ at \in Executed /\ pc \in DOMAIN Plan[at].steps
        /\ Now = Plan[at].steps[pc] /\ Now.do \in Branches
    BY <1>2, StandsInScript DEF Branch
  <2> QED
    BY <1>2, <2>1 DEF Enters, Branch
<1>3. CASE NextScript \/ Rerun
  BY <1>3 DEF Enters, NextScript, Rerun
<1>4. CASE Fail \/ Finish \/ Crash
  BY <1>4 DEF Fail, Finish, Crash
<1>5. CASE Stays
  BY <1>5 DEF Enters, Stays, besides
<1> QED
  BY <1>1, <1>2, <1>3, <1>4, <1>5, WhatHappens DEF Run

\* Step m is on the way to p.
EnteredAt(i, p) ==
  \A m \in DOMAIN Plan[i].steps :
    m < p /\ (\A c \in DOMAIN Plan[i].steps : Covers(Plan[i].steps, c, m) => Covers(Plan[i].steps, c, p))
      => Effected(Plan[i].steps[m])
Entered == status = "running" /\ at \in Executed => EnteredAt(at, pc)

LEMMA EnteredNext ==
  ASSUME TypeInv, StoresGrow, Entered, [Next]_vars
  PROVE  Entered'
<1>0. Plan' = Plan /\ Executed' = Executed
  BY DEF StoresGrow, Plan, Executed
<1> SUFFICES ASSUME status' = "running", NEW i \in Executed, i = at', NEW p, p = pc',
                    NEW m \in DOMAIN Plan[i].steps, m < p,
                    \A c \in DOMAIN Plan[i].steps :
                      Covers(Plan[i].steps, c, m) => Covers(Plan[i].steps, c, p)
             PROVE  Effected(Plan[i].steps[m])'
  BY <1>0 DEF Entered, EnteredAt
<1>1. Enters(i, p)
  BY RunGoesOn
<1>2. /\ DOMAIN Plan[i].steps \subseteq Nat \ {0}
      /\ \A k \in DOMAIN Plan[i].steps : Plan[i].steps[k].skip \in Nat
  BY ScriptTyped
<1>3. pc \in Nat
  BY DEF TypeInv, DeploymentTypeOK
\* What was on the way to the place before is on the way to this one.
<1>4. ASSUME status = "running", i = at, m < pc, pc <= p
      PROVE  Effected(Plan[i].steps[m])'
  <2>1. p \in Nat
    <3>1. pc' \in Nat
      BY TypeInvNext DEF TypeInv, DeploymentTypeOK
    <3> QED
      BY <3>1
  <2>2. ASSUME NEW c \in DOMAIN Plan[i].steps, Covers(Plan[i].steps, c, m)
        PROVE  Covers(Plan[i].steps, c, pc)
    <3>1. Covers(Plan[i].steps, c, p)
      BY <2>2
    <3>2. c \in Nat /\ m \in Nat /\ Plan[i].steps[c].skip \in Nat
      BY <1>2
    <3> QED
      BY <1>3, <1>4, <2>1, <2>2, <3>1, <3>2 DEF Covers
  <2>3. Effected(Plan[i].steps[m])
    BY <1>4, <2>2 DEF Entered, EnteredAt
  <2> QED
    BY <1>0, <2>3, EffectedGrows
<1>5. CASE /\ status = "running" /\ i = at /\ p = pc + 1 /\ pc \in DOMAIN Plan[at].steps
           /\ Plan[at].steps[pc].do \notin Branches
           /\ Check \/ Reuse \/ DeployNew \/ SaveName \/ Transact \/ Spend
  <2>1. m \in Nat
    BY <1>2
  <2>2. CASE m < pc
    BY <1>3, <1>4, <1>5, <2>2
  <2>3. CASE m = pc
    <3>1. Plan[i].steps[m] = Now
      BY <1>5, <2>3 DEF Now, This
    <3>2. \A s : s = Now => Met(s)'
      BY <1>5, StepSettled
    <3>3. PICK s : s = Plan[i].steps[m]
      OBVIOUS
    <3>4. Effected(s)'
      BY <3>1, <3>2, <3>3 DEF Met
    <3> QED
      BY <1>0, <3>3, <3>4 DEF Effected
  <2> QED
    BY <1>3, <1>5, <2>1, <2>2, <2>3
<1>6. CASE /\ status = "running" /\ i = at /\ pc \in DOMAIN Plan[at].steps
           /\ Plan[at].steps[pc].do \in Branches /\ Branch
           /\ p = IF LeftOut(Plan[at].steps[pc]) THEN pc + 1 + Plan[at].steps[pc].skip ELSE pc + 1
  <2>1. m \in Nat /\ Plan[i].steps[pc].skip \in Nat
    BY <1>2, <1>6
  <2>2. CASE m < pc
    BY <1>3, <1>4, <1>6, <2>1, <2>2
  <2>3. CASE m = pc
    <3>1. Plan[i].steps[m].do \in Branches
      BY <1>6, <2>3
    <3>2. Effected(Plan[i].steps[m])
      BY <3>1 DEF Branches, Occasions, Effected, FoundIn
    <3> QED
      BY <1>0, <3>2, EffectedGrows
  <2>4. CASE pc < m
    <3>1. p = pc + 1 + Plan[i].steps[pc].skip
      BY <1>3, <1>6, <2>1, <2>4
    <3>2. Covers(Plan[i].steps, pc, m)
      BY <1>3, <1>6, <2>1, <2>4, <3>1 DEF Covers
    <3>3. Covers(Plan[i].steps, pc, p)
      BY <1>6, <3>2
    <3> QED
      BY <1>3, <2>1, <3>1, <3>3 DEF Covers
  <2> QED
    BY <1>3, <2>1, <2>2, <2>3, <2>4
<1>7. CASE p = 1
  BY <1>2, <1>7
<1>8. CASE status = "running" /\ i = at /\ p = pc /\ Stays
  BY <1>3, <1>4, <1>8
<1> QED
  BY <1>1, <1>5, <1>6, <1>7, <1>8 DEF Enters

(***************************************************************************)
(* The check of a careful script is true only when the whole of its block  *)
(* has been done.                                                          *)
(***************************************************************************)
CarefulScript(i) == Careful(release, Plan[i].steps)

\* A check that was not true and is true now was made true by the step that
\* was taken.
LEMMA NewlyAnswered ==
  ASSUME TypeInv, StoresGrow, [Next]_vars, NEW check, check.do \in Unless, ~LeftOut(check), LeftOut(check)'
  PROVE  (DeployNew \/ SaveName \/ Transact) /\ Establishes(check, Now)
<1>0. release' = release
  BY DEF StoresGrow
<1>a. /\ check.do = "unless saved" => (LeftOut(check) <=> IsSaved(check.of)) /\ (LeftOut(check)' <=> IsSaved(check.of)')
      /\ check.do = "unless holds" =>
           (LeftOut(check) <=> Holds(check.of, check.fact)) /\ (LeftOut(check)' <=> Holds(check.of, check.fact)')
  BY DEF LeftOut, Unless
<1>1. ASSUME saved' = saved, chain' = chain PROVE FALSE
  <2>1. IsSaved(check.of)' = IsSaved(check.of) /\ Holds(check.of, check.fact)' = Holds(check.of, check.fact)
    BY <1>0, <1>1 DEF IsSaved, Holds
  <2> QED
    BY <1>a, <2>1 DEF Unless
<1>2. CASE Check \/ Reuse \/ Spend \/ Branch \/ Fail \/ NextScript \/ Finish \/ Crash \/ Rerun \/ Stays
  <2>1. saved' = saved /\ chain' = chain
    BY <1>2 DEF Check, Reuse, Spend, Branch, Fail, NextScript, Finish, Crash, Rerun, Stays, besides, stores
  <2> QED
    BY <1>1, <2>1
<1>3. CASE DeployNew
  <2>1. Now.do = "deploy" /\ saved' = saved \union {Now.of} /\ chain' = chain \union {<<Now.of, Now.fact>>}
    BY <1>3 DEF DeployNew, At
  <2>2. CASE check.do = "unless saved"
    <3>1. check.of = Now.of
      BY <1>0, <1>a, <2>1, <2>2 DEF IsSaved
    <3> QED
      BY <1>3, <2>1, <2>2, <3>1 DEF Establishes
  <2>3. CASE check.do = "unless holds"
    <3>1. <<check.of, check.fact>> = <<Now.of, Now.fact>>
      BY <1>0, <1>a, <2>1, <2>3 DEF Holds
    <3> QED
      BY <1>3, <2>1, <2>3, <3>1 DEF Establishes, Effects
  <2> QED
    BY <2>2, <2>3 DEF Unless
<1>4. CASE SaveName
  <2>1. /\ Now.do = "save" /\ chain' = chain
        /\ saved' = IF IsSaved(Now.of) THEN saved ELSE saved \union {Now.of}
    BY <1>4 DEF SaveName, At
  <2>2. CASE check.do = "unless saved"
    <3>1. check.of = Now.of
      BY <1>0, <1>a, <2>1, <2>2 DEF IsSaved
    <3> QED
      BY <1>4, <2>1, <2>2, <3>1 DEF Establishes
  <2>3. CASE check.do = "unless holds"
    BY <1>0, <1>a, <2>1, <2>3 DEF Holds
  <2> QED
    BY <2>2, <2>3 DEF Unless
<1>5. CASE Transact
  <2>1. /\ Now.do \in {"make", "set", "once", "add", "owner"} /\ saved' = saved
        /\ chain' = IF Holds(Now.of, Now.fact) THEN chain ELSE chain \union {<<Now.of, Now.fact>>}
    BY <1>5 DEF Transact, At
  <2>2. CASE check.do = "unless saved"
    BY <1>0, <1>a, <2>1, <2>2 DEF IsSaved
  <2>3. CASE check.do = "unless holds"
    <3>1. <<check.of, check.fact>> = <<Now.of, Now.fact>>
      BY <1>0, <1>a, <2>1, <2>3 DEF Holds
    <3> QED
      BY <1>5, <2>1, <2>3, <3>1 DEF Establishes, Effects
  <2> QED
    BY <2>2, <2>3 DEF Unless
<1> QED
  BY <1>2, <1>3, <1>4, <1>5, WhatHappens DEF Run

LEMMA SameEffectIsEffected ==
  ASSUME NEW s, NEW t, SameEffect(s, t), Effected(s)'
  PROVE  Effected(t)'
<1>1. CASE {s.do, t.do} \subseteq {"deploy", "save"} /\ s.of = t.of
  BY <1>1 DEF Effected, FoundIn
<1>2. CASE {s.do, t.do} \subseteq Transactions /\ s.of = t.of /\ s.fact = t.fact
  BY <1>2 DEF Effected, FoundIn, Transactions
<1> QED
  BY <1>1, <1>2 DEF SameEffect

ClosedIsDone ==
  \A i \in Executed : CarefulScript(i) =>
    \A j \in DOMAIN Plan[i].steps : Closes(Plan[i].steps, j) /\ LeftOut(Plan[i].steps[j]) =>
      \A k \in DOMAIN Plan[i].steps : Covers(Plan[i].steps, j, k) => Effected(Plan[i].steps[k])

LEMMA ClosedIsDoneInit == Init => ClosedIsDone
<1> SUFFICES ASSUME Init, NEW i \in Executed, CarefulScript(i),
                    NEW j \in DOMAIN Plan[i].steps, Closes(Plan[i].steps, j), LeftOut(Plan[i].steps[j]),
                    NEW k \in DOMAIN Plan[i].steps, Covers(Plan[i].steps, j, k)
             PROVE  Effected(Plan[i].steps[k])
  BY DEF ClosedIsDone
<1>1. saved = {} /\ chain = {} /\ Plan[i].steps[j].do \in Unless
  BY DEF Init, Closes
<1>2. StoodBefore(release, Plan[i].steps[j])
  BY <1>1 DEF StoodBefore, LeftOut, IsSaved, Holds, Unless
<1>3. FoundIn(Plan[i].steps[k], release.saved, release.chain)
  BY <1>2 DEF CarefulScript, Careful, ClosesLast
<1> QED
  BY <1>3 DEF Effected, FoundIn

LEMMA ClosedIsDoneNext ==
  ASSUME TypeInv, StoresGrow, Entered, ClosedIsDone, [Next]_vars
  PROVE  ClosedIsDone'
<1>0. release' = release /\ Plan' = Plan /\ Executed' = Executed
  BY DEF StoresGrow, Plan, Executed
<1> SUFFICES ASSUME NEW i \in Executed, CarefulScript(i), NEW steps, steps = Plan[i].steps,
                    NEW j \in DOMAIN steps, Closes(steps, j), LeftOut(steps[j])',
                    NEW k \in DOMAIN steps, Covers(steps, j, k)
             PROVE  Effected(steps[k])'
  <2>1. SUFFICES ASSUME NEW i \in Executed, CarefulScript(i),
                        NEW j \in DOMAIN Plan[i].steps, Closes(Plan[i].steps, j),
                        LeftOut(Plan[i].steps[j])',
                        NEW k \in DOMAIN Plan[i].steps, Covers(Plan[i].steps, j, k)
                 PROVE  Effected(Plan[i].steps[k])'
    BY <1>0 DEF ClosedIsDone, CarefulScript
  <2>2. PICK steps : steps = Plan[i].steps
    OBVIOUS
  <2>3. LeftOut(steps[j])'
    BY <1>0, <2>1, <2>2
  <2>4. Effected(steps[k])'
    BY <2>1, <2>2, <2>3
  <2> QED
    BY <1>0, <2>2, <2>4
\* The block was done before.
<1>1. CASE LeftOut(steps[j])
  <2>1. Effected(steps[k])
    BY <1>1 DEF ClosedIsDone
  <2> QED
    BY <2>1, EffectedGrows
\* The step that is taken answers the check.
<1>2. CASE ~LeftOut(steps[j])
  <2>1. (DeployNew \/ SaveName \/ Transact) /\ Establishes(steps[j], Now)
    BY <1>2, NewlyAnswered DEF Closes
  <2>2. /\ at \in Executed /\ pc \in DOMAIN Plan[at].steps /\ Now = Plan[at].steps[pc]
        /\ status = "running"
    BY <2>1, StandsAndAdvances
  <2>3. at \in DOMAIN release.plan /\ ~release.plan[at].skip
    BY <2>2 DEF Executed, Plan
  <2>4. CASE steps[k].do \notin Effects
    BY <2>4 DEF Effected, FoundIn, Effects
  <2>5. CASE steps[k].do \in Effects
    <3>1. ClosesLast(release, steps)
      BY DEF CarefulScript, Careful
    <3>2. PICK m \in DOMAIN Plan[at].steps :
            OnTheWay(Plan[at].steps, m, pc) /\ SameEffect(Plan[at].steps[m], steps[k])
      BY <2>1, <2>2, <2>3, <2>5, <3>1 DEF ClosesLast, Plan
    <3>3. PICK s : s = Plan[at].steps[m]
      OBVIOUS
    <3>4. CASE m = pc
      <4>1. Effected(s)'
        BY <2>1, <2>2, <3>3, <3>4, StepSettled DEF Met
      <4> QED
        BY <3>2, <3>3, <4>1, SameEffectIsEffected
    <3>5. CASE m # pc
      <4>1. m \in Nat /\ pc \in Nat
        BY <2>2, ScriptTyped DEF TypeInv, DeploymentTypeOK
      <4>2. m < pc /\ \A c \in DOMAIN Plan[at].steps :
                        Covers(Plan[at].steps, c, m) => Covers(Plan[at].steps, c, pc)
        BY <3>2, <3>5, <4>1 DEF OnTheWay, GoesWith
      <4>3. Effected(s)
        BY <2>2, <3>3, <4>2 DEF Entered, EnteredAt
      <4>4. Effected(s)'
        BY <4>3, EffectedGrows
      <4> QED
        BY <3>2, <3>3, <4>4, SameEffectIsEffected
    <3> QED
      BY <3>4, <3>5
  <2> QED
    BY <2>4, <2>5
<1> QED
  BY <1>1, <1>2

LossInv == SkipInv /\ Entered /\ ClosedIsDone

LEMMA LossInvInit == Init => LossInv
<1> SUFFICES ASSUME Init PROVE LossInv
  OBVIOUS
<1>1. SkipInv /\ ClosedIsDone
  BY SkipInvInit, ClosedIsDoneInit
<1>2. Entered
  <2> SUFFICES ASSUME at \in Executed, NEW m \in DOMAIN Plan[at].steps, m < pc
               PROVE  FALSE
    BY DEF Entered, EnteredAt
  <2>1. TypeInv
    BY <1>1 DEF SkipInv
  <2>2. m \in Nat \ {0}
    BY <2>1, ScriptTyped
  <2>3. pc = 1
    BY DEF Init
  <2> QED
    BY <2>2, <2>3
<1> QED
  BY <1>1, <1>2 DEF LossInv

LEMMA LossInvNext == LossInv /\ [Next]_vars => LossInv'
<1> SUFFICES ASSUME LossInv, [Next]_vars PROVE LossInv'
  OBVIOUS
<1>1. SkipInv /\ TypeInv /\ Entered /\ ClosedIsDone
  BY DEF LossInv, SkipInv
<1>2. StoresGrow
  BY <1>1, NextGrows
<1>3. SkipInv'
  BY <1>1, SkipInvNext
<1>4. Entered' /\ ClosedIsDone'
  BY <1>1, <1>2, EnteredNext, ClosedIsDoneNext
<1> QED
  BY <1>3, <1>4 DEF LossInv

\* Once a run went through the plan, a careful script has done all it is
\* for, wherever it was cut off, and whatever the other scripts are.
CarefulScriptsAreComplete == finished => \A i \in Executed : CarefulScript(i) => Complete(Plan[i])

LEMMA ClosedIsComplete == LossInv => CarefulScriptsAreComplete
<1> SUFFICES ASSUME LossInv, finished, NEW i \in Executed, CarefulScript(i),
                    NEW k \in DOMAIN Plan[i].steps, ~Effected(Plan[i].steps[k])
             PROVE  Excused(Plan[i].steps, k)
  BY DEF CarefulScriptsAreComplete, Complete
<1>1. LeftOutByCheck(Plan[i].steps, k)
  BY SettledIsSkipped DEF LossInv, AllIsDoneOrLeftOut
<1>2. PICK j \in DOMAIN Plan[i].steps :
        /\ Covers(Plan[i].steps, j, k)
        /\ Plan[i].steps[j].do \in Unless => LeftOut(Plan[i].steps[j])
  BY <1>1 DEF LeftOutByCheck
<1>3. IsPlain(Plan[i].steps)
  BY DEF CarefulScript, Careful
<1>4. Plan[i].steps[j].do \in {"get"} \union Effects \union Unless /\ Plan[i].steps[j].do \in Branches
  BY <1>2, <1>3 DEF IsPlain, Covers
<1>5. Plan[i].steps[j].do \in Unless
  BY <1>4 DEF Branches, Occasions, Effects, Unless
<1>6. LeftOut(Plan[i].steps[j])
  BY <1>2, <1>5 DEF Unless
<1>7. ~Closes(Plan[i].steps, j)
  BY <1>2, <1>6 DEF LossInv, ClosedIsDone
<1> QED
  BY <1>2, <1>5, <1>6, <1>7 DEF Closes, Excused, Unless, Occasions

\* A careful script is not left half-done by any number of cut-offs: its
\* checks never hide what the run before them did not get to.
THEOREM CarefulScriptsLoseNothing == Spec => []CarefulScriptsAreComplete
<1>1. Init => LossInv
  BY LossInvInit
<1>2. LossInv /\ [Next]_vars => LossInv'
  BY LossInvNext
<1>3. LossInv => CarefulScriptsAreComplete
  BY ClosedIsComplete
<1> QED
  BY <1>1, <1>2, <1>3, PTL DEF Spec

\* Of the networks that keep their state, what is not listed as fragile is
\* careful: TLC evaluates the assumption for the plans of this repository.
LEMMA CarefulUnlessFragile ==
  ASSUME TypeInv, release.live \/ release.again, NEW i \in Executed, ~Fragile(i)
  PROVE  CarefulScript(i)
  BY CarefulAssumption DEF TypeInv, Executed, Plan, Fragile, CarefulScript

(***************************************************************************)
(* Nothing is made twice: in a careful script, the checks in whose blocks  *)
(* the run stands were not true when it came there, and no step has made   *)
(* them true but those that establish what they ask for.                   *)
(***************************************************************************)
NotYetEstablished(steps, j, p) == \A b \in DOMAIN steps : j < b /\ b < p => ~Establishes(steps[j], steps[b])
Asked(i, p) ==
  \A j \in DOMAIN Plan[i].steps :
    Plan[i].steps[j].do \in Unless /\ Covers(Plan[i].steps, j, p) /\ NotYetEstablished(Plan[i].steps, j, p)
      => ~LeftOut(Plan[i].steps[j])
AskedFirst == status = "running" /\ at \in Executed /\ CarefulScript(at) => Asked(at, pc)

\* A check whose block the run is in after a step is the check that it has
\* just gone by, or one in whose block it was before.
LEMMA CoveredBefore ==
  ASSUME TypeInv, [Next]_vars, status' = "running", NEW i \in Executed, i = at',
         NEW steps, steps = Plan[i].steps, WellNested(steps),
         NEW p, p = pc', NEW j \in DOMAIN steps, Covers(steps, j, p)
  PROVE  /\ status = "running" /\ i = at /\ pc <= p
         /\ Covers(steps, j, pc) \/ (j = pc /\ ~LeftOut(steps[j]) /\ Branch)
<1>1. Enters(i, p)
  BY RunGoesOn
<1>2. DOMAIN steps \subseteq Nat \ {0} /\ \A k \in DOMAIN steps : steps[k].skip \in Nat
  BY ScriptTyped
<1>3. pc \in Nat /\ j \in Nat /\ steps[j].skip \in Nat
  BY <1>2 DEF TypeInv, DeploymentTypeOK
<1>4. CASE /\ status = "running" /\ i = at /\ p = pc + 1 /\ pc \in DOMAIN Plan[at].steps
           /\ Plan[at].steps[pc].do \notin Branches
           /\ Check \/ Reuse \/ DeployNew \/ SaveName \/ Transact \/ Spend
  <2>1. j # pc
    BY <1>4 DEF Covers
  <2> QED
    BY <1>3, <1>4, <2>1 DEF Covers
<1>5. CASE /\ status = "running" /\ i = at /\ pc \in DOMAIN Plan[at].steps
           /\ Plan[at].steps[pc].do \in Branches /\ Branch
           /\ p = IF LeftOut(Plan[at].steps[pc]) THEN pc + 1 + Plan[at].steps[pc].skip ELSE pc + 1
  <2>1. steps[pc].skip \in Nat
    BY <1>2, <1>5
  <2>2. pc <= p
    BY <1>3, <1>5, <2>1
  <2>3. CASE j < pc
    BY <1>3, <1>5, <2>1, <2>2, <2>3 DEF Covers
  <2>4. CASE j = pc
    BY <1>3, <1>5, <2>1, <2>2, <2>4 DEF Covers
  \* A check in the block that was left out ends with it.
  <2>5. CASE pc < j
    <3>1. j < p /\ steps[j].do \in Branches
      BY DEF Covers
    <3>2. p = pc + 1 + steps[pc].skip
      BY <1>3, <1>5, <2>1, <2>5, <3>1
    <3>3. j <= pc + steps[pc].skip
      BY <1>3, <2>1, <3>1, <3>2
    <3>4. Covers(steps, pc, j)
      BY <1>5, <2>5, <3>3 DEF Covers
    <3>5. j + steps[j].skip <= pc + steps[pc].skip
      BY <1>5, <3>1, <3>4 DEF WellNested
    <3> QED
      BY <1>3, <2>1, <3>2, <3>5 DEF Covers
  <2> QED
    BY <1>3, <2>3, <2>4, <2>5
<1>6. CASE p = 1
  BY <1>2, <1>6 DEF Covers
<1>7. CASE status = "running" /\ i = at /\ p = pc /\ Stays
  BY <1>3, <1>7
<1> QED
  BY <1>1, <1>4, <1>5, <1>6, <1>7 DEF Enters

LEMMA AskedFirstNext ==
  ASSUME TypeInv, StoresGrow, AskedFirst, [Next]_vars
  PROVE  AskedFirst'
<1>0. release' = release /\ Plan' = Plan /\ Executed' = Executed
  BY DEF StoresGrow, Plan, Executed
<1> SUFFICES ASSUME status' = "running", NEW i \in Executed, i = at', CarefulScript(i), NEW p, p = pc',
                    NEW steps, steps = Plan[i].steps,
                    NEW j \in DOMAIN steps, steps[j].do \in Unless, Covers(steps, j, p),
                    NotYetEstablished(steps, j, p), LeftOut(steps[j])'
             PROVE  FALSE
  <2>1. SUFFICES ASSUME status' = "running", NEW i \in Executed, i = at', CarefulScript(i),
                        NEW j \in DOMAIN Plan[i].steps, Plan[i].steps[j].do \in Unless,
                        Covers(Plan[i].steps, j, pc'),
                        NotYetEstablished(Plan[i].steps, j, pc'), LeftOut(Plan[i].steps[j])'
                 PROVE  FALSE
    BY <1>0 DEF AskedFirst, Asked, CarefulScript, Covers, Establishes, NotYetEstablished
  <2>2. PICK steps : steps = Plan[i].steps
    OBVIOUS
  <2>3. LeftOut(steps[j])'
    BY <1>0, <2>1, <2>2
  <2>4. PICK p : p = pc'
    OBVIOUS
  <2> QED
    BY <2>1, <2>2, <2>3, <2>4
<1>1. /\ status = "running" /\ i = at /\ pc <= p
      /\ Covers(steps, j, pc) \/ (j = pc /\ ~LeftOut(steps[j]) /\ Branch)
  BY CoveredBefore DEF CarefulScript, Careful
<1>2. pc \in Nat /\ p \in Nat /\ j \in Nat /\ DOMAIN steps \subseteq Nat
  <2>1. pc' \in Nat
    BY TypeInvNext DEF TypeInv, DeploymentTypeOK
  <2> QED
    BY <2>1, ScriptTyped DEF TypeInv, DeploymentTypeOK
\* The check was not true in the state before.
<1>3. ~LeftOut(steps[j])
  <2>1. NotYetEstablished(steps, j, pc)
    BY <1>1, <1>2 DEF NotYetEstablished
  <2> QED
    BY <1>1, <2>1 DEF AskedFirst, Asked
\* So the step that was taken established what it asks for.
<1>4. (DeployNew \/ SaveName \/ Transact) /\ Establishes(steps[j], Now)
  BY <1>3, NewlyAnswered
<1>5. /\ pc \in DOMAIN steps /\ Now = steps[pc] /\ Now.do \notin Branches
      /\ p = pc + 1
  BY <1>1, <1>4, StandsAndAdvances DEF Advance
<1>6. j < pc
  BY <1>1, <1>2, <1>5 DEF Covers, Unless, Branches, Occasions
<1>7. ~Establishes(steps[j], steps[pc])
  BY <1>2, <1>5, <1>6 DEF NotYetEstablished
<1> QED
  BY <1>4, <1>5, <1>7

\* So a step that may not be done again finds that it has not been done.
LEMMA CarefulMakesOnce ==
  ASSUME TypeInv, AskedFirst, Transact, CarefulScript(at)
  PROVE  twice' = twice
<1>1. /\ status = "running" /\ at \in Executed /\ pc \in DOMAIN Plan[at].steps
      /\ Now = Plan[at].steps[pc]
  BY StandsAndAdvances
<1>2. twice' = IF Now.do \in {"make", "add"} /\ Holds(Now.of, Now.fact) THEN twice \union {at} ELSE twice
  BY DEF Transact
<1>3. ASSUME Now.do \in {"make", "add"} PROVE ~Holds(Now.of, Now.fact)
  <2>1. MakesOnce(Plan[at].steps)
    BY DEF CarefulScript, Careful
  <2>2. PICK j \in DOMAIN Plan[at].steps :
          /\ Covers(Plan[at].steps, j, pc) /\ Plan[at].steps[j].do = "unless holds"
          /\ Plan[at].steps[j].of = Now.of /\ Plan[at].steps[j].fact = Now.fact
          /\ \A b \in DOMAIN Plan[at].steps :
               j < b /\ b < pc => ~Establishes(Plan[at].steps[j], Plan[at].steps[b])
    BY <1>1, <1>3, <2>1 DEF MakesOnce
  <2>3. ~LeftOut(Plan[at].steps[j])
    BY <1>1, <2>2 DEF AskedFirst, Asked, NotYetEstablished, Unless
  <2> QED
    BY <2>2, <2>3 DEF LeftOut
<1> QED
  BY <1>2, <1>3

OnlyCarelessTwice == \A i \in twice : i \in Executed /\ ~CarefulScript(i)
OnceInv == TypeInv /\ AskedFirst /\ OnlyCarelessTwice

LEMMA OnceInvInit == Init => OnceInv
<1> SUFFICES ASSUME Init PROVE OnceInv
  OBVIOUS
<1>1. TypeInv
  BY TypeInvInit
<1>2. AskedFirst
  <2> SUFFICES ASSUME at \in Executed, NEW j \in DOMAIN Plan[at].steps, j < pc
               PROVE  FALSE
    BY DEF AskedFirst, Asked, Covers
  <2>1. j \in Nat \ {0} /\ pc = 1
    BY <1>1, ScriptTyped DEF Init
  <2> QED
    BY <2>1
<1>3. OnlyCarelessTwice
  BY DEF Init, OnlyCarelessTwice
<1> QED
  BY <1>1, <1>2, <1>3 DEF OnceInv

LEMMA OnceInvNext == OnceInv /\ [Next]_vars => OnceInv'
<1> SUFFICES ASSUME OnceInv, [Next]_vars PROVE OnceInv'
  OBVIOUS
<1>1. TypeInv /\ AskedFirst /\ OnlyCarelessTwice
  BY DEF OnceInv
<1>2. TypeInv' /\ StoresGrow
  BY <1>1, TypeInvNext, NextGrows
<1>3. AskedFirst'
  BY <1>1, <1>2, AskedFirstNext
<1>4. release' = release /\ Plan' = Plan /\ Executed' = Executed
  BY <1>2 DEF StoresGrow, Plan, Executed
<1>5. twice' = twice \/ (Transact /\ twice' = twice \union {at})
  BY WhatHappens DEF Run, Check, Reuse, DeployNew, SaveName, Transact, Spend, Branch, Fail, NextScript, Finish,
         Crash, Rerun, Stays, besides, stores
<1>6. CASE twice' = twice
  BY <1>1, <1>2, <1>3, <1>4, <1>6 DEF OnceInv, OnlyCarelessTwice, CarefulScript
<1>7. CASE Transact /\ twice' = twice \union {at} /\ twice' # twice
  <2>1. at \in Executed /\ ~CarefulScript(at)
    BY <1>1, <1>7, StandsAndAdvances, CarefulMakesOnce
  <2> QED
    BY <1>1, <1>2, <1>3, <1>4, <1>7, <2>1 DEF OnceInv, OnlyCarelessTwice, CarefulScript
<1> QED
  BY <1>5, <1>6, <1>7

(***************************************************************************)
(* Later runs.  Once a run went through the plan, a run comes to no step   *)
(* of a careful script that would do or ask for anything new: the checks   *)
(* around the place where it stands are not true, so what was settled      *)
(* there was not left out but done.                                        *)
(***************************************************************************)
NoneLeftOut ==
  \A j \in DOMAIN Plan[at].steps :
    Plan[at].steps[j].do \in Unless /\ Covers(Plan[at].steps, j, pc) => ~LeftOut(Plan[at].steps[j])
InsideNothingIsLeftOut ==
  finished /\ status = "running" /\ at \in Executed /\ CarefulScript(at) => NoneLeftOut

\* A release that is not run again ends with the run that went through.
FreshEnds == finished /\ ~release.live /\ ~release.again => status = "done" /\ at > Len(Plan)

QuietInv == SkipInv /\ InsideNothingIsLeftOut /\ FreshEnds

\* What was left undone behind the place of the run was left out by a check
\* that does not cover the place.
LEMMA NotCovered ==
  ASSUME NoneLeftOut, at \in Executed, CarefulScript(at), NEW k, LeftOutByCheck(Plan[at].steps, k)
  PROVE  \E c \in DOMAIN Plan[at].steps :
           /\ Covers(Plan[at].steps, c, k) /\ ~Covers(Plan[at].steps, c, pc)
           /\ Plan[at].steps[c].do \in Unless /\ LeftOut(Plan[at].steps[c])
<1>1. PICK c \in DOMAIN Plan[at].steps :
        /\ Covers(Plan[at].steps, c, k)
        /\ Plan[at].steps[c].do \in Unless => LeftOut(Plan[at].steps[c])
  BY DEF LeftOutByCheck
<1>2. Plan[at].steps[c].do \in {"get"} \union Effects \union Unless /\ Plan[at].steps[c].do \in Branches
  BY <1>1 DEF CarefulScript, Careful, IsPlain, Covers
<1>3. Plan[at].steps[c].do \in Unless
  BY <1>2 DEF Branches, Occasions, Effects, Unless
<1>4. LeftOut(Plan[at].steps[c])
  BY <1>1, <1>3 DEF Unless
<1>5. ~Covers(Plan[at].steps, c, pc)
  BY <1>3, <1>4 DEF NoneLeftOut
<1> QED
  BY <1>1, <1>3, <1>4, <1>5

\* The step at which the run stands has had its effect already.
LEMMA NowIsEffected ==
  ASSUME SkipInv, NoneLeftOut, finished, at \in Executed, CarefulScript(at),
         pc \in DOMAIN Plan[at].steps
  PROVE  Effected(Plan[at].steps[pc])
<1>1. Effected(Plan[at].steps[pc]) \/ LeftOutByCheck(Plan[at].steps, pc)
  BY SettledIsSkipped DEF AllIsDoneOrLeftOut
<1> QED
  BY <1>1, NotCovered

\* It is no step that might revert or act again: the check that its block
\* closes would be true.
LEMMA NothingToAct ==
  ASSUME SkipInv, NoneLeftOut, finished, at \in Executed, CarefulScript(at),
         pc \in DOMAIN Plan[at].steps
  PROVE  Plan[at].steps[pc].do \notin Transactions \ {"set"}
<1> SUFFICES ASSUME Plan[at].steps[pc].do \in Transactions \ {"set"} PROVE FALSE
  OBVIOUS
<1> DEFINE steps == Plan[at].steps
<1>1. PICK j \in DOMAIN steps, b \in DOMAIN steps :
        /\ Covers(steps, j, pc) /\ Covers(steps, j, b)
        /\ steps[j].do \in Unless /\ Establishes(steps[j], steps[b])
        /\ steps[j].do = "unless holds" => steps[b].do # "deploy"
        /\ \A c \in DOMAIN steps : Covers(steps, c, b) => Covers(steps, c, pc)
  BY DEF CarefulScript, Careful, AsksFirst, AsksBefore
<1>2. ~LeftOut(steps[j])
  BY <1>1 DEF NoneLeftOut
<1>3. Effected(steps[b]) \/ LeftOutByCheck(steps, b)
  BY SettledIsSkipped DEF AllIsDoneOrLeftOut
<1>4. CASE Effected(steps[b])
  <2>1. CASE steps[j].do = "unless saved"
    <3>1. steps[b].do \in {"deploy", "save"} /\ steps[b].of = steps[j].of
      BY <1>1, <2>1 DEF Establishes
    <3>2. steps[j].of \in release.saved \union saved
      BY <1>4, <3>1 DEF Effected, FoundIn
    <3> QED
      BY <1>2, <2>1, <3>2 DEF LeftOut, IsSaved
  <2>2. CASE steps[j].do = "unless holds"
    <3>1. /\ steps[b].do \in Effects \ {"save", "deploy"}
          /\ steps[b].of = steps[j].of /\ steps[b].fact = steps[j].fact
      BY <1>1, <2>2 DEF Establishes
    <3>2. <<steps[j].of, steps[j].fact>> \in release.chain \union chain
      BY <1>4, <3>1 DEF Effected, FoundIn, Effects
    <3> QED
      BY <1>2, <2>2, <3>2 DEF LeftOut, Holds
  <2> QED
    BY <1>1, <2>1, <2>2 DEF Unless
<1>5. CASE LeftOutByCheck(steps, b)
  BY <1>1, <1>5, NotCovered
<1> QED
  BY <1>3, <1>4, <1>5

\* What it looks up is there.
LEMMA NowIsFound ==
  ASSUME SkipInv, NoneLeftOut, finished, at \in Executed, CarefulScript(at),
         pc \in DOMAIN Plan[at].steps, Plan[at].steps[pc].do = "get"
  PROVE  \A name \in Plan[at].steps[pc].names : IsSaved(name)
<1>1. CASE release.again
  BY <1>1 DEF CarefulScript, Careful, FindsAll, IsSaved
<1>2. CASE ~release.again
  <2>1. Settled(at, pc)
    BY <1>2 DEF SkipInv, FinishedIsSettled
  <2>2. ~LeftOutByCheck(Plan[at].steps, pc)
    BY NotCovered
  <2> QED
    BY <2>1, <2>2 DEF Settled, Met
<1> QED
  BY <1>1, <1>2

\* A step that a later run takes in a careful script changes nothing and
\* does not throw.
LEMMA CarefulIsQuiet ==
  ASSUME SkipInv, NoneLeftOut, finished, status = "running", at \in Executed, CarefulScript(at), Next
  PROVE  UNCHANGED stores /\ status' # "threw"
<1>0. TypeInv
  BY DEF SkipInv
<1>1. CASE Check
  BY <1>1 DEF Check, Advance
<1>2. CASE Reuse
  BY <1>2 DEF Reuse, Advance
<1>3. CASE DeployNew
  <2>1. pc \in DOMAIN Plan[at].steps /\ Now = Plan[at].steps[pc] /\ Now.do = "deploy"
    BY <1>0, <1>3, StandsInScript DEF DeployNew
  <2>2. Effected(Now)
    BY <2>1, NowIsEffected
  <2> QED
    BY <1>3, <2>1, <2>2 DEF DeployNew, Effected, FoundIn, IsSaved
<1>4. CASE SaveName
  <2>1. pc \in DOMAIN Plan[at].steps /\ Now = Plan[at].steps[pc] /\ Now.do = "save"
    BY <1>0, <1>4, StandsInScript DEF SaveName
  <2>2. Effected(Now)
    BY <2>1, NowIsEffected
  <2>3. IsSaved(Now.of)
    BY <2>1, <2>2 DEF Effected, FoundIn, IsSaved
  <2> QED
    BY <1>4, <2>3 DEF SaveName, Advance, stores
<1>5. CASE Transact
  <2>1. pc \in DOMAIN Plan[at].steps /\ Now = Plan[at].steps[pc] /\ Now.do \in Transactions
    BY <1>0, <1>5, StandsInScript DEF Transact, Transactions
  <2>2. Now.do = "set"
    BY <2>1, NothingToAct DEF Transactions
  <2>3. Effected(Now)
    BY <2>1, NowIsEffected
  <2>4. Holds(Now.of, Now.fact)
    BY <2>2, <2>3 DEF Effected, FoundIn, Holds
  <2> QED
    BY <1>5, <2>2, <2>4 DEF Transact, Advance, stores
<1>6. CASE Spend
  <2>1. pc \in DOMAIN Plan[at].steps /\ Now = Plan[at].steps[pc] /\ Now.do = "spend"
    BY <1>0, <1>6, StandsInScript DEF Spend
  <2> QED
    BY <2>1 DEF CarefulScript, Careful, IsPlain, Effects, Unless
<1>7. CASE Branch \/ NextScript
  BY <1>7 DEF Branch, NextScript
<1>8. CASE Fail
  <2>1. ASSUME At({"get", "expect nonce", "throw"}), ~Fulfilled PROVE FALSE
    <3>1. /\ pc \in DOMAIN Plan[at].steps /\ Now = Plan[at].steps[pc]
          /\ Now.do \in {"get", "expect nonce", "throw"}
      BY <1>0, <2>1, StandsInScript
    <3>2. Now.do = "get"
      BY <3>1 DEF CarefulScript, Careful, IsPlain, Effects, Unless
    <3> QED
      BY <2>1, <3>1, <3>2, NowIsFound DEF Fulfilled
  <2>2. ASSUME At({"once", "owner"}) PROVE FALSE
    <3>1. /\ pc \in DOMAIN Plan[at].steps /\ Now = Plan[at].steps[pc] /\ Now.do \in {"once", "owner"}
      BY <1>0, <2>2, StandsInScript
    <3> QED
      BY <3>1, NothingToAct DEF Transactions
  <2> QED
    BY <1>8, <2>1, <2>2 DEF Fail
<1>9. CASE Finish \/ Crash \/ Rerun \/ Stays
  BY <1>9 DEF Finish, Crash, Rerun, Stays, besides, stores
<1> QED
  BY <1>1, <1>2, <1>3, <1>4, <1>5, <1>6, <1>7, <1>8, <1>9, WhatHappens DEF Run

LEMMA InsideNothingIsLeftOutNext ==
  ASSUME SkipInv, InsideNothingIsLeftOut, [Next]_vars
  PROVE  InsideNothingIsLeftOut'
<1>0. TypeInv /\ StoresGrow
  BY NextGrows DEF SkipInv
<1>1. release' = release /\ Plan' = Plan /\ Executed' = Executed
  BY <1>0 DEF StoresGrow, Plan, Executed
<1> SUFFICES ASSUME finished', status' = "running", NEW i \in Executed, i = at', CarefulScript(i),
                    NEW p, p = pc', NEW steps, steps = Plan[i].steps,
                    NEW j \in DOMAIN steps, steps[j].do \in Unless, Covers(steps, j, p)
             PROVE  ~LeftOut(steps[j])'
  <2>1. SUFFICES ASSUME finished', status' = "running", NEW i \in Executed, i = at', CarefulScript(i),
                        NEW j \in DOMAIN Plan[i].steps, Plan[i].steps[j].do \in Unless,
                        Covers(Plan[i].steps, j, pc'), LeftOut(Plan[i].steps[j])'
                 PROVE  FALSE
    BY <1>1 DEF InsideNothingIsLeftOut, NoneLeftOut, CarefulScript, Covers
  <2>2. PICK steps : steps = Plan[i].steps
    OBVIOUS
  <2>3. LeftOut(steps[j])'
    BY <1>1, <2>1, <2>2
  <2>4. PICK p : p = pc'
    OBVIOUS
  <2> QED
    BY <2>1, <2>2, <2>3, <2>4
<1>2. /\ status = "running" /\ i = at
      /\ Covers(steps, j, pc) \/ (j = pc /\ ~LeftOut(steps[j]) /\ Branch)
  BY <1>0, CoveredBefore DEF CarefulScript, Careful
<1>3. finished
  <2>1. finished' = finished \/ Finish
    BY WhatHappens DEF Run, Check, Reuse, DeployNew, SaveName, Transact, Spend, Branch, Fail, NextScript,
           Crash, Rerun, Advance, Stays, besides
  <2>2. ~Finish
    BY DEF Finish
  <2> QED
    BY <2>1, <2>2
<1>4. NoneLeftOut
  BY <1>2, <1>3 DEF InsideNothingIsLeftOut
<1>5. ~LeftOut(steps[j])
  BY <1>2, <1>4 DEF NoneLeftOut
<1>6. UNCHANGED stores
  <2>1. CASE Next
    BY <1>2, <1>3, <1>4, <2>1, CarefulIsQuiet
  <2>2. CASE UNCHANGED vars
    BY <2>2 DEF vars, stores
  <2> QED
    BY <2>1, <2>2
<1>7. CASE steps[j].do = "unless saved"
  BY <1>1, <1>5, <1>6, <1>7 DEF LeftOut, IsSaved, stores
<1>8. CASE steps[j].do = "unless holds"
  BY <1>1, <1>5, <1>6, <1>8 DEF LeftOut, Holds, stores
<1> QED
  BY <1>7, <1>8 DEF Unless

LEMMA FreshEndsNext ==
  ASSUME TypeInv, FreshEnds, [Next]_vars
  PROVE  FreshEnds'
<1>1. release' = release
  BY NextGrows DEF StoresGrow
<1> SUFFICES ASSUME finished', ~release.live, ~release.again
             PROVE  status' = "done" /\ at' > Len(Plan')
  BY <1>1 DEF FreshEnds
<1>2. Plan' = Plan
  BY <1>1 DEF Plan
<1>3. CASE Finish
  BY <1>2, <1>3 DEF Finish
<1>4. CASE finished
  <2>1. status = "done" /\ at > Len(Plan)
    BY <1>4 DEF FreshEnds
  <2>2. Stays
    BY <2>1, WhatHappens DEF Run, Check, Reuse, DeployNew, SaveName, Transact, Spend, Branch, Fail, NextScript,
                Finish, Crash, Rerun, At
  <2> QED
    BY <1>2, <2>1, <2>2 DEF Stays, besides
<1>5. CASE ~Finish /\ ~finished
  BY <1>5, WhatHappens DEF Run, Check, Reuse, DeployNew, SaveName, Transact, Spend, Branch, Fail, NextScript,
              Crash, Rerun, Advance, Stays, besides
<1> QED
  BY <1>3, <1>4, <1>5

LEMMA QuietInvInit == Init => QuietInv
<1> SUFFICES ASSUME Init PROVE QuietInv
  OBVIOUS
<1>1. SkipInv /\ TypeInv
  BY SkipInvInit DEF SkipInv
<1>2. InsideNothingIsLeftOut
  <2> SUFFICES ASSUME at \in Executed, NEW j \in DOMAIN Plan[at].steps, j < pc
               PROVE  FALSE
    BY DEF InsideNothingIsLeftOut, NoneLeftOut, Covers
  <2>1. j \in Nat \ {0} /\ pc = 1
    BY <1>1, ScriptTyped DEF Init
  <2> QED
    BY <2>1
<1>3. FreshEnds
  BY DEF FreshEnds, Init
<1> QED
  BY <1>1, <1>2, <1>3 DEF QuietInv

LEMMA QuietInvNext == QuietInv /\ [Next]_vars => QuietInv'
<1> SUFFICES ASSUME QuietInv, [Next]_vars PROVE QuietInv'
  OBVIOUS
<1>1. SkipInv /\ TypeInv /\ InsideNothingIsLeftOut /\ FreshEnds
  BY DEF QuietInv, SkipInv
<1>2. SkipInv'
  BY <1>1, SkipInvNext
<1>3. InsideNothingIsLeftOut' /\ FreshEnds'
  BY <1>1, InsideNothingIsLeftOutNext, FreshEndsNext
<1> QED
  BY <1>2, <1>3 DEF QuietInv

\* Outside of the scripts a run changes nothing but its own place.
LEMMA BetweenScriptsIsQuiet ==
  ASSUME TypeInv, Next, status # "running" \/ at \notin Executed
  PROVE  UNCHANGED stores /\ (status' = "threw" => status = "threw")
<1>1. ~(Check \/ Reuse \/ DeployNew \/ SaveName \/ Transact \/ Spend)
  BY StandsAndAdvances
<1>2. \A kinds : ~At(kinds)
  BY StandsInScript
<1>3. ~Branch /\ ~Fail
  BY <1>2 DEF Branch, Fail
<1>4. CASE NextScript
  BY <1>4 DEF NextScript
<1>5. CASE Finish \/ Crash \/ Rerun \/ Stays
  BY <1>5 DEF Finish, Crash, Rerun, Stays, besides, stores
<1> QED
  BY <1>1, <1>3, <1>4, <1>5, WhatHappens DEF Run

\* Once the plan was gone through, running it again throws nowhere and
\* changes nothing, but for the listed scripts: whatever was cut off before,
\* the next release finds all that it builds on, and builds it once.
THEOREM LaterRunsStayQuiet == Spec => LaterRunsAreQuiet
<1> DEFINE Quiet == finished => \/ UNCHANGED stores /\ (status' = "threw" => status = "threw")
                                \/ at \in DOMAIN Plan /\ Fragile(at)
<1>1. Init => QuietInv
  BY QuietInvInit
<1>2. QuietInv /\ [Next]_vars => QuietInv'
  BY QuietInvNext
<1>3. QuietInv /\ [Next]_vars => [Quiet]_vars
  <2> SUFFICES ASSUME QuietInv, Next, ~UNCHANGED vars, finished, ~(at \in DOMAIN Plan /\ Fragile(at))
               PROVE  UNCHANGED stores /\ (status' = "threw" => status = "threw")
    OBVIOUS
  <2>0. SkipInv /\ TypeInv /\ InsideNothingIsLeftOut /\ FreshEnds
    BY DEF QuietInv, SkipInv
  <2>1. CASE status # "running" \/ at \notin Executed
    BY <2>0, <2>1, BetweenScriptsIsQuiet
  <2>2. CASE status = "running" /\ at \in Executed
    <3>1. release.live \/ release.again
      BY <2>0, <2>2 DEF FreshEnds
    <3>2. CarefulScript(at)
      BY <2>0, <2>2, <3>1, CarefulUnlessFragile DEF Executed
    <3>3. NoneLeftOut
      BY <2>0, <2>2, <3>2 DEF InsideNothingIsLeftOut
    <3> QED
      BY <2>0, <2>2, <3>2, <3>3, CarefulIsQuiet
  <2> QED
    BY <2>1, <2>2
<1> QED
  BY <1>1, <1>2, <1>3, PTL DEF Spec, LaterRunsAreQuiet

(***************************************************************************)
(* Nonces.  The account sends a transaction only where the run stands at a *)
(* step that sends, and a name is saved only where the run stands at a     *)
(* step that saves it.                                                     *)
(***************************************************************************)
LEMMA WhatIsSent ==
  ASSUME TypeInv, [Next]_vars, sent' # sent, NEW step, step = Plan[at].steps[pc]
  PROVE  /\ status = "running" /\ at \in Executed /\ pc \in DOMAIN Plan[at].steps
         /\ Sends(step) /\ sent' = Append(sent, step.of)
         /\ step.do = "spend" \/ (step.do = "deploy" /\ DeployNew /\ ~IsSaved(step.of))
<1>1. CASE DeployNew
  <2>1. status = "running" /\ at \in Executed /\ pc \in DOMAIN Plan[at].steps /\ Now = step
    BY <1>1, StandsAndAdvances
  <2>2. step.do = "deploy" /\ ~IsSaved(step.of)
    BY <1>1, <2>1 DEF DeployNew, At
  <2>3. step.by = "crossChainDeployer" /\ sent' = Append(sent, step.of)
    BY <1>1, <2>1 DEF DeployNew
  <2> QED
    BY <1>1, <2>1, <2>2, <2>3 DEF Sends
<1>2. CASE Spend
  <2>1. status = "running" /\ at \in Executed /\ pc \in DOMAIN Plan[at].steps /\ Now = step
    BY <1>2, StandsAndAdvances
  <2> QED
    BY <1>2, <2>1 DEF Spend, At, Sends
<1>3. ASSUME ~DeployNew, ~Spend PROVE sent' = sent
  BY <1>3, WhatHappens DEF Run, Check, Reuse, SaveName, Transact, Branch, Fail, NextScript, Finish, Crash, Rerun,
              stores, Stays, besides
<1> QED
  BY <1>1, <1>2, <1>3

LEMMA WhatIsSaved ==
  ASSUME TypeInv, [Next]_vars, NEW name, ~IsSaved(name), IsSaved(name)', NEW step, step = Plan[at].steps[pc]
  PROVE  /\ status = "running" /\ at \in Executed /\ pc \in DOMAIN Plan[at].steps
         /\ step.do \in {"deploy", "save"} /\ step.of = name
         /\ step.do = "deploy" => DeployNew
<1>0. release' = release
  BY NextGrows DEF StoresGrow
<1>1. CASE DeployNew
  <2>1. status = "running" /\ at \in Executed /\ pc \in DOMAIN Plan[at].steps /\ Now = step
    BY <1>1, StandsAndAdvances
  <2>2. step.do = "deploy" /\ saved' = saved \union {step.of}
    BY <1>1, <2>1 DEF DeployNew, At
  <2> QED
    BY <1>0, <1>1, <2>1, <2>2 DEF IsSaved
<1>2. CASE SaveName
  <2>1. status = "running" /\ at \in Executed /\ pc \in DOMAIN Plan[at].steps /\ Now = step
    BY <1>2, StandsAndAdvances
  <2>2. step.do = "save" /\ saved' \subseteq saved \union {step.of}
    BY <1>2, <2>1 DEF SaveName, At
  <2> QED
    BY <1>0, <2>1, <2>2 DEF IsSaved
<1>3. ASSUME ~DeployNew, ~SaveName PROVE saved' = saved
  BY <1>3, WhatHappens DEF Run, Check, Reuse, Spend, Transact, Branch, Fail, NextScript, Finish, Crash, Rerun,
              stores, Stays, besides
<1> QED
  BY <1>0, <1>1, <1>2, <1>3 DEF IsSaved

\* What DeployNew of a step of crossChainDeployer does.
LEMMA DeploysAtIt ==
  ASSUME TypeInv, DeployNew, NEW step, step = Plan[at].steps[pc]
  PROVE  /\ step.do = "deploy" /\ ~IsSaved(step.of) /\ saved' = saved \union {step.of}
         /\ Sends(step) => sent' = Append(sent, step.of) /\ Len(sent') = Len(sent) + 1
<1>1. Now = step /\ step \in Steps
  BY StandsAndAdvances
<1>2. step.do = "deploy" /\ ~IsSaved(step.of) /\ saved' = saved \union {step.of}
  BY <1>1 DEF DeployNew, At
<1>3. Sends(step) => sent' = Append(sent, step.of)
  BY <1>1, <1>2 DEF DeployNew, Sends
<1>4. sent \in Seq(STRING) /\ step.of \in STRING
  BY <1>1 DEF TypeInv, DeploymentTypeOK, Steps
<1>5. Len(Append(sent, step.of)) = Len(sent) + 1
  BY <1>4
<1> QED
  BY <1>2, <1>3, <1>5

LEMMA NonceOfTyped == \A n \in DOMAIN NonceOf : NonceOf[n] \in Nat
  BY DEF NonceOf

(***************************************************************************)
(* Scripts that ask for the nonce: a numbered contract that is saved was   *)
(* sent, and behind a check the next nonce is the one that was asked for.  *)
(***************************************************************************)
NumberedAreSent == \A n \in NumberedNames(release) : IsSaved(n) => NonceOf[n] < Len(sent)
KnownNonces ==
  status = "running" /\ at \in Executed =>
    \A m \in DOMAIN Plan[at].steps :
      Knows(Plan[at].steps[m]) /\ Straight(Plan[at].steps, m, pc) =>
        Len(sent) = NextNonce(Plan[at].steps[m])

\* A numbered step is reached when the nonce is its own: it deploys.
LEMMA AskedIsInTurn ==
  ASSUME TypeInv, AsksNonces(release), NumberedAreSent, KnownNonces,
         status = "running", at \in Executed, pc \in DOMAIN Plan[at].steps,
         NEW step, step = Plan[at].steps[pc], step.do \in {"deploy", "save"}, step.of \in NumberedNames(release)
  PROVE  Numbered(step) /\ Len(sent) = NonceOf[step.of] /\ ~IsSaved(step.of)
<1>1. at \in DOMAIN release.plan /\ ~release.plan[at].skip
  BY DEF Executed, Plan
<1>2. Numbered(step) /\ KnownAt(Plan[at].steps, pc, NonceOf[step.of])
  BY <1>1 DEF AsksNonces, Plan
<1>3. Len(sent) = NonceOf[step.of]
  BY <1>2 DEF KnownAt, KnownNonces
<1>4. NonceOf[step.of] \in Nat
  BY NonceOfTyped DEF NumberedNames
<1> QED
  BY <1>2, <1>3, <1>4 DEF NumberedAreSent

LEMMA NumberedAreSentNext ==
  ASSUME TypeInv, AsksNonces(release), NumberedAreSent, KnownNonces, [Next]_vars
  PROVE  NumberedAreSent'
<1>0. release' = release
  BY NextGrows DEF StoresGrow
<1> SUFFICES ASSUME NEW n \in NumberedNames(release), IsSaved(n)'
             PROVE  NonceOf[n] < Len(sent')
  BY <1>0 DEF NumberedAreSent, NumberedNames, Numbered, Sends, NonceOf
<1> DEFINE step == Plan[at].steps[pc]
<1>1. NonceOf[n] \in Nat
  BY NonceOfTyped DEF NumberedNames
<1>2. sent \in Seq(STRING) /\ Len(sent) \in Nat
  BY DEF TypeInv, DeploymentTypeOK
<1>3. CASE IsSaved(n)
  <2>1. NonceOf[n] < Len(sent)
    BY <1>3 DEF NumberedAreSent
  <2>2. Len(sent') \in Nat /\ Len(sent') >= Len(sent)
    <3>1. CASE sent' = sent
      BY <1>2, <3>1
    <3>2. CASE sent' # sent
      <4>1. /\ status = "running" /\ at \in Executed /\ pc \in DOMAIN Plan[at].steps
            /\ sent' = Append(sent, step.of)
        BY <3>2, WhatIsSent
      <4>2. step.of \in STRING
        BY <4>1, ScriptTyped DEF Steps
      <4>3. Len(Append(sent, step.of)) = Len(sent) + 1
        BY <1>2, <4>2
      <4> QED
        BY <1>2, <4>1, <4>3
    <3> QED
      BY <3>1, <3>2
  <2> QED
    BY <1>1, <1>2, <2>1, <2>2
<1>4. CASE ~IsSaved(n)
  <2>1. /\ status = "running" /\ at \in Executed /\ pc \in DOMAIN Plan[at].steps
        /\ step.do \in {"deploy", "save"} /\ step.of = n
        /\ step.do = "deploy" => DeployNew
    BY <1>4, WhatIsSaved
  <2>2. Numbered(step) /\ Len(sent) = NonceOf[n]
    BY <2>1, AskedIsInTurn
  <2>3. DeployNew /\ Sends(step)
    BY <2>1, <2>2 DEF Numbered
  <2>4. Len(sent') = Len(sent) + 1
    BY <2>3, DeploysAtIt
  <2> QED
    BY <1>1, <1>2, <2>2, <2>4
<1> QED
  BY <1>3, <1>4

LEMMA KnownNoncesNext ==
  ASSUME TypeInv, AsksNonces(release), NumberedAreSent, KnownNonces, [Next]_vars
  PROVE  KnownNonces'
<1>0. release' = release /\ Plan' = Plan /\ Executed' = Executed
  BY NextGrows DEF StoresGrow, Plan, Executed
<1> SUFFICES ASSUME status' = "running", NEW i \in Executed, i = at', NEW p, p = pc',
                    NEW m \in DOMAIN Plan[i].steps, Knows(Plan[i].steps[m]), Straight(Plan[i].steps, m, p)
             PROVE  Len(sent') = NextNonce(Plan[i].steps[m])
  BY <1>0 DEF KnownNonces, Knows, Straight, NextNonce, Numbered, Sends, NonceOf
<1>1. Enters(i, p)
  BY RunGoesOn
<1>2. /\ DOMAIN Plan[i].steps \subseteq Nat \ {0}
      /\ \A k \in DOMAIN Plan[i].steps : Plan[i].steps[k].skip \in Nat /\ Plan[i].steps[k] \in Steps
  BY ScriptTyped
<1>3. pc \in Nat /\ m \in Nat /\ m < p /\ sent \in Seq(STRING)
  BY <1>2 DEF TypeInv, DeploymentTypeOK, Straight
<1>4. CASE /\ status = "running" /\ i = at /\ p = pc + 1 /\ pc \in DOMAIN Plan[at].steps
           /\ Plan[at].steps[pc].do \notin Branches
           /\ Check \/ Reuse \/ DeployNew \/ SaveName \/ Transact \/ Spend
  <2> DEFINE step == Plan[i].steps[pc]
  <2>1. CASE m = pc
    <3>1. Now = step
      BY <1>4, StandsAndAdvances
    <3>2. CASE step.do = "expect nonce"
      <4>1. Check
        BY <1>4, <3>1, <3>2 DEF Reuse, DeployNew, SaveName, Transact, Spend, At
      <4>2. Len(sent) = step.nonce /\ sent' = sent
        BY <3>1, <3>2, <4>1 DEF Check, Fulfilled, stores
      <4> QED
        BY <2>1, <3>2, <4>2 DEF NextNonce
    <3>3. CASE Numbered(step)
      <4>1. step.do = "deploy" /\ Sends(step)
        BY <3>3 DEF Numbered
      <4>2. step.of \in NumberedNames(release)
        BY <1>4, <3>3 DEF NumberedNames, Numbered, Plan, Executed
      <4>3. Len(sent) = NonceOf[step.of] /\ ~IsSaved(step.of)
        BY <1>4, <4>1, <4>2, AskedIsInTurn
      <4>4. DeployNew
        BY <1>4, <3>1, <4>1, <4>3 DEF Check, Reuse, SaveName, Transact, Spend, At
      <4>5. Len(sent') = Len(sent) + 1
        BY <1>4, <4>1, <4>4, DeploysAtIt
      <4> QED
        BY <2>1, <4>1, <4>3, <4>5 DEF NextNonce
    <3> QED
      BY <1>4, <2>1, <3>2, <3>3 DEF Knows, Branches, Occasions
  <2>2. CASE m < pc
    <3>1. ~Sends(step)
      BY <1>3, <1>4, <2>2 DEF Straight
    <3>2. sent' = sent
      BY <1>4, <3>1, WhatIsSent
    <3>3. Straight(Plan[i].steps, m, pc)
      <4>1. \A l \in DOMAIN Plan[i].steps : Sends(Plan[i].steps[l]) => l <= m \/ pc <= l
        BY <1>2, <1>3, <1>4 DEF Straight
      <4>2. ASSUME NEW c \in DOMAIN Plan[i].steps, Plan[i].steps[c].do \in Branches
            PROVE  /\ c <= m \/ pc <= c
                   /\ c + 1 + Plan[i].steps[c].skip <= m \/ pc < c + 1 + Plan[i].steps[c].skip
        <5>1. /\ c <= m \/ pc + 1 <= c
              /\ c + 1 + Plan[i].steps[c].skip <= m \/ pc + 1 < c + 1 + Plan[i].steps[c].skip
          BY <1>4, <4>2 DEF Straight
        <5>2. c \in Nat /\ Plan[i].steps[c].skip \in Nat
          BY <1>2
        <5> QED
          BY <1>3, <5>1, <5>2
      <4> QED
        BY <2>2, <4>1, <4>2 DEF Straight
    <3> QED
      BY <1>4, <3>2, <3>3 DEF KnownNonces
  <2> QED
    BY <1>3, <1>4, <2>1, <2>2
\* Behind a check for a nonce, not behind the block that it leaves out.
<1>5. CASE /\ status = "running" /\ i = at /\ pc \in DOMAIN Plan[at].steps
           /\ Plan[at].steps[pc].do \in Branches /\ Branch
           /\ p = IF LeftOut(Plan[at].steps[pc]) THEN pc + 1 + Plan[at].steps[pc].skip ELSE pc + 1
  <2> DEFINE step == Plan[i].steps[pc]
  <2>1. step.skip \in Nat /\ step \in Steps
    BY <1>2, <1>5
  <2>2. /\ pc <= m \/ p <= pc
        /\ pc + 1 + step.skip <= m \/ p < pc + 1 + step.skip
    BY <1>5 DEF Straight
  <2>3. m = pc /\ ~LeftOut(step)
    BY <1>3, <1>5, <2>1, <2>2
  <2>4. step.do = "if nonce"
    BY <1>5, <2>3 DEF Knows, Numbered, Branches, Occasions
  <2>5. Len(sent) = step.nonce
    BY <2>3, <2>4 DEF LeftOut
  <2>6. sent' = sent
    BY <1>5 DEF Branch, stores
  <2> QED
    BY <2>3, <2>4, <2>5, <2>6 DEF NextNonce
<1>6. CASE p = 1
  BY <1>2, <1>3, <1>6
<1>7. CASE status = "running" /\ i = at /\ p = pc /\ Stays
  <2>1. sent' = sent
    BY <1>7 DEF Stays, besides
  <2> QED
    BY <1>7, <2>1 DEF KnownNonces
<1> QED
  BY <1>1, <1>4, <1>5, <1>6, <1>7 DEF Enters

(***************************************************************************)
(* A script that deploys in order: what it sent are the contracts that are *)
(* saved, the first ones of those that it deploys.                         *)
(***************************************************************************)
Senders(i)      == {k \in DOMAIN Plan[i].steps : Sends(Plan[i].steps[k])}
SavedSenders(i) == {k \in Senders(i) : IsSaved(Plan[i].steps[k].of)}
SentInOrder(i) ==
  /\ Len(sent) = Len(release.sent) + Cardinality(SavedSenders(i))
  /\ \A k \in SavedSenders(i) : \A l \in Senders(i) : l < k => l \in SavedSenders(i)

LEMMA SavedSendersFinite ==
  ASSUME TypeInv, NEW i \in Executed
  PROVE  IsFiniteSet(SavedSenders(i)) /\ Cardinality(SavedSenders(i)) \in Nat
<1>0. Plan \in Seq(Scripts)
  BY ReleasesAssumption DEF TypeInv, Plan, ReleaseRecords
<1>1. Plan[i] \in Scripts
  BY <1>0 DEF Executed
<1>2. Plan[i].steps \in Seq(Steps)
  BY <1>1 DEF Scripts
<1>3. PICK n \in Nat : DOMAIN Plan[i].steps = 1..n
  BY <1>2
<1>4. IsFiniteSet(1..n)
  BY FS_Interval
<1>5. SavedSenders(i) \in SUBSET (1..n)
  BY <1>3 DEF SavedSenders, Senders
<1>6. IsFiniteSet(SavedSenders(i))
  BY <1>4, <1>5, FS_Subset
<1> QED
  BY <1>6, FS_CardinalityType

\* The next contract that the script deploys has the place of its nonce.
LEMMA OrderedIsInTurn ==
  ASSUME TypeInv, Entered, NEW i \in DOMAIN Plan, DeploysInOrder(release, i), SentInOrder(i),
         status = "running", at \in Executed, pc \in DOMAIN Plan[at].steps,
         NEW step, step = Plan[at].steps[pc], Sends(step), ~IsSaved(step.of)
  PROVE  /\ i = at /\ pc \in Senders(i) \ SavedSenders(i)
         /\ SavedSenders(i) = {l \in DOMAIN Plan[i].steps : l < pc /\ Sends(Plan[i].steps[l])}
         /\ Len(sent) = Len(release.sent) + Place(Plan[i].steps, pc)
<1>1. i = at
  BY DEF DeploysInOrder, Plan, Executed
<1>2. pc \in Senders(i) \ SavedSenders(i)
  BY <1>1 DEF Senders, SavedSenders
<1>3. DOMAIN Plan[i].steps \subseteq Nat \ {0}
  BY <1>1, ScriptTyped
<1>4. ASSUME NEW l \in SavedSenders(i) PROVE l < pc
  <2>1. l \in DOMAIN Plan[i].steps /\ l # pc
    BY <1>2 DEF SavedSenders, Senders
  <2>2. ~(pc < l)
    BY <1>2 DEF SentInOrder
  <2> QED
    BY <1>1, <1>3, <2>1, <2>2
<1>5. ASSUME NEW l \in Senders(i), l < pc PROVE l \in SavedSenders(i)
  <2>1. /\ l \in DOMAIN Plan[i].steps /\ Plan[i].steps[l].do = "deploy"
        /\ ~\E c \in DOMAIN Plan[i].steps : Covers(Plan[i].steps, c, l)
    BY DEF Senders, DeploysInOrder, Plan
  <2>2. Effected(Plan[i].steps[l])
    BY <1>1, <1>5, <2>1 DEF Entered, EnteredAt
  <2> QED
    BY <2>1, <2>2 DEF Effected, FoundIn, SavedSenders, IsSaved
<1>6. SavedSenders(i) = {l \in DOMAIN Plan[i].steps : l < pc /\ Sends(Plan[i].steps[l])}
  BY <1>4, <1>5 DEF SavedSenders, Senders
<1> QED
  BY <1>1, <1>2, <1>6 DEF SentInOrder, Place

LEMMA SentInOrderNext ==
  ASSUME TypeInv, Entered, [Next]_vars, NEW i \in DOMAIN Plan, DeploysInOrder(release, i), SentInOrder(i)
  PROVE  SentInOrder(i)'
<1>0. release' = release /\ Plan' = Plan /\ \A name : IsSaved(name) => IsSaved(name)'
  BY NextGrows DEF StoresGrow, Plan, IsSaved
<1>1. Senders(i)' = Senders(i) /\ i \in Executed
  BY <1>0 DEF Senders, Sends, DeploysInOrder, Executed, Plan
<1> DEFINE step == Plan[at].steps[pc]
<1>2. CASE SavedSenders(i)' = SavedSenders(i) /\ sent' = sent
  BY <1>0, <1>1, <1>2 DEF SentInOrder
<1>3. CASE SavedSenders(i)' # SavedSenders(i) \/ sent' # sent
  <2>1. status = "running" /\ at \in Executed /\ pc \in DOMAIN Plan[at].steps /\ Sends(step) /\ DeployNew
    <3>1. CASE sent' # sent
      <4>1. /\ status = "running" /\ at \in Executed /\ pc \in DOMAIN Plan[at].steps
            /\ Sends(step) /\ (step.do = "spend" \/ DeployNew)
        BY <3>1, WhatIsSent
      <4>2. at = i /\ step.do = "deploy"
        BY <4>1 DEF DeploysInOrder, Plan, Executed
      <4> QED
        BY <4>1, <4>2
    <3>2. CASE SavedSenders(i)' # SavedSenders(i)
      <4>1. ASSUME \A k \in Senders(i) : \A name : name = Plan[i].steps[k].of /\ IsSaved(name)' => IsSaved(name)
            PROVE  SavedSenders(i)' = SavedSenders(i)
        <5>1. ASSUME NEW k \in Senders(i)
              PROVE  IsSaved(Plan[i].steps[k].of)' <=> IsSaved(Plan[i].steps[k].of)
          <6>1. PICK name : name = Plan[i].steps[k].of
            OBVIOUS
          <6>2. IsSaved(name)' <=> IsSaved(name)
            BY <1>0, <4>1, <6>1
          <6> QED
            BY <1>0, <6>1, <6>2 DEF IsSaved
        <5> QED
          BY <1>0, <1>1, <5>1 DEF SavedSenders
      <4>2. PICK k, name : k \in Senders(i) /\ name = Plan[i].steps[k].of /\ ~IsSaved(name) /\ IsSaved(name)'
        BY <3>2, <4>1
      <4>3. ~IsSaved(name) /\ IsSaved(name)'
        BY <4>2
      <4>4. /\ status = "running" /\ at \in Executed /\ pc \in DOMAIN Plan[at].steps
            /\ step.do \in {"deploy", "save"} /\ step.of = name
            /\ step.do = "deploy" => DeployNew
        BY <4>3, WhatIsSaved
      <4>5. at = i /\ pc = k
        BY <4>2, <4>4 DEF DeploysInOrder, Plan, Executed, Senders
      <4>6. Sends(step)
        BY <4>2, <4>5 DEF Senders
      <4>7. step.do = "deploy"
        BY <4>4, <4>5, <4>6 DEF DeploysInOrder, Plan
      <4> QED
        BY <4>4, <4>6, <4>7
    <3> QED
      BY <1>3, <3>1, <3>2
  <2>2. /\ ~IsSaved(step.of) /\ saved' = saved \union {step.of} /\ Len(sent') = Len(sent) + 1
    BY <2>1, DeploysAtIt
  <2>3. /\ i = at /\ pc \in Senders(i) \ SavedSenders(i)
        /\ SavedSenders(i) = {l \in DOMAIN Plan[i].steps : l < pc /\ Sends(Plan[i].steps[l])}
    BY <2>1, <2>2, OrderedIsInTurn
  <2>4. SavedSenders(i)' = SavedSenders(i) \union {pc}
    <3>1. \A k \in Senders(i) : Plan[i].steps[k].of = step.of => k = pc
      BY <2>1, <2>3 DEF Senders, DeploysInOrder, Plan, Executed
    <3>2. \A name : IsSaved(name)' <=> IsSaved(name) \/ name = step.of
      BY <1>0, <2>2 DEF IsSaved
    <3>3. \A k \in Senders(i) : IsSaved(Plan[i].steps[k].of)' <=> IsSaved(Plan[i].steps[k].of) \/ k = pc
      BY <1>0, <2>3, <3>1, <3>2
    <3> QED
      BY <1>0, <1>1, <2>3, <3>3 DEF SavedSenders
  <2>5. /\ Cardinality(SavedSenders(i) \union {pc}) = Cardinality(SavedSenders(i)) + 1
        /\ Cardinality(SavedSenders(i)) \in Nat
    <3>1. IsFiniteSet(SavedSenders(i)) /\ Cardinality(SavedSenders(i)) \in Nat
      BY <1>1, SavedSendersFinite
    <3> QED
      BY <2>3, <3>1, FS_AddElement
  <2>6. Len(release.sent) \in Nat
    BY ReleasesAssumption DEF TypeInv, ReleaseRecords
  <2>7. Len(sent') = Len(release'.sent) + Cardinality(SavedSenders(i)')
    BY <1>0, <2>2, <2>4, <2>5, <2>6 DEF SentInOrder
  <2>8. ASSUME NEW k \in SavedSenders(i)', NEW l \in Senders(i), l < k
        PROVE  l \in SavedSenders(i)'
    <3>1. CASE k = pc
      BY <2>3, <2>4, <2>8, <3>1 DEF Senders
    <3>2. CASE k \in SavedSenders(i)
      BY <2>4, <2>8, <3>2 DEF SentInOrder
    <3> QED
      BY <2>4, <3>1, <3>2
  <2> QED
    BY <1>1, <2>7, <2>8 DEF SentInOrder
<1> QED
  BY <1>2, <1>3

(***************************************************************************)
(* Either way a numbered contract is made in its turn.                     *)
(***************************************************************************)
NonceInv ==
  /\ TypeInv /\ Entered /\ SameNonce
  /\ AsksNonces(release) => NumberedAreSent /\ KnownNonces
  /\ \A i \in DOMAIN Plan : DeploysInOrder(release, i) => SentInOrder(i)

LEMMA NonceInvInit == Init => NonceInv
<1> SUFFICES ASSUME Init PROVE NonceInv
  OBVIOUS
<1>1. TypeInv /\ release \in Releases /\ sent = release.sent /\ saved = {} /\ pc = 1
  BY TypeInvInit DEF Init
<1>2. Entered
  BY LossInvInit DEF LossInv
<1>3. SameNonce
  BY <1>1, NoncesAssumption DEF SameNonce
<1>4. AsksNonces(release) => NumberedAreSent
  BY <1>1 DEF AsksNonces, NumberedAreSent, IsSaved
<1>5. KnownNonces
  <2> SUFFICES ASSUME at \in Executed, NEW m \in DOMAIN Plan[at].steps, m < 1
               PROVE  FALSE
    BY <1>1 DEF KnownNonces, Straight
  <2>1. m \in Nat \ {0}
    BY <1>1, ScriptTyped
  <2> QED
    BY <2>1
<1>6. ASSUME NEW i \in DOMAIN Plan, DeploysInOrder(release, i)
      PROVE  SentInOrder(i)
  <2>1. SavedSenders(i) = {}
    BY <1>1, <1>6 DEF SavedSenders, Senders, DeploysInOrder, Plan, IsSaved
  <2>2. Cardinality(SavedSenders(i)) = 0
    BY <2>1, FS_EmptySet
  <2>3. Len(release.sent) \in Nat
    BY <1>1, ReleasesAssumption DEF ReleaseRecords
  <2> QED
    BY <1>1, <2>1, <2>2, <2>3 DEF SentInOrder
<1> QED
  BY <1>1, <1>2, <1>3, <1>4, <1>5, <1>6 DEF NonceInv

\* What is sent of the numbered contracts is sent when the nonce is theirs.
LEMMA NumberedInTurn ==
  ASSUME NonceInv, [Next]_vars, sent' # sent, NEW step, step = Plan[at].steps[pc],
         step.of \in DOMAIN NonceOf
  PROVE  Len(sent) = NonceOf[step.of]
<1>1. /\ TypeInv /\ Entered
      /\ AsksNonces(release) => NumberedAreSent /\ KnownNonces
      /\ \A i \in DOMAIN Plan : DeploysInOrder(release, i) => SentInOrder(i)
  BY DEF NonceInv
<1>2. /\ status = "running" /\ at \in Executed /\ pc \in DOMAIN Plan[at].steps /\ Sends(step)
      /\ step.do = "spend" \/ (step.do = "deploy" /\ DeployNew /\ ~IsSaved(step.of))
  BY <1>1, WhatIsSent
<1>3. release \in Releases /\ at \in DOMAIN Plan /\ ~Plan[at].skip
  BY <1>1, <1>2 DEF TypeInv, Executed
<1>4. step.do = "deploy" /\ ~IsSaved(step.of)
  BY <1>2, <1>3, NoncesAssumption DEF Plan
<1>5. CASE AsksNonces(release)
  <2>1. step.of \in NumberedNames(release)
    BY <1>2, <1>3, <1>4 DEF NumberedNames, Numbered, Plan
  <2> QED
    BY <1>1, <1>2, <1>4, <1>5, <2>1, AskedIsInTurn
<1>6. CASE \E i \in DOMAIN Plan : DeploysInOrder(release, i)
  <2>1. PICK i \in DOMAIN Plan : DeploysInOrder(release, i)
    BY <1>6
  <2>2. i = at /\ Len(sent) = Len(release.sent) + Place(Plan[i].steps, pc)
    BY <1>1, <1>2, <1>4, <2>1, OrderedIsInTurn
  <2>3. NonceOf[step.of] = Len(release.sent) + Place(Plan[i].steps, pc)
    BY <1>2, <2>1, <2>2 DEF DeploysInOrder, Plan
  <2> QED
    BY <2>2, <2>3
<1> QED
  BY <1>3, <1>5, <1>6, NoncesAssumption DEF Plan

LEMMA SameNonceNext ==
  ASSUME NonceInv, [Next]_vars
  PROVE  SameNonce'
<1>1. TypeInv /\ SameNonce
  BY DEF NonceInv
<1>2. CASE sent' = sent
  BY <1>1, <1>2 DEF SameNonce, NonceOf
<1>3. CASE sent' # sent
  <2> DEFINE step == Plan[at].steps[pc]
  <2>1. at \in Executed /\ pc \in DOMAIN Plan[at].steps /\ sent' = Append(sent, step.of)
    BY <1>1, <1>3, WhatIsSent
  <2>2. sent \in Seq(STRING) /\ step.of \in STRING
    BY <1>1, <2>1, ScriptTyped DEF TypeInv, DeploymentTypeOK, Steps
  <2>3. step.of \in DOMAIN NonceOf => Len(sent) = NonceOf[step.of]
    BY <1>3, NumberedInTurn
  <2>4. ASSUME NEW i \in DOMAIN sent', sent'[i] \in DOMAIN NonceOf
        PROVE  i = NonceOf[sent'[i]] + 1
    <3>1. CASE i \in DOMAIN sent
      <4>1. sent'[i] = sent[i]
        BY <2>1, <2>2, <3>1
      <4> QED
        BY <1>1, <2>4, <3>1, <4>1 DEF SameNonce
    <3>2. CASE i = Len(sent) + 1
      <4>1. sent'[i] = step.of
        BY <2>1, <2>2, <3>2
      <4> QED
        BY <2>3, <2>4, <3>2, <4>1
    <3> QED
      BY <2>1, <2>2, <2>4, <3>1, <3>2
  <2> QED
    BY <2>4 DEF SameNonce, NonceOf
<1> QED
  BY <1>2, <1>3

LEMMA NonceInvNext == NonceInv /\ [Next]_vars => NonceInv'
<1> SUFFICES ASSUME NonceInv, [Next]_vars PROVE NonceInv'
  OBVIOUS
<1>1. /\ TypeInv /\ Entered
      /\ AsksNonces(release) => NumberedAreSent /\ KnownNonces
      /\ \A i \in DOMAIN Plan : DeploysInOrder(release, i) => SentInOrder(i)
  BY DEF NonceInv
<1>2. StoresGrow
  BY <1>1, NextGrows
<1>3. release' = release /\ Plan' = Plan
  BY <1>2 DEF StoresGrow, Plan
<1>4. TypeInv' /\ Entered' /\ SameNonce'
  BY <1>1, <1>2, TypeInvNext, EnteredNext, SameNonceNext
<1>5. AsksNonces(release)' = AsksNonces(release)
  BY <1>3
<1>6. AsksNonces(release) => NumberedAreSent' /\ KnownNonces'
  BY <1>1, NumberedAreSentNext, KnownNoncesNext
<1>7. ASSUME NEW i \in DOMAIN Plan, DeploysInOrder(release, i)'
      PROVE  SentInOrder(i)'
  <2>1. DeploysInOrder(release, i)
    BY <1>3, <1>7
  <2> QED
    BY <1>1, <2>1, SentInOrderNext
<1> QED
  BY <1>3, <1>4, <1>5, <1>6, <1>7 DEF NonceInv

\* A contract whose address is to be the same on every chain is made with
\* its own nonce or not at all, whatever else the scripts do and wherever
\* they are cut off: they ask for the nonce, or deploy in order.
THEOREM NoncesAreKept == Spec => []SameNonce
<1>1. Init => NonceInv
  BY NonceInvInit
<1>2. NonceInv /\ [Next]_vars => NonceInv'
  BY NonceInvNext
<1>3. NonceInv => SameNonce
  BY DEF NonceInv
<1> QED
  BY <1>1, <1>2, <1>3, PTL DEF Spec

(***************************************************************************)
(* Scripts that were not cut off, whatever their text.  A step is promised *)
(* when the run is on its way to one with the same effect: no check in     *)
(* between can leave it out.                                               *)
(***************************************************************************)
Ahead(steps, m, p) ==
  /\ p <= m
  /\ \A c \in DOMAIN steps : Covers(steps, c, m) =>
       \/ c < p
       \/ /\ steps[c].do = "unless saved" /\ ~IsSaved(steps[c].of)
          /\ \A b \in DOMAIN steps : p <= b /\ b < c => ~Establishes(steps[c], steps[b])
Promised(step) ==
  /\ status = "running" /\ at \in Executed
  /\ \E m \in DOMAIN Plan[at].steps : SameEffect(Plan[at].steps[m], step) /\ Ahead(Plan[at].steps, m, pc)

LEMMA PromiseKept ==
  ASSUME TypeInv, StoresGrow, [Next]_vars, NEW step, Promised(step), status' = "running"
  PROVE  Effected(step)' \/ (Promised(step)' /\ at' = at)
<1>0. Plan' = Plan /\ Executed' = Executed /\ release' = release
  BY DEF StoresGrow, Plan, Executed
<1>1. status = "running" /\ at \in Executed
  BY DEF Promised
<1>2. PICK steps : steps = Plan[at].steps
  OBVIOUS
<1>3. PICK m \in DOMAIN steps : SameEffect(steps[m], step) /\ Ahead(steps, m, pc)
  BY <1>2 DEF Promised
<1>4. /\ DOMAIN steps \subseteq Nat \ {0} /\ pc \in Nat
      /\ \A k \in DOMAIN steps : steps[k].skip \in Nat
  BY <1>1, <1>2, ScriptTyped DEF TypeInv, DeploymentTypeOK
<1>a. m \in Nat /\ pc <= m
  BY <1>3, <1>4 DEF Ahead
<1>5. ASSUME at' = at, Ahead(steps, m, pc)'
      PROVE  Promised(step)'
  BY <1>0, <1>1, <1>2, <1>3, <1>5 DEF Promised
<1>6. CASE Check \/ Reuse \/ DeployNew \/ SaveName \/ Transact \/ Spend
  <2>1. /\ pc' = pc + 1 /\ at' = at /\ pc \in DOMAIN steps
        /\ Now = steps[pc] /\ Now.do \notin Branches
    BY <1>2, <1>6, StandsAndAdvances DEF Advance
  <2>2. CASE m = pc
    <3>1. PICK s : s = steps[m]
      OBVIOUS
    <3>2. Effected(s)'
      BY <1>6, <2>1, <2>2, <3>1, StepSettled DEF Met
    <3> QED
      BY <1>3, <3>1, <3>2, SameEffectIsEffected
  <2>3. CASE m # pc
    <3>1. pc + 1 <= m
      BY <1>4, <1>a, <2>3
    <3>2. ASSUME NEW c \in DOMAIN steps, Covers(steps, c, m), ~(c < pc + 1)
          PROVE  /\ steps[c].do = "unless saved" /\ ~IsSaved(steps[c].of)'
                 /\ \A b \in DOMAIN steps : pc + 1 <= b /\ b < c => ~Establishes(steps[c], steps[b])
      <4>1. c \in Nat /\ ~(c < pc) /\ pc < c
        BY <1>4, <3>2
      <4>2. /\ steps[c].do = "unless saved" /\ ~IsSaved(steps[c].of)
            /\ \A b \in DOMAIN steps : pc <= b /\ b < c => ~Establishes(steps[c], steps[b])
        BY <1>3, <3>2, <4>1 DEF Ahead
      <4>3. ~Establishes(steps[c], Now)
        <5>1. pc <= pc /\ pc < c
          BY <1>4, <4>1
        <5> QED
          BY <2>1, <4>2, <5>1
      <4>4. PICK check : check = steps[c]
        OBVIOUS
      <4>5. ~LeftOut(check)'
        <5>1. check.do \in Unless /\ ~LeftOut(check)
          BY <4>2, <4>4 DEF LeftOut, Unless
        <5> QED
          BY <4>3, <4>4, <5>1, NewlyAnswered
      <4>6. ~IsSaved(check.of)'
        BY <4>2, <4>4, <4>5 DEF LeftOut
      <4>7. \A b \in DOMAIN steps : pc + 1 <= b => pc <= b
        BY <1>4
      <4> QED
        BY <4>2, <4>4, <4>6, <4>7
    <3> QED
      BY <1>5, <2>1, <3>1, <3>2 DEF Ahead
  <2> QED
    BY <2>2, <2>3
<1>7. CASE Branch
  <2>1. /\ at' = at /\ pc \in DOMAIN steps /\ Now = steps[pc] /\ Now.do \in Branches
        /\ pc' = IF LeftOut(steps[pc]) THEN pc + 1 + steps[pc].skip ELSE pc + 1
    BY <1>2, <1>7, StandsInScript DEF Branch
  <2>2. saved' = saved
    BY <1>7 DEF Branch, stores
  <2>3. m # pc /\ pc < m
    <3>1. steps[m].do \notin Branches
      BY <1>3 DEF SameEffect, Transactions, Branches, Occasions
    <3>2. m # pc
      BY <2>1, <3>1
    <3> QED
      BY <1>4, <1>a, <3>2
  <2>4. Covers(steps, pc, m) => ~LeftOut(steps[pc])
    <3>1. ~(pc < pc)
      BY <1>4
    <3>2. Covers(steps, pc, m) => steps[pc].do = "unless saved" /\ ~IsSaved(steps[pc].of)
      BY <1>3, <2>1, <3>1 DEF Ahead
    <3> QED
      BY <3>2 DEF LeftOut
  <2>5. pc' \in Nat /\ pc <= pc' /\ pc' <= m
    BY <1>4, <1>a, <2>1, <2>3, <2>4 DEF Covers
  <2>6. ASSUME NEW c \in DOMAIN steps, Covers(steps, c, m), ~(c < pc')
        PROVE  /\ steps[c].do = "unless saved" /\ ~IsSaved(steps[c].of)'
               /\ \A b \in DOMAIN steps : pc' <= b /\ b < c => ~Establishes(steps[c], steps[b])
    <3>1. c \in Nat /\ ~(c < pc)
      BY <1>4, <2>5, <2>6
    <3>2. /\ steps[c].do = "unless saved" /\ ~IsSaved(steps[c].of)
          /\ \A b \in DOMAIN steps : pc <= b /\ b < c => ~Establishes(steps[c], steps[b])
      BY <1>3, <2>6, <3>1 DEF Ahead
    <3>3. \A b \in DOMAIN steps : pc' <= b => pc <= b
      BY <1>4, <2>5
    <3>4. ~IsSaved(steps[c].of)'
      BY <1>0, <2>2, <3>2 DEF IsSaved
    <3> QED
      BY <3>2, <3>3, <3>4
  <2> QED
    BY <1>5, <2>1, <2>5, <2>6 DEF Ahead
<1>8. ~NextScript
  <2>1. Plan[at].steps \in Seq(Steps) /\ ~Plan[at].skip
    <3>1. Plan \in Seq(Scripts)
      BY ReleasesAssumption DEF TypeInv, Plan, ReleaseRecords
    <3>2. Plan[at] \in Scripts /\ ~Plan[at].skip
      BY <1>1, <3>1 DEF Executed
    <3> QED
      BY <3>2 DEF Scripts
  <2>2. pc <= Len(Plan[at].steps)
    <3>1. m \in 1..Len(Plan[at].steps)
      BY <1>2, <2>1
    <3> QED
      BY <1>4, <1>a, <2>1, <3>1
  <2> QED
    BY <1>4, <2>1, <2>2 DEF NextScript, This
<1>9. ~Fail /\ ~Finish /\ ~Crash /\ ~Rerun
  BY <1>1 DEF Fail, Finish, Crash, Rerun
<1>10. CASE Stays
  <2>1. at' = at /\ pc' = pc /\ saved' = saved
    BY <1>10 DEF Stays, besides
  <2> QED
    BY <1>0, <1>3, <1>5, <2>1 DEF Ahead, IsSaved
<1> QED
  BY <1>6, <1>7, <1>8, <1>9, <1>10, WhatHappens DEF Run

\* A check that leaves out step k, and will for ever.
ForGood(steps, k) ==
  \E j \in DOMAIN steps :
    /\ Covers(steps, j, k)
    /\ \/ steps[j].do \in Unless /\ ~Closes(steps, j) /\ LeftOut(steps[j])
       \/ steps[j].do = "if saved" /\ ~IsSaved(steps[j].of) /\ SavedByNone(release, steps[j].of)

LEMMA ForGoodStays ==
  ASSUME TypeInv, StoresGrow, [Next]_vars, NEW steps, NEW k, ForGood(steps, k)
  PROVE  ForGood(steps, k)'
<1>0. release' = release
  BY DEF StoresGrow
<1>1. PICK j \in DOMAIN steps :
        /\ Covers(steps, j, k)
        /\ \/ steps[j].do \in Unless /\ ~Closes(steps, j) /\ LeftOut(steps[j])
           \/ steps[j].do = "if saved" /\ ~IsSaved(steps[j].of) /\ SavedByNone(release, steps[j].of)
  BY DEF ForGood
<1>2. CASE steps[j].do \in Unless /\ ~Closes(steps, j) /\ LeftOut(steps[j])
  <2>1. LeftOut(steps[j])'
    BY <1>2, LeftOutGrows DEF Unless
  <2> QED
    BY <1>1, <1>2, <2>1 DEF ForGood
<1>3. CASE steps[j].do = "if saved" /\ ~IsSaved(steps[j].of) /\ SavedByNone(release, steps[j].of)
  <2>1. ~IsSaved(steps[j].of)'
    <3>1. SUFFICES ASSUME IsSaved(steps[j].of)' PROVE FALSE
      OBVIOUS
    <3>2. PICK name : name = steps[j].of
      OBVIOUS
    <3>3. PICK step : step = Plan[at].steps[pc]
      OBVIOUS
    <3>4. /\ at \in Executed /\ pc \in DOMAIN Plan[at].steps
          /\ step.do \in {"deploy", "save"} /\ step.of = name
      BY <1>3, <3>1, <3>2, <3>3, WhatIsSaved
    <3> QED
      BY <1>3, <3>2, <3>3, <3>4 DEF SavedByNone, Executed, Plan
  <2> QED
    BY <1>0, <1>1, <1>3, <2>1 DEF ForGood
<1> QED
  BY <1>1, <1>2, <1>3

LEMMA ForGoodExcuses == ASSUME NEW steps, NEW k, ForGood(steps, k) PROVE Excused(steps, k)
<1>1. PICK j \in DOMAIN steps :
        /\ Covers(steps, j, k)
        /\ \/ steps[j].do \in Unless /\ ~Closes(steps, j) /\ LeftOut(steps[j])
           \/ steps[j].do = "if saved" /\ ~IsSaved(steps[j].of)
  BY DEF ForGood
<1>2. LeftOut(steps[j])
  BY <1>1 DEF LeftOut
<1>3. \A b \in DOMAIN steps : ~(Covers(steps, j, b) /\ Establishes(steps[j], steps[b]))
  BY <1>1 DEF Closes, Establishes, Unless
<1> QED
  BY <1>1, <1>2, <1>3 DEF Excused, Unless, Occasions

(***************************************************************************)
(* Where runs ended, and which scripts a run has reached the end of.       *)
(***************************************************************************)
EndsAreHit ==
  /\ status = "done" => finished
  /\ status \in {"threw", "stopped"} => at \in hit
  /\ ~release.live /\ hit # {} => status = "threw"

LEMMA EndsAreHitNext ==
  ASSUME TypeInv, EndsAreHit, [Next]_vars
  PROVE  EndsAreHit'
<1>0. release' = release
  BY NextGrows DEF StoresGrow
<1>1. CASE Check \/ Reuse \/ DeployNew \/ SaveName \/ Transact \/ Spend
  <2>1. status = "running" /\ UNCHANGED <<status, at, hit, finished>>
    BY <1>1, StandsAndAdvances DEF Advance
  <2> QED
    BY <1>0, <2>1 DEF EndsAreHit
<1>2. CASE Branch
  BY <1>0, <1>2 DEF Branch, At, EndsAreHit
<1>3. CASE Fail
  BY <1>0, <1>3 DEF Fail, EndsAreHit
<1>4. CASE NextScript \/ Finish
  BY <1>0, <1>4 DEF NextScript, Finish, EndsAreHit
<1>5. CASE Crash \/ Rerun
  BY <1>0, <1>5 DEF Crash, Rerun, EndsAreHit
<1>6. CASE Stays
  BY <1>0, <1>6 DEF Stays, besides, EndsAreHit
<1> QED
  BY <1>1, <1>2, <1>3, <1>4, <1>5, <1>6, WhatHappens DEF Run

Reached(i) == finished \/ i < at \/ \E h \in hit : i < h
Waits(i)   == i \in Executed \ (hit \union missed) /\ ~Reached(i) /\ (~release.live => status = "running")
Past(i, j) == status = "running" /\ at = i /\ j < pc

\* A script is reached when the run goes on to the one after it, and that
\* stays so.
LEMMA ReachedNext ==
  ASSUME TypeInv, EndsAreHit, [Next]_vars, NEW i \in Executed
  PROVE  /\ hit \subseteq hit' /\ missed \subseteq missed'
         /\ Reached(i) => Reached(i)'
         /\ ~Reached(i) /\ Reached(i)' => NextScript /\ at = i
<1>0. i \in Nat \ {0} /\ i <= Len(Plan) /\ at \in Nat /\ Len(Plan) \in Nat /\ hit \subseteq Nat
  BY ScriptTyped DEF TypeInv, DeploymentTypeOK
<1>1. CASE Check \/ Reuse \/ DeployNew \/ SaveName \/ Transact \/ Spend
  <2>1. UNCHANGED <<at, hit, missed, finished>>
    BY <1>1, StandsAndAdvances DEF Advance
  <2> QED
    BY <2>1 DEF Reached
<1>2. CASE Branch
  BY <1>2 DEF Branch, Reached
<1>3. CASE Fail \/ Crash
  <2>1. at' = at /\ finished' = finished /\ hit' = hit \union {at} /\ missed' = missed
    BY <1>3 DEF Fail, Crash
  <2> QED
    BY <2>1 DEF Reached
<1>4. CASE NextScript
  <2>1. at' = at + 1 /\ finished' = finished /\ hit' = hit /\ missed' = missed
    BY <1>4 DEF NextScript
  <2> QED
    BY <1>0, <1>4, <2>1 DEF Reached
<1>5. CASE Finish
  <2>1. at > Len(Plan) /\ at' = at /\ finished' = TRUE /\ hit' = hit /\ missed' = missed
    BY <1>5 DEF Finish
  <2>2. i < at
    BY <1>0, <2>1
  <2> QED
    BY <2>1, <2>2 DEF Reached
<1>6. CASE Rerun
  <2>1. at' = 1 /\ finished' = finished /\ hit' = hit /\ missed' = missed /\ status # "running"
    BY <1>6 DEF Rerun
  <2>2. finished \/ at \in hit
    BY <2>1 DEF EndsAreHit, TypeInv, DeploymentTypeOK
  <2> QED
    BY <1>0, <2>1, <2>2 DEF Reached
<1>7. CASE Stays
  BY <1>7 DEF Stays, besides, Reached
<1> QED
  BY <1>1, <1>2, <1>3, <1>4, <1>5, <1>6, <1>7, WhatHappens DEF Run

LEMMA WaitsBefore ==
  ASSUME TypeInv, EndsAreHit, [Next]_vars, NEW i \in Executed, Waits(i)'
  PROVE  Waits(i) /\ \A j \in Nat : Past(i, j) => Past(i, j)'
<1>0. release' = release
  BY NextGrows DEF StoresGrow
<1>1. i \notin hit' /\ i \notin missed' /\ ~Reached(i)'
  BY DEF Waits
<1>2. i \notin hit /\ i \notin missed /\ ~Reached(i)
  BY <1>1, ReachedNext
<1>3. ~release.live => status = "running"
  <2>1. ~release.live => status' = "running"
    BY <1>0 DEF Waits
  <2>2. CASE Check \/ Reuse \/ DeployNew \/ SaveName \/ Transact \/ Spend
    BY <2>2, StandsAndAdvances
  <2>3. CASE Branch \/ Fail
    BY <2>3 DEF Branch, Fail, At
  <2>4. CASE NextScript \/ Finish \/ Crash \/ Rerun
    BY <2>1, <2>4 DEF NextScript, Finish, Crash, Rerun
  <2>5. CASE Stays
    BY <2>1, <2>5 DEF Stays, besides
  <2> QED
    BY <2>2, <2>3, <2>4, <2>5, WhatHappens DEF Run
<1>4. ASSUME NEW j \in Nat, Past(i, j)
      PROVE  Past(i, j)'
  <2>0. pc \in Nat /\ at \in Nat /\ status = "running" /\ at = i /\ j < pc
    BY <1>4 DEF Past, TypeInv, DeploymentTypeOK
  <2>1. CASE Check \/ Reuse \/ DeployNew \/ SaveName \/ Transact \/ Spend
    <3>1. pc' = pc + 1 /\ at' = at /\ status' = status
      BY <2>1, StandsAndAdvances DEF Advance
    <3> QED
      BY <2>0, <3>1 DEF Past
  <2>2. CASE Branch
    <3>1. pc' = (IF LeftOut(Now) THEN pc + 1 + Now.skip ELSE pc + 1) /\ at' = at /\ status' = status
      BY <2>2 DEF Branch
    <3>2. Now.skip \in Nat
      BY <2>2, StandsInScript DEF Branch, Steps
    <3>3. j < pc'
      BY <2>0, <3>1, <3>2
    <3> QED
      BY <2>0, <3>1, <3>3 DEF Past
  <2>3. ~Fail /\ ~Crash
    BY <1>1, <2>0 DEF Fail, Crash
  <2>4. ~NextScript
    <3>1. at' = at + 1 => Reached(i)'
      BY <2>0 DEF Reached
    <3> QED
      BY <1>1, <3>1 DEF NextScript
  <2>5. ~Finish /\ ~Rerun
    <3>1. i <= Len(Plan) /\ Len(Plan) \in Nat
      BY ScriptTyped
    <3> QED
      BY <2>0, <3>1 DEF Finish, Rerun
  <2>6. CASE Stays
    BY <1>4, <2>6 DEF Stays, besides, Past
  <2> QED
    BY <2>1, <2>2, <2>3, <2>4, <2>5, <2>6, WhatHappens DEF Run
<1> QED
  BY <1>2, <1>3, <1>4 DEF Waits

\* The effect is there, or on its way in the run of the moment.
Held(i, step) == Effected(step) \/ (Promised(step) /\ (release.live => at = i))

LEMMA HeldStays ==
  ASSUME TypeInv, StoresGrow, EndsAreHit, [Next]_vars, NEW i \in Executed, Waits(i)', NEW step, Held(i, step)
  PROVE  Held(i, step)'
<1>0. release' = release
  BY DEF StoresGrow
<1>1. CASE Effected(step)
  BY <1>1, EffectedGrows DEF Held
<1>2. CASE Promised(step) /\ (release.live => at = i)
  <2>1. status = "running" /\ at \in Executed
    BY <1>2 DEF Promised
  <2>2. i \notin hit' /\ (~release.live => status' = "running")
    BY <1>0 DEF Waits
  <2>3. status' = "running"
    <3>1. CASE Check \/ Reuse \/ DeployNew \/ SaveName \/ Transact \/ Spend
      BY <2>1, <3>1, StandsAndAdvances DEF Advance
    <3>2. CASE Branch \/ NextScript \/ Rerun \/ Stays
      BY <2>1, <3>2 DEF Branch, NextScript, Rerun, Stays, besides
    <3>3. CASE Fail \/ Crash
      BY <1>2, <2>2, <3>3 DEF Fail, Crash
    <3>4. ~Finish
      <4>1. at <= Len(Plan) /\ Len(Plan) \in Nat /\ at \in Nat
        BY <2>1, ScriptTyped
      <4> QED
        BY <4>1 DEF Finish
    <3> QED
      BY <3>1, <3>2, <3>3, <3>4, WhatHappens DEF Run
  <2> QED
    BY <1>0, <1>2, <2>3, PromiseKept DEF Held
<1> QED
  BY <1>1, <1>2 DEF Held

(***************************************************************************)
(* Before a script has been reached, who answered one of its checks has    *)
(* done the block; the steps that its first run has passed are done or on  *)
(* their way, unless excused for good; and after it they are done.         *)
(***************************************************************************)
AnsweredIsHeld ==
  \A i \in Executed : Waits(i) =>
    \A j \in DOMAIN Plan[i].steps, k \in DOMAIN Plan[i].steps :
      Closes(Plan[i].steps, j) /\ LeftOut(Plan[i].steps[j]) /\ ~Past(i, j) =>
        (Covers(Plan[i].steps, j, k) /\ Plan[i].steps[k].do \in Effects => Held(i, Plan[i].steps[k]))
PassedIsHeld ==
  \A i \in Executed : Waits(i) =>
    \A k \in DOMAIN Plan[i].steps : Past(i, k) => Held(i, Plan[i].steps[k]) \/ ForGood(Plan[i].steps, k)
ReachedIsDone ==
  \A i \in Executed \ (hit \union missed) : Reached(i) =>
    \A k \in DOMAIN Plan[i].steps : Effected(Plan[i].steps[k]) \/ ForGood(Plan[i].steps, k)

LEMMA AtOnce ==
  ASSUME TypeInv, ~release.again, NEW i \in Executed
  PROVE  i \in DOMAIN release.plan /\ ~release.plan[i].skip /\ DoneAtOnce(release, i)
  BY AtOnceAssumption DEF TypeInv, Executed, Plan

LEMMA AnsweredIsHeldInit == Init /\ ~release.again => AnsweredIsHeld
<1> SUFFICES ASSUME Init, ~release.again, NEW i \in Executed,
                    NEW j \in DOMAIN Plan[i].steps, NEW k \in DOMAIN Plan[i].steps,
                    Closes(Plan[i].steps, j), LeftOut(Plan[i].steps[j]),
                    Covers(Plan[i].steps, j, k), Plan[i].steps[k].do \in Effects
             PROVE  Held(i, Plan[i].steps[k])
  BY DEF AnsweredIsHeld
<1>1. saved = {} /\ chain = {} /\ Plan[i].steps[j].do \in Unless
  BY DEF Init, Closes
<1>2. StoodBefore(release, Plan[i].steps[j])
  BY <1>1 DEF StoodBefore, LeftOut, IsSaved, Holds, Unless
<1>3. DoneAtOnce(release, i)
  BY TypeInvInit, AtOnce
<1>4. FoundIn(Plan[i].steps[k], release.saved, release.chain)
  BY <1>2, <1>3 DEF DoneAtOnce, AnsweredWithAll, Plan
<1> QED
  BY <1>4 DEF Held, Effected, FoundIn

\* The step that answers a check of a script that waits comes with the whole
\* block of the check.
LEMMA AnswerComesWithAll ==
  ASSUME TypeInv, StoresGrow, Entered, [Next]_vars, ~release.again,
         NEW i \in Executed, Waits(i), NEW steps, steps = Plan[i].steps,
         NEW j \in DOMAIN steps, NEW k \in DOMAIN steps, Closes(steps, j), ~Past(i, j),
         ~LeftOut(steps[j]), LeftOut(steps[j])', Covers(steps, j, k), steps[k].do \in Effects
  PROVE  Held(i, steps[k])'
<1>0. release' = release /\ Plan' = Plan /\ Executed' = Executed
  BY DEF StoresGrow, Plan, Executed
<1>1. (DeployNew \/ SaveName \/ Transact) /\ Establishes(steps[j], Now) /\ steps[j].do \in Unless
  BY NewlyAnswered DEF Closes
<1>2. /\ at \in Executed /\ pc \in DOMAIN Plan[at].steps /\ Now = Plan[at].steps[pc] /\ Now.do \notin Branches
      /\ status = "running" /\ status' = "running" /\ at' = at /\ pc' = pc + 1
  BY <1>1, StandsAndAdvances DEF Advance
<1>3. /\ i \in Nat /\ at \in Nat /\ pc \in Nat /\ j \in Nat
      /\ DOMAIN Plan[at].steps \subseteq Nat
  BY <1>2, ScriptTyped DEF TypeInv, DeploymentTypeOK
<1>4. at < i \/ (at = i /\ pc < j)
  <2>1. at <= i
    BY <1>3 DEF Waits, Reached
  <2>2. at = i => pc # j
    BY <1>1, <1>2 DEF Unless, Branches, Occasions
  <2>3. at = i => ~(j < pc)
    BY <1>2 DEF Past
  <2> QED
    BY <1>3, <2>1, <2>2, <2>3
<1>5. AnsweredWithAll(release, i, j, k)
  BY AtOnce DEF DoneAtOnce, Plan
<1>6. at \in DOMAIN release.plan /\ ~release.plan[at].skip
  BY <1>2 DEF Executed, Plan
<1>7. PICK m \in DOMAIN Plan[at].steps :
        /\ GoesWith(Plan[at].steps, m, pc) /\ SameEffect(Plan[at].steps[m], steps[k])
        /\ m <= pc \/ ~release.live \/ at = i
  BY <1>1, <1>2, <1>4, <1>5, <1>6 DEF AnsweredWithAll, Plan
<1>8. PICK s : s = Plan[at].steps[m]
  OBVIOUS
<1>9. CASE m = pc
  <2>1. Effected(s)'
    BY <1>1, <1>2, <1>8, <1>9, StepSettled DEF Met
  <2>2. Effected(steps[k])'
    BY <1>7, <1>8, <2>1, SameEffectIsEffected
  <2> QED
    BY <2>2 DEF Held
<1>10. CASE m < pc
  <2>1. \A c \in DOMAIN Plan[at].steps : Covers(Plan[at].steps, c, m) => Covers(Plan[at].steps, c, pc)
    BY <1>3, <1>7, <1>10 DEF GoesWith
  <2>2. Effected(s)
    BY <1>2, <1>8, <1>10, <2>1 DEF Entered, EnteredAt
  <2>3. Effected(steps[k])'
    BY <1>7, <1>8, <2>2, EffectedGrows, SameEffectIsEffected
  <2> QED
    BY <2>3 DEF Held
<1>11. CASE pc < m
  <2>1. \A c \in DOMAIN Plan[at].steps : Covers(Plan[at].steps, c, m) => c < pc + 1
    <3>1. \A c \in DOMAIN Plan[at].steps : Covers(Plan[at].steps, c, m) => c < pc /\ c \in Nat
      BY <1>3, <1>7, <1>11 DEF GoesWith, Covers
    <3> QED
      BY <1>3, <3>1
  <2>2. PICK script : script = Plan[at].steps
    OBVIOUS
  <2>3. pc + 1 <= m
    BY <1>3, <1>11
  <2>4. Ahead(script, m, pc)'
    BY <1>2, <2>1, <2>2, <2>3 DEF Ahead
  <2>5. Promised(steps[k])'
    BY <1>0, <1>2, <1>7, <2>2, <2>4 DEF Promised
  <2>6. release.live => at = i
    BY <1>3, <1>7, <1>11
  <2> QED
    BY <1>0, <1>2, <2>5, <2>6 DEF Held
<1> QED
  BY <1>3, <1>9, <1>10, <1>11

LEMMA AnsweredIsHeldNext ==
  ASSUME TypeInv, StoresGrow, Entered, EndsAreHit, ~release.again, AnsweredIsHeld, [Next]_vars
  PROVE  AnsweredIsHeld'
<1>0. release' = release /\ Plan' = Plan /\ Executed' = Executed
  BY DEF StoresGrow, Plan, Executed
<1> SUFFICES ASSUME NEW i \in Executed, Waits(i)', NEW steps, steps = Plan[i].steps,
                    NEW j \in DOMAIN steps, NEW k \in DOMAIN steps,
                    Closes(steps, j), LeftOut(steps[j])', ~Past(i, j)',
                    Covers(steps, j, k), steps[k].do \in Effects
             PROVE  Held(i, steps[k])'
  <2>1. SUFFICES ASSUME NEW i \in Executed, Waits(i)',
                        NEW j \in DOMAIN Plan[i].steps, NEW k \in DOMAIN Plan[i].steps,
                        Closes(Plan[i].steps, j), LeftOut(Plan[i].steps[j])', ~Past(i, j)',
                        Covers(Plan[i].steps, j, k), Plan[i].steps[k].do \in Effects
                 PROVE  Held(i, Plan[i].steps[k])'
    BY <1>0 DEF AnsweredIsHeld
  <2>2. PICK steps : steps = Plan[i].steps
    OBVIOUS
  <2>3. LeftOut(steps[j])'
    BY <1>0, <2>1, <2>2
  <2>4. Held(i, steps[k])'
    BY <2>1, <2>2, <2>3
  <2> QED
    BY <1>0, <2>2, <2>4
<1>1. Waits(i) /\ ~Past(i, j)
  BY WaitsBefore, ScriptTyped
<1>2. CASE LeftOut(steps[j])
  <2>1. Held(i, steps[k])
    BY <1>1, <1>2 DEF AnsweredIsHeld
  <2> QED
    BY <2>1, HeldStays
<1>3. CASE ~LeftOut(steps[j])
  BY <1>1, <1>3, AnswerComesWithAll
<1> QED
  BY <1>2, <1>3

LEMMA PassedIsHeldNext ==
  ASSUME TypeInv, StoresGrow, Entered, EndsAreHit, ~release.again, AnsweredIsHeld, PassedIsHeld, [Next]_vars
  PROVE  PassedIsHeld'
<1>0. release' = release /\ Plan' = Plan /\ Executed' = Executed
  BY DEF StoresGrow, Plan, Executed
<1> DEFINE Safe(i, steps, k) == Held(i, steps[k]) \/ ForGood(steps, k)
<1> SUFFICES ASSUME NEW i \in Executed, Waits(i)', NEW steps, steps = Plan[i].steps,
                    NEW k \in DOMAIN steps, Past(i, k)'
             PROVE  Safe(i, steps, k)'
  <2>1. SUFFICES ASSUME NEW i \in Executed, Waits(i)', NEW k \in DOMAIN Plan[i].steps, Past(i, k)'
                 PROVE  Held(i, Plan[i].steps[k])' \/ ForGood(Plan[i].steps, k)'
    BY <1>0 DEF PassedIsHeld
  <2>2. PICK steps : steps = Plan[i].steps
    OBVIOUS
  <2>3. Safe(i, steps, k)'
    BY <2>1, <2>2
  <2> QED
    BY <1>0, <2>2, <2>3
<1>1. Waits(i)
  BY WaitsBefore
<1>2. /\ DOMAIN steps \subseteq Nat \ {0} /\ k \in Nat \ {0} /\ pc \in Nat /\ pc' \in Nat
      /\ \A l \in DOMAIN steps : steps[l].skip \in Nat
  BY ScriptTyped, TypeInvNext DEF TypeInv, DeploymentTypeOK
<1>3. status' = "running" /\ i = at' /\ k < pc'
  BY DEF Past
<1>4. PICK p : p = pc'
  OBVIOUS
<1>5. Enters(i, p)
  BY <1>3, <1>4, RunGoesOn
<1>6. ASSUME Safe(i, steps, k)
      PROVE  Safe(i, steps, k)'
  BY <1>6, HeldStays, ForGoodStays
\* Steps that establish nothing are none to lose.
<1>7. CASE steps[k].do \notin Effects
  <2>1. Effected(steps[k])'
    BY <1>7 DEF Effected, FoundIn, Effects
  <2> QED
    BY <2>1 DEF Held
<1>8. CASE Past(i, k)
  BY <1>1, <1>6, <1>8 DEF PassedIsHeld
<1>9. CASE /\ status = "running" /\ i = at /\ p = pc + 1 /\ pc \in DOMAIN Plan[at].steps
           /\ Plan[at].steps[pc].do \notin Branches /\ ~Past(i, k)
           /\ Check \/ Reuse \/ DeployNew \/ SaveName \/ Transact \/ Spend
  <2>1. k = pc
    BY <1>2, <1>3, <1>4, <1>9 DEF Past
  <2>2. PICK s : s = steps[k]
    OBVIOUS
  <2>3. Now = s
    BY <1>9, <2>1, <2>2 DEF Now, This
  <2>4. Effected(s)'
    BY <1>9, <2>3, StepSettled DEF Met
  <2> QED
    BY <2>2, <2>4 DEF Held
<1>10. CASE /\ status = "running" /\ i = at /\ pc \in DOMAIN Plan[at].steps
            /\ Plan[at].steps[pc].do \in Branches /\ Branch /\ ~Past(i, k) /\ steps[k].do \in Effects
            /\ p = IF LeftOut(Plan[at].steps[pc]) THEN pc + 1 + Plan[at].steps[pc].skip ELSE pc + 1
  <2>1. k # pc
    BY <1>10 DEF Branches, Occasions, Effects
  <2>2. pc < k /\ LeftOut(steps[pc]) /\ k <= pc + steps[pc].skip
    BY <1>2, <1>3, <1>4, <1>10, <2>1 DEF Past
  <2>3. Covers(steps, pc, k) /\ ~Past(i, pc)
    BY <1>2, <1>10, <2>2 DEF Covers, Past
  <2>4. CASE steps[pc].do \in Unless
    <3>1. CASE Closes(steps, pc)
      <4>1. Held(i, steps[k])
        BY <1>1, <1>10, <2>2, <2>3, <3>1 DEF AnsweredIsHeld
      <4> QED
        BY <1>6, <4>1
    <3>2. CASE ~Closes(steps, pc)
      <4>1. ForGood(steps, k)
        BY <1>10, <2>2, <2>3, <2>4, <3>2 DEF ForGood
      <4> QED
        BY <1>6, <4>1
    <3> QED
      BY <3>1, <3>2
  <2>5. ASSUME steps[pc].do \in Occasions PROVE FALSE
    <3>1. Now = steps[pc] /\ i \notin missed'
      BY <1>10 DEF Now, This, Waits
    <3> QED
      BY <1>10, <2>2, <2>5, <3>1 DEF Branch
  <2>6. CASE steps[pc].do \notin Unless \union Occasions
    <3>1. DoneAnyway(release, i, pc, k)
      BY <1>10, <2>3, <2>6, AtOnce DEF DoneAtOnce, Plan
    <3>2. steps[pc].do = "if saved" /\ ~IsSaved(steps[pc].of)
      BY <2>2, <3>1 DEF DoneAnyway, LeftOut, Plan
    <3>3. CASE SavedByNone(release, steps[pc].of)
      <4>1. ForGood(steps, k)
        BY <1>10, <2>3, <3>2, <3>3 DEF ForGood
      <4> QED
        BY <1>6, <4>1
    <3>4. CASE OtherwiseDone(steps, pc, k)
      <4>1. PICK m \in DOMAIN steps :
              /\ pc < m /\ SameEffect(steps[m], steps[k])
              /\ \A c \in DOMAIN steps : Covers(steps, c, m) =>
                   \/ Covers(steps, c, pc)
                   \/ /\ pc < c /\ steps[c].do = "unless saved" /\ steps[c].of = steps[pc].of
                      /\ \A b \in DOMAIN steps : pc < b /\ b < c => ~Establishes(steps[c], steps[b])
        BY <3>4 DEF OtherwiseDone
      <4>2. ~Covers(steps, pc, m)
        <5>1. pc \in DOMAIN steps /\ ~(pc < pc)
          BY <1>2, <1>10
        <5>2. ~Covers(steps, pc, pc)
          BY <5>1 DEF Covers
        <5> QED
          BY <4>1, <5>1, <5>2
      <4>3. m \in Nat /\ p = pc + 1 + steps[pc].skip /\ p <= m /\ pc < p
        <5>1. m \in Nat /\ steps[pc].skip \in Nat
          BY <1>2, <1>10
        <5>2. ~(m <= pc + steps[pc].skip)
          BY <1>10, <4>1, <4>2 DEF Covers
        <5>3. p = pc + 1 + steps[pc].skip
          BY <1>10, <2>2
        <5> QED
          BY <1>2, <5>1, <5>2, <5>3
      <4>4. saved' = saved
        BY <1>10 DEF Branch, stores
      <4>5. ASSUME NEW c \in DOMAIN steps, Covers(steps, c, m), ~(c < p)
            PROVE  /\ steps[c].do = "unless saved" /\ ~IsSaved(steps[c].of)'
                   /\ \A b \in DOMAIN steps : p <= b /\ b < c => ~Establishes(steps[c], steps[b])
        <5>1. ~Covers(steps, c, pc)
          BY <1>2, <1>4, <4>3, <4>5 DEF Covers
        <5>2. /\ steps[c].do = "unless saved" /\ steps[c].of = steps[pc].of
              /\ \A b \in DOMAIN steps : pc < b /\ b < c => ~Establishes(steps[c], steps[b])
          BY <4>1, <4>5, <5>1
        <5>3. ~IsSaved(steps[c].of)'
          BY <1>0, <3>2, <4>4, <5>2 DEF IsSaved
        <5>4. \A b \in DOMAIN steps : p <= b => pc < b
          BY <1>2, <1>4, <4>3
        <5> QED
          BY <5>2, <5>3, <5>4
      <4>6. Ahead(steps, m, pc)'
        BY <1>4, <4>3, <4>5 DEF Ahead
      <4>7. Promised(steps[k])'
        BY <1>0, <1>3, <4>1, <4>6 DEF Promised
      <4> QED
        BY <1>0, <1>3, <4>7 DEF Held
    <3> QED
      BY <2>2, <3>1, <3>2, <3>3, <3>4 DEF DoneAnyway, Plan, IsSaved
  <2> QED
    BY <2>4, <2>5, <2>6
<1>11. CASE p = 1
  BY <1>2, <1>3, <1>4, <1>11
<1>12. CASE status = "running" /\ i = at /\ p = pc /\ Stays
  BY <1>3, <1>4, <1>8, <1>12 DEF Past
<1> QED
  BY <1>5, <1>7, <1>8, <1>9, <1>10, <1>11, <1>12 DEF Enters

LEMMA ReachedIsDoneNext ==
  ASSUME TypeInv, StoresGrow, EndsAreHit, PassedIsHeld, ReachedIsDone, [Next]_vars
  PROVE  ReachedIsDone'
<1>0. release' = release /\ Plan' = Plan /\ Executed' = Executed
  BY DEF StoresGrow, Plan, Executed
<1> SUFFICES ASSUME NEW i \in Executed \ (hit' \union missed'), Reached(i)', NEW steps, steps = Plan[i].steps,
                    NEW k \in DOMAIN steps
             PROVE  Effected(steps[k])' \/ ForGood(steps, k)'
  <2>1. SUFFICES ASSUME NEW i \in Executed \ (hit' \union missed'), Reached(i)', NEW k \in DOMAIN Plan[i].steps
                 PROVE  Effected(Plan[i].steps[k])' \/ ForGood(Plan[i].steps, k)'
    BY <1>0 DEF ReachedIsDone
  <2>2. PICK steps : steps = Plan[i].steps
    OBVIOUS
  <2>3. Effected(steps[k])' \/ ForGood(steps, k)'
    BY <2>1, <2>2
  <2> QED
    BY <1>0, <2>2, <2>3
<1>1. i \in Executed \ (hit \union missed)
  BY ReachedNext
<1>2. SUFFICES Effected(steps[k]) \/ ForGood(steps, k)
  BY EffectedGrows, ForGoodStays
<1>3. CASE Reached(i)
  BY <1>1, <1>3 DEF ReachedIsDone
\* The run has come to the end of the script.
<1>4. CASE ~Reached(i)
  <2>1. NextScript /\ at = i
    BY <1>1, <1>4, ReachedNext
  <2>2. status = "running" /\ at \in Executed /\ ~This.skip /\ pc > Len(steps)
    BY <1>1, <2>1 DEF NextScript, This, Executed
  <2>3. Plan[i].steps \in Seq(Steps)
    <3>1. Plan \in Seq(Scripts)
      BY ReleasesAssumption DEF TypeInv, Plan, ReleaseRecords
    <3>2. Plan[i] \in Scripts
      BY <1>1, <3>1 DEF Executed
    <3> QED
      BY <3>2 DEF Scripts
  <2>4. \A l \in DOMAIN steps : l < pc /\ ~(pc <= l)
    <3>1. pc \in Nat
      BY DEF TypeInv, DeploymentTypeOK
    <3> QED
      BY <2>2, <2>3, <3>1
  <2>5. Held(i, steps[k]) \/ ForGood(steps, k)
    <3>1. Waits(i) /\ Past(i, k)
      BY <1>1, <1>4, <2>1, <2>2, <2>4 DEF Waits, Past
    <3> QED
      BY <1>1, <3>1 DEF PassedIsHeld
  <2>6. ~Promised(steps[k])
    BY <2>1, <2>4 DEF Promised, Ahead
  <2> QED
    BY <2>5, <2>6 DEF Held
<1> QED
  BY <1>3, <1>4

\* A script that missed an occasion waits for one, and is listed.
MissedItsOccasion ==
  \A i \in missed : i \in Executed /\ \E k \in DOMAIN Plan[i].steps : Plan[i].steps[k].do \in Occasions

LEMMA MissedItsOccasionNext ==
  ASSUME TypeInv, MissedItsOccasion, [Next]_vars
  PROVE  MissedItsOccasion'
<1>1. release' = release /\ Plan' = Plan /\ Executed' = Executed
  BY NextGrows DEF StoresGrow, Plan, Executed
<1>2. CASE missed' = missed
  BY <1>1, <1>2 DEF MissedItsOccasion, Occasions
<1>3. CASE Branch /\ missed' # missed
  <2>1. Now.do \in Occasions /\ missed' = missed \union {at}
    BY <1>3 DEF Branch
  <2>2. at \in Executed /\ pc \in DOMAIN Plan[at].steps /\ Now = Plan[at].steps[pc]
    BY <1>3, StandsInScript DEF Branch
  <2> QED
    BY <1>1, <2>1, <2>2 DEF MissedItsOccasion, Occasions
<1> QED
  BY <1>2, <1>3, WhatHappens DEF Run, Check, Reuse, DeployNew, SaveName, Transact, Spend, Fail, NextScript,
                                 Finish, Crash, Rerun, Advance, Stays, besides

LEMMA MissedAreListed ==
  ASSUME TypeInv, MissedItsOccasion, NEW i \in missed
  PROVE  Fragile(i)
<1>1. i \in Executed /\ \E k \in DOMAIN Plan[i].steps : Plan[i].steps[k].do \in Occasions
  BY DEF MissedItsOccasion
<1>2. release \in Releases /\ i \in DOMAIN release.plan /\ ~release.plan[i].skip
  BY <1>1 DEF TypeInv, Executed, Plan
<1> QED
  BY <1>1, <1>2, OccasionsAssumption DEF Fragile, Plan

InOneGo == EndsAreHit /\ (~release.again => AnsweredIsHeld /\ PassedIsHeld /\ ReachedIsDone)
LocalInv == LossInv /\ FreshEnds /\ InOneGo /\ MissedItsOccasion

LEMMA LocalInvInit == Init => LocalInv
<1> SUFFICES ASSUME Init PROVE LocalInv
  OBVIOUS
<1>1. LossInv /\ TypeInv /\ FreshEnds /\ MissedItsOccasion
  BY LossInvInit, QuietInvInit DEF LossInv, SkipInv, QuietInv, Init, MissedItsOccasion
<1>2. status = "running" /\ at = 1 /\ pc = 1 /\ hit = {} /\ finished = release.again
  BY DEF Init
<1>3. EndsAreHit
  BY <1>2 DEF EndsAreHit
<1>4. ~release.again => AnsweredIsHeld
  BY AnsweredIsHeldInit
<1>5. PassedIsHeld
  <2> SUFFICES ASSUME NEW i \in Executed, NEW k \in DOMAIN Plan[i].steps, k < 1
               PROVE  FALSE
    BY <1>2 DEF PassedIsHeld, Past
  <2>1. k \in Nat \ {0}
    BY <1>1, ScriptTyped
  <2> QED
    BY <2>1
<1>6. ~release.again => ReachedIsDone
  <2> SUFFICES ASSUME ~release.again, NEW i \in Executed, Reached(i) PROVE FALSE
    BY DEF ReachedIsDone
  <2>1. i \in Nat \ {0}
    BY <1>1, ScriptTyped
  <2>2. i < 1
    BY <1>2 DEF Reached
  <2> QED
    BY <2>1, <2>2
<1> QED
  BY <1>1, <1>3, <1>4, <1>5, <1>6 DEF LocalInv, InOneGo

LEMMA LocalInvNext == LocalInv /\ [Next]_vars => LocalInv'
<1> SUFFICES ASSUME LocalInv, [Next]_vars PROVE LocalInv'
  OBVIOUS
<1>1. /\ LossInv /\ TypeInv /\ Entered /\ FreshEnds /\ EndsAreHit /\ MissedItsOccasion
      /\ ~release.again => AnsweredIsHeld /\ PassedIsHeld /\ ReachedIsDone
  BY DEF LocalInv, LossInv, SkipInv, InOneGo
<1>2. StoresGrow
  BY <1>1, NextGrows
<1>3. LossInv' /\ FreshEnds' /\ EndsAreHit' /\ MissedItsOccasion'
  BY <1>1, LossInvNext, FreshEndsNext, EndsAreHitNext, MissedItsOccasionNext
<1>4. ~release.again => AnsweredIsHeld' /\ PassedIsHeld' /\ ReachedIsDone'
  BY <1>1, <1>2, AnsweredIsHeldNext, PassedIsHeldNext, ReachedIsDoneNext
<1>5. release' = release
  BY <1>2 DEF StoresGrow
<1> QED
  BY <1>3, <1>4, <1>5 DEF LocalInv, InOneGo

LEMMA LossIsLocalThen == LocalInv => LossIsLocal
<1> SUFFICES ASSUME LocalInv, finished, NEW i \in Executed, ~(i \in hit \union missed /\ Fragile(i))
             PROVE  Complete(Plan[i])
  BY DEF LossIsLocal
<1>1. /\ LossInv /\ TypeInv /\ FreshEnds /\ EndsAreHit /\ MissedItsOccasion
      /\ ~release.again => ReachedIsDone
  BY DEF LocalInv, LossInv, SkipInv, InOneGo
<1>2. CASE release.again
  <2>1. release \in Releases /\ i \in DOMAIN release.plan /\ ~release.plan[i].skip
    BY <1>1 DEF TypeInv, Executed, Plan
  <2>2. \A k \in DOMAIN Plan[i].steps : FoundIn(Plan[i].steps[k], release.saved, release.chain)
    BY <1>2, <2>1, AgainAssumption DEF Plan
  <2> QED
    BY <2>2 DEF Complete, Effected, FoundIn
<1>3. CASE ~release.again /\ i \notin hit /\ i \notin missed
  <2>1. Reached(i)
    BY DEF Reached
  <2>2. \A k \in DOMAIN Plan[i].steps : Effected(Plan[i].steps[k]) \/ ForGood(Plan[i].steps, k)
    BY <1>1, <1>3, <2>1 DEF ReachedIsDone
  <2> QED
    BY <2>2, ForGoodExcuses DEF Complete
<1>4. CASE ~release.again /\ i \in hit
  <2>1. release.live
    BY <1>1, <1>4 DEF FreshEnds, EndsAreHit
  <2>2. CarefulScript(i)
    BY <1>1, <1>4, <2>1, CarefulUnlessFragile
  <2> QED
    BY <1>1, <2>2, ClosedIsComplete DEF CarefulScriptsAreComplete
<1>5. i \notin missed
  BY <1>1, MissedAreListed
<1> QED
  BY <1>2, <1>3, <1>4, <1>5

\* Once a run went through the plan, every script has done all it is for,
\* though earlier runs were cut off anywhere: all but those that are listed
\* as fragile and were cut off, threw or missed their occasion themselves.
THEOREM LossStaysLocal == Spec => []LossIsLocal
<1>1. Init => LocalInv
  BY LocalInvInit
<1>2. LocalInv /\ [Next]_vars => LocalInv'
  BY LocalInvNext
<1>3. LocalInv => LossIsLocal
  BY LossIsLocalThen
<1> QED
  BY <1>1, <1>2, <1>3, PTL DEF Spec

(***************************************************************************)
(* Made once.  The first run that comes to a script finds nothing of what  *)
(* it makes or adds: all that is on the chain was established behind the   *)
(* place of the run, or by a run before, and the runs before came no       *)
(* farther than to the scripts where they ended.  A run that comes to a    *)
(* script which an earlier run went through in one go finds all of it, and *)
(* is led around what may not be done again.                               *)
(***************************************************************************)
Acts(step, fact) == step.do \in Effects \ {"save"} /\ fact = <<step.of, step.fact>>
Behind(l, b) == l < at \/ (l = at /\ b < pc)
WentTo(l)    == finished \/ \E h \in hit : l <= h
OnlyForward ==
  \A fact \in chain :
    \E l \in Executed : \E b \in DOMAIN Plan[l].steps :
      Acts(Plan[l].steps[b], fact) /\ (Behind(l, b) \/ WentTo(l))

\* What a step adds to the chain is its own fact.
LEMMA WhatIsEstablished ==
  ASSUME TypeInv, [Next]_vars, NEW fact \in chain' \ chain, NEW step, step = Plan[at].steps[pc]
  PROVE  /\ status = "running" /\ at \in Executed /\ pc \in DOMAIN Plan[at].steps
         /\ Acts(step, fact) /\ at' = at /\ pc' = pc + 1
<1>1. CASE DeployNew
  <2>1. /\ status = "running" /\ at \in Executed /\ pc \in DOMAIN Plan[at].steps /\ Now = step
        /\ at' = at /\ pc' = pc + 1
    BY <1>1, StandsAndAdvances DEF Advance
  <2>2. step.do = "deploy" /\ chain' = chain \union {<<step.of, step.fact>>}
    BY <1>1, <2>1 DEF DeployNew, At
  <2> QED
    BY <2>1, <2>2 DEF Acts, Effects
<1>2. CASE Transact
  <2>1. /\ status = "running" /\ at \in Executed /\ pc \in DOMAIN Plan[at].steps /\ Now = step
        /\ at' = at /\ pc' = pc + 1
    BY <1>2, StandsAndAdvances DEF Advance
  <2>2. /\ step.do \in {"make", "set", "once", "add", "owner"}
        /\ chain' \subseteq chain \union {<<step.of, step.fact>>}
    BY <1>2, <2>1 DEF Transact, At
  <2> QED
    BY <2>1, <2>2 DEF Acts, Effects
<1>3. ASSUME ~DeployNew, ~Transact PROVE chain' = chain
  BY <1>3, WhatHappens DEF Run, Check, Reuse, SaveName, Spend, Branch, Fail, NextScript, Finish, Crash, Rerun,
              stores, Stays, besides
<1> QED
  BY <1>1, <1>2, <1>3

LEMMA GoesForward ==
  ASSUME TypeInv, EndsAreHit, [Next]_vars, NEW l \in Nat, NEW b \in Nat, Behind(l, b) \/ WentTo(l)
  PROVE  Behind(l, b)' \/ WentTo(l)'
<1>0. at \in Nat /\ pc \in Nat /\ hit \subseteq Nat
  BY DEF TypeInv, DeploymentTypeOK
<1>1. CASE Check \/ Reuse \/ DeployNew \/ SaveName \/ Transact \/ Spend
  <2>1. at' = at /\ pc' = pc + 1 /\ hit' = hit /\ finished' = finished
    BY <1>1, StandsAndAdvances DEF Advance
  <2> QED
    BY <1>0, <2>1 DEF Behind, WentTo
<1>2. CASE Branch
  <2>1. Now.skip \in Nat
    BY <1>2, StandsInScript DEF Branch, Steps
  <2>2. /\ at' = at /\ pc' = (IF LeftOut(Now) THEN pc + 1 + Now.skip ELSE pc + 1)
        /\ hit' = hit /\ finished' = finished
    BY <1>2 DEF Branch
  <2>3. pc' \in Nat /\ pc <= pc'
    BY <1>0, <2>1, <2>2
  <2> QED
    BY <1>0, <2>2, <2>3 DEF Behind, WentTo
<1>3. CASE NextScript
  <2>1. at' = at + 1 /\ hit' = hit /\ finished' = finished
    BY <1>3 DEF NextScript
  <2> QED
    BY <1>0, <2>1 DEF Behind, WentTo
<1>4. CASE Fail \/ Crash
  <2>1. at' = at /\ pc' = pc /\ hit \subseteq hit' /\ finished' = finished
    BY <1>4 DEF Fail, Crash
  <2> QED
    BY <2>1 DEF Behind, WentTo
<1>5. CASE Finish
  BY <1>5 DEF Finish, WentTo
\* A run that is made again ended in a script that it came to.
<1>6. CASE Rerun
  <2>1. hit' = hit /\ finished' = finished /\ status # "running"
    BY <1>6 DEF Rerun
  <2>2. finished \/ at \in hit
    BY <2>1 DEF EndsAreHit, TypeInv, DeploymentTypeOK
  <2>3. Behind(l, b) => l <= at
    BY <1>0 DEF Behind
  <2> QED
    BY <2>1, <2>2, <2>3 DEF WentTo
<1>7. CASE Stays
  BY <1>7 DEF Stays, besides, Behind, WentTo
<1> QED
  BY <1>1, <1>2, <1>3, <1>4, <1>5, <1>6, <1>7, WhatHappens DEF Run

LEMMA OnlyForwardNext ==
  ASSUME TypeInv, EndsAreHit, OnlyForward, [Next]_vars
  PROVE  OnlyForward'
<1>0. release' = release /\ Plan' = Plan /\ Executed' = Executed
  BY NextGrows DEF StoresGrow, Plan, Executed
<1> SUFFICES ASSUME NEW fact \in chain'
             PROVE  \E l \in Executed : \E b \in DOMAIN Plan[l].steps :
                      Acts(Plan[l].steps[b], fact) /\ (Behind(l, b)' \/ WentTo(l)')
  BY <1>0 DEF OnlyForward, Acts, Effects
<1>1. CASE fact \in chain
  <2>1. PICK l \in Executed :
          \E b \in DOMAIN Plan[l].steps : Acts(Plan[l].steps[b], fact) /\ (Behind(l, b) \/ WentTo(l))
    BY <1>1 DEF OnlyForward
  <2>2. PICK b \in DOMAIN Plan[l].steps : Acts(Plan[l].steps[b], fact) /\ (Behind(l, b) \/ WentTo(l))
    BY <2>1
  <2>3. l \in Nat /\ b \in Nat
    BY ScriptTyped
  <2> QED
    BY <2>2, <2>3, GoesForward
<1>2. CASE fact \notin chain
  <2>1. PICK step : step = Plan[at].steps[pc]
    OBVIOUS
  <2>2. /\ at \in Executed /\ pc \in DOMAIN Plan[at].steps
        /\ Acts(step, fact) /\ at' = at /\ pc' = pc + 1
    BY <1>2, <2>1, WhatIsEstablished
  <2>3. PICK l, b : l = at /\ b = pc
    OBVIOUS
  <2>4. b < pc' /\ l = at'
    BY <2>2, <2>3, ScriptTyped DEF TypeInv, DeploymentTypeOK
  <2>5. Behind(l, b)'
    BY <2>4 DEF Behind
  <2> QED
    BY <2>1, <2>2, <2>3, <2>5
<1> QED
  BY <1>1, <1>2

\* Before the plan was gone through, a script that finds made what it makes
\* is one that an earlier run went beyond, or was cut off in.
HitInPlan == \A h \in hit : h \in DOMAIN Plan

LEMMA HitInPlanNext ==
  ASSUME TypeInv, HitInPlan, [Next]_vars
  PROVE  HitInPlan'
<1>1. release' = release /\ Plan' = Plan
  BY NextGrows DEF StoresGrow, Plan
<1>2. CASE Fail \/ Crash
  <2>1. hit' = hit \union {at}
    BY <1>2 DEF Fail, Crash
  <2>2. at \in DOMAIN Plan
    <3>1. CASE Fail
      BY <3>1, StandsInScript DEF Fail, Executed
    <3>2. CASE Crash
      <4>1. Plan \in Seq(Scripts)
        BY ReleasesAssumption DEF TypeInv, Plan, ReleaseRecords
      <4>2. at \in Nat \ {0} /\ at <= Len(Plan)
        BY <3>2 DEF Crash, TypeInv, DeploymentTypeOK
      <4> QED
        BY <4>1, <4>2
    <3> QED
      BY <1>2, <3>1, <3>2
  <2> QED
    BY <1>1, <2>1, <2>2 DEF HitInPlan
<1>3. CASE hit' = hit
  BY <1>1, <1>3 DEF HitInPlan
<1> QED
  BY <1>2, <1>3, WhatHappens DEF Run, Check, Reuse, DeployNew, SaveName, Transact, Spend, Branch, NextScript,
                                 Finish, Rerun, Advance, Stays, besides

LEMMA FoundByALaterRun ==
  ASSUME TypeInv, OnlyForward, EndsAreHit, FreshEnds, HitInPlan, Transact, ~release.again, ~finished,
         Now.do \in {"make", "add"}, Holds(Now.of, Now.fact)
  PROVE  /\ release.live
         /\ at \in hit \/ (Reached(at) /\ at # Len(Plan))
<1>1. /\ status = "running" /\ at \in Executed /\ pc \in DOMAIN Plan[at].steps
      /\ Now = Plan[at].steps[pc]
  BY StandsAndAdvances
<1>2. release \in Releases /\ at \in DOMAIN release.plan /\ ~release.plan[at].skip
  BY <1>1 DEF TypeInv, Executed, Plan
<1>3. FirstToAct(release, at)
  BY <1>2, AtOnceAssumption
<1>4. /\ <<Now.of, Now.fact>> \notin release.chain
      /\ \A l \in Executed : \A b \in DOMAIN Plan[l].steps :
           Behind(l, b) /\ Plan[l].steps[b].do \in Effects \ {"save"} =>
             Plan[l].steps[b].of # Now.of \/ Plan[l].steps[b].fact # Now.fact
  BY <1>1, <1>3 DEF FirstToAct, Plan, Executed, Behind
<1>5. <<Now.of, Now.fact>> \in chain
  BY <1>4 DEF Holds
<1>6. PICK l \in Executed : \E b \in DOMAIN Plan[l].steps :
        Acts(Plan[l].steps[b], <<Now.of, Now.fact>>) /\ (Behind(l, b) \/ WentTo(l))
  BY <1>5 DEF OnlyForward
<1>7. PICK b \in DOMAIN Plan[l].steps :
        Acts(Plan[l].steps[b], <<Now.of, Now.fact>>) /\ (Behind(l, b) \/ WentTo(l))
  BY <1>6
<1>8. ~Behind(l, b)
  BY <1>4, <1>7 DEF Acts
<1>9. PICK h \in hit : l <= h
  BY <1>7, <1>8 DEF WentTo
<1>10. /\ l \in Nat /\ at \in Nat /\ h \in Nat /\ Len(Plan) \in Nat /\ h <= Len(Plan)
  <2>1. Plan \in Seq(Scripts)
    BY ReleasesAssumption DEF TypeInv, Plan, ReleaseRecords
  <2>2. h \in DOMAIN Plan
    BY <1>9 DEF HitInPlan
  <2> QED
    BY <1>1, <2>1, <2>2, ScriptTyped
<1>11. at <= h
  BY <1>8, <1>9, <1>10 DEF Behind
<1>12. at \in hit \/ at < h
  BY <1>9, <1>10, <1>11
<1>13. release.live
  BY <1>1, <1>9 DEF EndsAreHit
<1> QED
  BY <1>9, <1>10, <1>12, <1>13 DEF Reached

\* The checks in whose blocks a later run stands in a script that was gone
\* through in one go were not true, and cannot become so.
Asks == Unless \union {"if saved"}
GoneThrough(i) == i \in Executed \ (hit \union missed) /\ Reached(i)
NothingAskedIsTrue(i, p) ==
  \A j \in DOMAIN Plan[i].steps :
    Covers(Plan[i].steps, j, p) /\ Plan[i].steps[j].do \in Asks => ~LeftOut(Plan[i].steps[j])
InsideItIsAsked ==
  status = "running" /\ GoneThrough(at) /\ WellNested(Plan[at].steps) => NothingAskedIsTrue(at, pc)

\* So a step in the same blocks has been done, and is not left out for good.
LEMMA InsideIsEffected ==
  ASSUME ReachedIsDone, GoneThrough(at), NothingAskedIsTrue(at, pc), NEW steps, steps = Plan[at].steps,
         NEW b \in DOMAIN steps, \A c \in DOMAIN steps : Covers(steps, c, b) => Covers(steps, c, pc)
  PROVE  Effected(steps[b])
<1>1. Effected(steps[b]) \/ ForGood(steps, b)
  BY DEF ReachedIsDone, GoneThrough
<1>2. ASSUME ForGood(steps, b) PROVE FALSE
  <2>1. PICK c \in DOMAIN steps :
          /\ Covers(steps, c, b)
          /\ \/ steps[c].do \in Unless /\ LeftOut(steps[c])
             \/ steps[c].do = "if saved" /\ ~IsSaved(steps[c].of)
    BY <1>2 DEF ForGood
  <2>2. LeftOut(steps[c]) /\ steps[c].do \in Asks
    BY <2>1 DEF LeftOut, Asks
  <2> QED
    BY <2>1, <2>2 DEF NothingAskedIsTrue
<1> QED
  BY <1>1, <1>2

\* Then what it establishes is found.
LEMMA EffectedIsFound ==
  ASSUME NEW check, NEW step, check.do \in Unless, Establishes(check, step), Effected(step),
         check.do = "unless holds" => step.do # "deploy"
  PROVE  LeftOut(check)
<1>1. CASE check.do = "unless saved"
  <2>1. step.do \in {"deploy", "save"} /\ step.of = check.of
    BY <1>1 DEF Establishes
  <2>2. check.of \in release.saved \union saved
    BY <2>1 DEF Effected, FoundIn
  <2> QED
    BY <1>1, <2>2 DEF LeftOut, IsSaved
<1>2. CASE check.do = "unless holds"
  <2>1. step.do \in Effects \ {"save", "deploy"} /\ step.of = check.of /\ step.fact = check.fact
    BY <1>2 DEF Establishes
  <2>2. <<check.of, check.fact>> \in release.chain \union chain
    BY <2>1 DEF Effected, FoundIn, Effects
  <2> QED
    BY <1>2, <2>2 DEF LeftOut, Holds
<1> QED
  BY <1>1, <1>2 DEF Unless

LEMMA InsideItIsAskedNext ==
  ASSUME TypeInv, StoresGrow, EndsAreHit, ReachedIsDone, InsideItIsAsked, [Next]_vars
  PROVE  InsideItIsAsked'
<1>0. release' = release /\ Plan' = Plan /\ Executed' = Executed
  BY DEF StoresGrow, Plan, Executed
<1> SUFFICES ASSUME status' = "running", NEW i \in Executed, i = at', i \notin hit', i \notin missed', Reached(i)',
                    NEW steps, steps = Plan[i].steps, WellNested(steps), NEW p, p = pc',
                    NEW j \in DOMAIN steps, Covers(steps, j, p), steps[j].do \in Asks, LeftOut(steps[j])'
             PROVE  FALSE
  <2>1. SUFFICES ASSUME status' = "running", NEW i \in Executed, i = at', i \notin hit', i \notin missed', Reached(i)',
                        WellNested(Plan[i].steps), NEW j \in DOMAIN Plan[i].steps,
                        Covers(Plan[i].steps, j, pc'), Plan[i].steps[j].do \in Asks, LeftOut(Plan[i].steps[j])'
                 PROVE  FALSE
    BY <1>0 DEF InsideItIsAsked, NothingAskedIsTrue, GoneThrough, Covers, WellNested, Asks
  <2>2. PICK steps : steps = Plan[i].steps
    OBVIOUS
  <2>3. LeftOut(steps[j])'
    BY <1>0, <2>1, <2>2
  <2>4. PICK p : p = pc'
    OBVIOUS
  <2> QED
    BY <2>1, <2>2, <2>3, <2>4
<1>1. /\ status = "running" /\ i = at /\ pc <= p
      /\ Covers(steps, j, pc) \/ (j = pc /\ ~LeftOut(steps[j]) /\ Branch)
  BY CoveredBefore
<1>2. GoneThrough(i)
  <2>1. i \notin hit /\ i \notin missed /\ (~Reached(i) => NextScript /\ at = i)
    BY ReachedNext
  <2>2. ~(NextScript /\ at = i)
    <3>1. at \in Nat
      BY DEF TypeInv, DeploymentTypeOK
    <3> QED
      BY <3>1 DEF NextScript
  <2> QED
    BY <2>1, <2>2 DEF GoneThrough
\* The check was not true in the state before.
<1>3. NothingAskedIsTrue(i, pc)
  BY <1>1, <1>2 DEF InsideItIsAsked
<1>4. ~LeftOut(steps[j])
  BY <1>1, <1>3 DEF NothingAskedIsTrue
<1>5. CASE steps[j].do = "if saved"
  <2>1. IsSaved(steps[j].of) /\ ~IsSaved(steps[j].of)'
    BY <1>4, <1>5 DEF LeftOut
  <2> QED
    BY <2>1 DEF StoresGrow, IsSaved
\* The step that was taken would have established what it asks for, and had
\* done so before.
<1>6. CASE steps[j].do \in Unless
  <2>1. (DeployNew \/ SaveName \/ Transact) /\ Establishes(steps[j], Now)
    BY <1>4, <1>6, NewlyAnswered
  <2>2. pc \in DOMAIN steps /\ Now = steps[pc] /\ at \in Executed
    BY <1>1, <2>1, StandsAndAdvances
  <2>3. Effected(Now)
    BY <1>1, <1>2, <1>3, <2>2, InsideIsEffected
  <2>4. ~(Now.do = "deploy")
    <3>1. CASE DeployNew
      BY <2>3, <3>1 DEF DeployNew, Effected, FoundIn, IsSaved
    <3>2. CASE SaveName
      BY <3>2 DEF SaveName, At
    <3>3. CASE Transact
      BY <3>3 DEF Transact, At
    <3> QED
      BY <2>1, <3>1, <3>2, <3>3
  <2> QED
    BY <1>4, <1>6, <2>1, <2>3, <2>4, EffectedIsFound
<1> QED
  BY <1>5, <1>6 DEF Asks

\* Until a run has gone through the plan, a script that makes or adds again
\* what is there was cut off itself.
LEMMA ActsOnceOrIsHit ==
  ASSUME TypeInv, OnlyForward, EndsAreHit, FreshEnds, HitInPlan, MissedItsOccasion, ReachedIsDone,
         InsideItIsAsked, Transact, ~release.again, ~finished
  PROVE  twice' = twice \/ (release.live /\ at \in hit /\ twice' = twice \union {at})
<1>1. /\ status = "running" /\ at \in Executed /\ pc \in DOMAIN Plan[at].steps
      /\ Now = Plan[at].steps[pc]
  BY StandsAndAdvances
<1>2. twice' = IF Now.do \in {"make", "add"} /\ Holds(Now.of, Now.fact) THEN twice \union {at} ELSE twice
  BY DEF Transact
<1> SUFFICES ASSUME Now.do \in {"make", "add"}, Holds(Now.of, Now.fact)
             PROVE  release.live /\ at \in hit
  BY <1>2
<1>3. release.live /\ (at \in hit \/ (Reached(at) /\ at # Len(Plan)))
  BY FoundByALaterRun
<1>4. SUFFICES ASSUME at \notin hit, Reached(at), at # Len(Plan) PROVE FALSE
  BY <1>3
<1>5. PICK steps : steps = Plan[at].steps
  OBVIOUS
<1>6. /\ WellNested(steps) /\ AsksBefore(steps, {"make", "add"})
      /\ \A k \in DOMAIN steps : steps[k].do \notin Occasions
  <2>1. release \in Releases /\ at \in DOMAIN release.plan /\ ~release.plan[at].skip
    BY <1>1 DEF TypeInv, Executed, Plan
  <2>2. GoesBy(release, at)
    BY <1>3, <2>1, AtOnceAssumption
  <2> QED
    BY <1>1, <1>4, <1>5, <2>2 DEF GoesBy, Plan
<1>7. at \notin missed
  BY <1>5, <1>6 DEF MissedItsOccasion
<1>8. GoneThrough(at) /\ NothingAskedIsTrue(at, pc)
  BY <1>1, <1>4, <1>5, <1>6, <1>7 DEF GoneThrough, InsideItIsAsked
<1>9. PICK j \in DOMAIN steps, b \in DOMAIN steps :
        /\ Covers(steps, j, pc) /\ Covers(steps, j, b)
        /\ steps[j].do \in Unless /\ Establishes(steps[j], steps[b])
        /\ steps[j].do = "unless holds" => steps[b].do # "deploy"
        /\ \A c \in DOMAIN steps : Covers(steps, c, b) => Covers(steps, c, pc)
  BY <1>1, <1>5, <1>6 DEF AsksBefore
<1>10. ~LeftOut(steps[j])
  BY <1>5, <1>8, <1>9 DEF NothingAskedIsTrue, Asks
<1>11. Effected(steps[b])
  BY <1>5, <1>8, <1>9, InsideIsEffected
<1> QED
  BY <1>9, <1>10, <1>11, EffectedIsFound

TwiceIsHit ==
  /\ release.again => finished
  /\ ~finished => twice \subseteq hit
  /\ ~release.live /\ ~release.again => twice = {}
MadeInv == OnceInv /\ LocalInv /\ OnlyForward /\ HitInPlan /\ TwiceIsHit /\ (~release.again => InsideItIsAsked)

LEMMA MadeInvInit == Init => MadeInv
<1> SUFFICES ASSUME Init PROVE MadeInv
  OBVIOUS
<1>1. OnceInv /\ LocalInv /\ TypeInv
  BY OnceInvInit, LocalInvInit DEF OnceInv
<1>2. OnlyForward /\ HitInPlan /\ TwiceIsHit
  BY DEF Init, OnlyForward, HitInPlan, TwiceIsHit
<1>3. InsideItIsAsked
  <2> SUFFICES ASSUME at \in Executed, NEW j \in DOMAIN Plan[at].steps, j < pc
               PROVE  FALSE
    BY DEF InsideItIsAsked, NothingAskedIsTrue, GoneThrough, Covers
  <2>1. j \in Nat \ {0} /\ pc = 1
    BY <1>1, ScriptTyped DEF Init
  <2> QED
    BY <2>1
<1> QED
  BY <1>1, <1>2, <1>3 DEF MadeInv

LEMMA TwiceIsHitNext ==
  ASSUME MadeInv, [Next]_vars
  PROVE  TwiceIsHit'
<1>1. /\ TypeInv /\ EndsAreHit /\ FreshEnds /\ MissedItsOccasion /\ OnlyForward /\ HitInPlan /\ TwiceIsHit
      /\ ~release.again => ReachedIsDone /\ InsideItIsAsked
  BY DEF MadeInv, OnceInv, LocalInv, InOneGo
<1>2. release' = release
  BY <1>1, NextGrows DEF StoresGrow
<1>3. hit \subseteq hit' /\ (finished => finished')
  <2>1. ASSUME Check \/ Reuse \/ DeployNew \/ SaveName \/ Transact \/ Spend
        PROVE  hit' = hit /\ finished' = finished
    BY <1>1, <2>1, StandsAndAdvances DEF Advance
  <2>2. ASSUME Branch \/ Fail \/ NextScript \/ Crash \/ Rerun \/ Stays
        PROVE  hit \subseteq hit' /\ finished' = finished
    BY <2>2 DEF Branch, Fail, NextScript, Crash, Rerun, Stays, besides
  <2>3. ASSUME Finish PROVE hit' = hit /\ finished'
    BY <2>3 DEF Finish
  <2> QED
    BY <2>1, <2>2, <2>3, WhatHappens DEF Run
<1>4. twice' = twice \/ (Transact /\ twice' = twice \union {at})
  BY WhatHappens DEF Run, Check, Reuse, DeployNew, SaveName, Transact, Spend, Branch, Fail, NextScript, Finish,
         Crash, Rerun, Stays, besides, stores
<1>5. CASE twice' = twice
  BY <1>1, <1>2, <1>3, <1>5 DEF TwiceIsHit
<1>6. CASE Transact /\ twice' # twice
  <2>1. ASSUME ~finished PROVE release.live /\ at \in hit
    BY <1>1, <1>6, <2>1, ActsOnceOrIsHit DEF TwiceIsHit
  <2>2. ASSUME finished, ~release.again PROVE release.live
    <3>1. status = "running"
      BY <1>1, <1>6, StandsAndAdvances
    <3> QED
      BY <1>1, <2>2, <3>1 DEF FreshEnds
  <2> QED
    BY <1>1, <1>2, <1>3, <1>4, <1>6, <2>1, <2>2 DEF TwiceIsHit
<1> QED
  BY <1>4, <1>5, <1>6

LEMMA MadeInvNext == MadeInv /\ [Next]_vars => MadeInv'
<1> SUFFICES ASSUME MadeInv, [Next]_vars PROVE MadeInv'
  OBVIOUS
<1>1. /\ OnceInv /\ LocalInv /\ OnlyForward /\ HitInPlan /\ TypeInv /\ EndsAreHit
      /\ ~release.again => ReachedIsDone /\ InsideItIsAsked
  BY DEF MadeInv, OnceInv, LocalInv, InOneGo
<1>2. StoresGrow /\ release' = release
  BY <1>1, NextGrows DEF StoresGrow
<1>3. OnceInv' /\ LocalInv' /\ OnlyForward' /\ HitInPlan' /\ TwiceIsHit'
  BY <1>1, OnceInvNext, LocalInvNext, OnlyForwardNext, HitInPlanNext, TwiceIsHitNext
<1>4. ~release.again => InsideItIsAsked'
  BY <1>1, <1>2, InsideItIsAskedNext
<1> QED
  BY <1>2, <1>3, <1>4 DEF MadeInv

\* Nothing is cloned, minted or added a second time by the runs that follow
\* one that was cut off, but by a listed script that was cut off itself: on
\* all networks, and for the listed scripts, too, what the runs before went
\* through is asked for before it is made.
THEOREM NothingMadeTwice == Spec => []OnceOnly
<1>1. Init => MadeInv
  BY MadeInvInit
<1>2. MadeInv /\ [Next]_vars => MadeInv'
  BY MadeInvNext
<1>3. MadeInv => OnceOnly
  <2> SUFFICES ASSUME MadeInv, NEW i \in twice PROVE Fragile(i) /\ (i \in hit \/ finished)
    BY DEF OnceOnly
  <2>1. TypeInv /\ TwiceIsHit /\ i \in Executed /\ ~CarefulScript(i)
    BY DEF MadeInv, OnceInv, OnlyCarelessTwice
  <2>2. release.live \/ release.again
    BY <2>1 DEF TwiceIsHit
  <2>3. Fragile(i)
    BY <2>1, <2>2, CarefulUnlessFragile
  <2> QED
    BY <2>1, <2>3 DEF TwiceIsHit
<1> QED
  BY <1>1, <1>2, <1>3, PTL DEF Spec
==============================================================================
