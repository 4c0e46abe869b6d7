---------------------------- MODULE MCChildGauge ----------------------------
(***************************************************************************)
(* ChildGauge for TLC: two users, weeks of three ticks, three weeks of     *)
(* which the first two can end; every order of MaxSteps operations.        *)
(***************************************************************************)
EXTENDS ChildGauge, TLC

CONSTANTS u1, u2, MaxSteps

VARIABLE steps

MCUsers      == {u1, u2}
ToSelf       == [u \in MCUsers |-> {u}]
ToAnybody    == [u \in MCUsers |-> MCUsers]
MCAmounts    == {5}
MCEmissions  == {0, 7}
MCVeBalances == {0, 1}
MCVeTotals   == {2}

UserSymmetry == Permutations(MCUsers)

Operations == now' = now /\ steps < MaxSteps /\ steps' = steps + 1
Passing    == now' = now + 1 /\ UNCHANGED steps

MCInit == Init /\ steps = 0
MCNext == Next /\ (Operations \/ Passing)
MCSpec == MCInit /\ [][MCNext]_<<cgVars, steps>>
==============================================================================
