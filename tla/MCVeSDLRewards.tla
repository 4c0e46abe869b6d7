--------------------------- MODULE MCVeSDLRewards ---------------------------
(***************************************************************************)
(* VeSDLRewards for TLC: every order of MaxSteps operations in six ticks   *)
(* of time.  A reward lasts two ticks, a lock at most four; one user hands *)
(* in the rewards.                                                         *)
(***************************************************************************)
EXTENDS VeSDLRewards, TLC

CONSTANTS u1, u2, MaxSteps

VARIABLE steps

MCUsers       == {u1, u2}
MCPayers      == {u1}
MCValues      == {5}
MCUnlockTimes == {4, 6}
MCRewards     == {4}

Operations == now' = now /\ steps < MaxSteps /\ steps' = steps + 1
Passing    == now' = now + 1 /\ UNCHANGED steps

MCInit == Init /\ steps = 0
MCNext == Next /\ (Operations \/ Passing)
MCSpec == MCInit /\ [][MCNext]_<<veVars, rewardVars, steps>>
==============================================================================
