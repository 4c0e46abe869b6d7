--------------------------- MODULE MCVotingEscrow ---------------------------
(***************************************************************************)
(* VotingEscrow for TLC.  A week is two ticks and the longest lock two     *)
(* weeks.  Of the amounts one is below the smallest slope, one is rounded  *)
(* down to a slope of one, and together they have a slope of two.          *)
(***************************************************************************)
EXTENDS VotingEscrow, TLC

CONSTANTS u1, u2

MCUsers       == {u1, u2}
MCValues      == {3, 5}
MCUnlockTimes == {5, 6}
Symmetry      == Permutations(MCUsers)
==============================================================================
