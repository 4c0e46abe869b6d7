------------------------------- MODULE MCBridge -------------------------------
(***************************************************************************)
(* Bridge for TLC: three swaps of two users over two pools with different  *)
(* mediums and a third synth.                                              *)
(***************************************************************************)
EXTENDS Bridge, TLC

CONSTANTS u1, u2, p1, p2, sBTC, sUSD, sAAVE

MCMedium      == p1 :> sBTC @@ p2 :> sUSD
MCCorrections == {-2, 0, 1}
UserSymmetry  == Permutations({u1, u2})
==============================================================================
