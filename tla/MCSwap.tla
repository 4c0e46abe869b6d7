-------------------------------- MODULE MCSwap --------------------------------
(***************************************************************************)
(* Swap for TLC: the first MaxSteps operations on a new pool of two tokens.*)
(* Token amounts are small and their precision multipliers make them 10 to *)
(* 20 times finer in the curve's arithmetic, as the multipliers of real    *)
(* tokens do; fees are a larger part of FEE_DENOMINATOR than in the code,  *)
(* so that they do not round to zero.                                      *)
(***************************************************************************)
EXTENDS Swap

CONSTANTS u1, u2, owner, MaxSteps

VARIABLE steps

MCInit == Init /\ steps = 0
MCNext == steps < MaxSteps /\ steps' = steps + 1 /\ Next
MCSpec == MCInit /\ [][MCNext]_<<vars, steps>>

UserSymmetry == Permutations(Users)

Zeros       == {0}
None        == {}
TwoAs       == {2}
ZeroOrTwo   == {0, 2}
Even        == <<10, 10>>
Uneven      == <<5, 20>>
NoFee       == <<0, 0>>
SecondKeeps == <<0, 1>>
SomeFee     == {30}
Fees        == {0, 30, 50}
MidAdmin    == {50}
HalfOrAll   == {50, 100}
Three       == {3}
Vectors     == {<<4, 4>>, <<1, 3>>}
OneSided    == {<<6, 2>>, <<0, 3>>}
AllOrHalf   == {1, 2}
Ramps       == {1, 3, 4}
==============================================================================
