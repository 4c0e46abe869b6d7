----------------------------- MODULE MCStableSwap -----------------------------
(***************************************************************************)
(* The curve's arithmetic on every small pool.  A state is a vector of     *)
(* precision-adjusted balances and an amplification; a step adds Unit      *)
(* to a balance.  The invariants compare the iterations of getD, getY and  *)
(* getYD with the equation they solve.                                     *)
(***************************************************************************)
EXTENDS StableSwap

CONSTANTS
  PoolSizes,    \* numbers of tokens
  MaxBalance,   \* MaxBalance[n] bounds a balance in a pool of n tokens
  MaxSold,      \* bound on what a swap sells
  Unit,         \* how much a step adds to a balance
  Amps,         \* values of A, in units of 1 / Precision
  SwapSlack,    \* what roundings may cost the pool in a swap, in units of D
  YSlack        \* and how far getYD may be from the D it is asked for

VARIABLES xp, a
curve == <<xp, a>>

Tokens == Len(xp)
Index == 1 .. Tokens

Init == (\E n \in PoolSizes : xp = [i \in 1 .. n |-> 1]) /\ a \in Amps

Grow(i) ==
  /\ xp[i] + Unit <= MaxBalance[Tokens]
  /\ xp' = [xp EXCEPT ![i] = @ + Unit]
  /\ UNCHANGED a

Next == \E i \in Index : Grow(i)

Spec == Init /\ [][Next]_curve

-----------------------------------------------------------------------------
(* The StableSwap equation, multiplied out: d is below the invariant of xp *)
(* when Excess(d) < 0, is it when Excess(d) = 0 and above it otherwise.    *)
Product(xs)  == FoldLeft(LAMBDA acc, x : acc * x, 1, xs)
Power(b, k)  == Product([i \in 1 .. k |-> b])
Excess(d) ==
  LET nA == a * Tokens
      k  == Power(Tokens, Tokens) * Product(xp)
  IN  (nA - Precision) * d * k + Precision * Power(d, Tokens + 1) - nA * Total(xp) * k

D == GetD(xp, a)

(* getD converges to the solution of the StableSwap equation, whatever the *)
(* balances and A: it is off by less than two units.                       *)
DSolvesEquation ==
  /\ D \in Nat
  /\ Excess(D + 2) > 0
  /\ D >= 2 => Excess(D - 2) < 0

(* getY leaves the pool at least what the equation asks for: after a swap  *)
(* of dx the pool keeps y + 1, and its invariant has fallen by no more     *)
(* than SwapSlack.                                                         *)
SwapKeepsInvariant ==
  \A i, j \in Index, dx \in 0 .. MaxSold :
    i # j =>
      LET y == GetY(a, i, j, xp[i] + dx, xp)
      IN  /\ y \in Nat
          /\ y + 1 <= xp[j] =>
               GetD([xp EXCEPT ![i] = @ + dx, ![j] = y + 1], a) + SwapSlack >= D

(* getYD answers a balance that has the invariant it was asked for, give   *)
(* or take YSlack: every d from half the present invariant up to it, as a  *)
(* withdrawal in one token asks for.                                       *)
YDReachesD ==
  \A i \in Index, d \in (D \div 2) .. D :
    LET y == GetYD(a, i, xp, d)
    IN  /\ y \in Nat
        /\ y > 0 => Difference(GetD([xp EXCEPT ![i] = y], a), d) <= YSlack

Small == <<1, 16, 8>>
==============================================================================
