------------------------------ MODULE StableSwap ------------------------------
(***************************************************************************)
(* The arithmetic of the StableSwap curve (the pure functions of           *)
(* SwapUtils.sol).  Numbers are the contract's unsigned integers, with its *)
(* rounding: every division rounds down, and every iteration stops when    *)
(* two successive approximations differ by at most one.                    *)
(*                                                                         *)
(* A call that would revert (a division by zero, an underflow, no          *)
(* convergence) yields Reverts, which is no unsigned integer: callers      *)
(* require the result to be in Nat.                                        *)
(***************************************************************************)
EXTENDS Integers, Sequences, SequencesExt

CONSTANTS
  Precision,       \* AmplificationUtils.A_PRECISION
  MAX_LOOP_LIMIT   \* iterations after which an approximation is given up

Reverts == -1

Difference(a, b) == IF a > b THEN a - b ELSE b - a

Within1(a, b) == Difference(a, b) <= 1

Total(xs) == FoldLeft(+, 0, xs)

(* A mutant: n is forgotten.                                               *)
ScaleByBalance(d, xs, n) == FoldLeft(LAMBDA acc, x : (acc * d) \div x, d, xs)

(* d multiplied by d / (n * x) for every x, rounding down each time.       *)
Scale(d, xs, n) == FoldLeft(LAMBDA acc, x : (acc * d) \div (x * n), d, xs)

(* One step of Newton's method towards the invariant of xp, from d.        *)
BetterD(xp, a, d) ==
  LET n  == Len(xp)
      nA == a * n
      dP == Scale(d, xp, n)
      denominator == ((nA - Precision) * d) \div Precision + (n + 1) * dP
  IN  IF denominator = 0
        THEN Reverts
        ELSE (((nA * Total(xp)) \div Precision + dP * n) * d) \div denominator

(* The steps of getD's loop, which begins at the sum of the balances.      *)
ApproximateD(xp, a) ==
  LET approximate[k \in Nat, d \in Nat] ==
        LET Continue(next) == IF next = Reverts \/ Within1(next, d)
                                THEN next
                                ELSE approximate[k + 1, next]
        IN  IF k = MAX_LOOP_LIMIT THEN Reverts ELSE Continue(BetterD(xp, a, d))
  IN  approximate[0, Total(xp)]

(* A mutant: nA - A_PRECISION is not checked for underflow.                *)
GetDUnchecked(xp, a) ==
  IF Total(xp) = 0 THEN 0
  ELSE IF \E i \in DOMAIN xp : xp[i] = 0 THEN Reverts
  ELSE ApproximateD(xp, a)

(* SwapUtils.getD: the invariant D of the balances xp, by Newton's method. *)
GetD(xp, a) ==
  IF Total(xp) = 0 THEN 0
  ELSE IF a * Len(xp) < Precision \/ \E i \in DOMAIN xp : xp[i] = 0 THEN Reverts
  ELSE ApproximateD(xp, a)

(* The balance of the one remaining token that gives the invariant d when  *)
(* the other tokens have the balances xs: the second half of getY and of   *)
(* getYD, which differ only in the xs and the d they use.                  *)
SolveY(a, xs, d) ==
  LET n  == Len(xs) + 1
      nA == a * n
      Approximate(b, c) ==
        LET approximate[k \in Nat, y \in Nat] ==
              LET Continue(next) ==
                    IF Within1(next, y) THEN next ELSE approximate[k + 1, next]
              IN  IF k = MAX_LOOP_LIMIT \/ 2 * y + b <= d
                    THEN Reverts
                    ELSE Continue((y * y + c) \div (2 * y + b - d))
        IN  approximate[0, d]
  IN  IF nA = 0 \/ \E i \in DOMAIN xs : xs[i] = 0
        THEN Reverts
        ELSE Approximate(Total(xs) + (d * Precision) \div nA,
                         (Scale(d, xs, n) * d * Precision) \div (nA * n))

(* A mutant: always the first token.                                       *)
GetYDOfFirst(a, i, xp, d) == SolveY(a, RemoveAt(xp, 1), d)

(* SwapUtils.getYD: the balance of token i that brings the invariant to d. *)
GetYD(a, i, xp, d) == SolveY(a, RemoveAt(xp, i), d)

(* A mutant: the tokens are swapped.                                       *)
GetYOfSold(a, i, j, x, xp) ==
  LET Solve(d) == IF d = Reverts \/ i = j
                    THEN Reverts
                    ELSE SolveY(a, RemoveAt([xp EXCEPT ![i] = x], i), d)
  IN  Solve(GetD(xp, a))

(* SwapUtils.getY: the balance of token j that keeps the invariant of xp   *)
(* when the balance of token i becomes x.                                  *)
GetY(a, i, j, x, xp) ==
  LET Solve(d) == IF d = Reverts \/ i = j
                    THEN Reverts
                    ELSE SolveY(a, RemoveAt([xp EXCEPT ![i] = x], j), d)
  IN  Solve(GetD(xp, a))

(* SwapUtils._feePerToken: the share of an imbalance that is charged.      *)
FeePerToken(fee, n) == (fee * n) \div ((n - 1) * 4)
==============================================================================
