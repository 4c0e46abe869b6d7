---------------------------- MODULE SlowParameter ----------------------------
(***************************************************************************)
(* What the holders of a pool are promised about its amplification         *)
(* coefficient: it stays between two limits and it never jumps.  It can    *)
(* change only as time passes, and in d seconds by no more than the        *)
(* fraction Factor * d / Window of its current value (plus one unit of     *)
(* rounding).  Whoever steers the parameter has no other power over it.    *)
(* A parameter that begins as 0, of which every fraction is 0, stays 0;    *)
(* no other becomes 0.                                                     *)
(***************************************************************************)
EXTENDS Integers

CONSTANTS
  Low, High,    \* the limits of the value
  Factor,       \* the largest relative change ...
  Window        \* ... in a span of time of this length

VARIABLES value, clock

Distance(x, y) == IF x > y THEN x - y ELSE y - x

Init == value \in {0} \cup Low .. High /\ clock \in Nat

(* Time passes and the value drifts, at a bounded speed.                   *)
Drift ==
  /\ clock' \in Nat
  /\ clock' > clock
  /\ value' \in IF value = 0 THEN {0} ELSE Low .. High
  /\ Window * (Distance(value, value') - 1) <= Factor * value * (clock' - clock)

Spec == Init /\ [][Drift]_<<value, clock>>
==============================================================================
