---------------------------- MODULE Amplification ----------------------------
(***************************************************************************)
(* The amplification coefficient A of a pool (AmplificationUtils.sol).     *)
(* The owner never sets A: it starts a ramp towards a target, and A moves  *)
(* in a straight line from initialA at initialATime to futureA at          *)
(* futureATime.  A running ramp can be replaced or stopped.  The module    *)
(* also keeps the block timestamp, which every pool operation reads.       *)
(***************************************************************************)
EXTENDS Integers

CONSTANTS
  A_PRECISION,    \* A is stored multiplied by this
  MAX_A,          \* strict upper bound of A
  MAX_A_CHANGE,   \* a ramp multiplies or divides A by at most this
  MIN_RAMP_TIME,  \* the shortest ramp
  ONE_DAY,        \* the shortest time between the starts of two ramps
  InitialAs,      \* values of A a pool is created with; 0 is one the code accepts
  RampTargets,    \* values of A the owner asks for
  Genesis,        \* timestamp of the block that creates the pool
  MaxTime         \* bound: last timestamp a behaviour reaches

ASSUME AmplificationAssumption ==
  /\ A_PRECISION \in Nat \ {0}
  /\ MAX_A \in Nat \ {0}
  /\ MAX_A_CHANGE \in Nat \ {0}
  /\ MIN_RAMP_TIME \in Nat \ {0}
  /\ ONE_DAY \in Nat \ {0}
  /\ InitialAs \subseteq 0 .. (MAX_A - 1)
  /\ RampTargets \subseteq Nat
  /\ Genesis \in Nat
  /\ MaxTime \in Nat

VARIABLES
  now,                        \* block.timestamp
  initialA, futureA,          \* end points of the ramp, times A_PRECISION
  initialATime, futureATime   \* its start and its end

rampVars == <<initialA, futureA, initialATime, futureATime>>
ampVars  == <<now, rampVars>>

(* A mutant: the end of the ramp is not looked at.                         *)
APreciseAtForever(t) ==
  LET elapsed == t - initialATime
      length  == futureATime - initialATime
  IN  IF length = 0 THEN futureA
      ELSE initialA + ((futureA - initialA) * elapsed) \div length

(* A at a time t, in A_PRECISION units.                                    *)
APreciseAt(t) ==
  IF t >= futureATime
    THEN futureA
  ELSE LET elapsed == t - initialATime
           length  == futureATime - initialATime
       IN  IF futureA > initialA
             THEN initialA + ((futureA - initialA) * elapsed) \div length
             ELSE initialA - ((initialA - futureA) * elapsed) \div length

APrecise == APreciseAt(now)

-----------------------------------------------------------------------------
AmpInit ==
  /\ now = Genesis
  /\ \E a \in InitialAs : initialA = a * A_PRECISION /\ futureA = a * A_PRECISION
  /\ initialATime = 0
  /\ futureATime = 0

(* The change a ramp may make is limited by its current value.             *)
AllowedChange(from, to) ==
  IF to < from THEN to * MAX_A_CHANGE >= from
               ELSE to <= from * MAX_A_CHANGE

RampA(futureA_, futureTime_) ==
  LET from == APrecise
      to   == futureA_ * A_PRECISION
  IN  /\ now >= initialATime + ONE_DAY
      /\ futureTime_ >= now + MIN_RAMP_TIME
      /\ futureA_ > 0 /\ futureA_ < MAX_A
      /\ AllowedChange(from, to)
      /\ initialA' = from
      /\ futureA' = to
      /\ initialATime' = now
      /\ futureATime' = futureTime_
      /\ UNCHANGED now

(* A mutant: the line restarts here but keeps its old end.                 *)
StopRampAKeepsEnd ==
  /\ futureATime > now
  /\ initialA' = APrecise
  /\ initialATime' = now
  /\ UNCHANGED <<now, futureA, futureATime>>

StopRampA ==
  /\ futureATime > now
  /\ initialA' = APrecise
  /\ futureA' = APrecise
  /\ initialATime' = now
  /\ futureATime' = now
  /\ UNCHANGED now

(* Blocks are produced: the timestamp advances.                            *)
Tick ==
  /\ now < MaxTime
  /\ now' = now + 1
  /\ UNCHANGED rampVars

AmpNext ==
  \/ \E futureA_ \in RampTargets, futureTime_ \in now .. MaxTime :
        RampA(futureA_, futureTime_)
  \/ StopRampA
  \/ Tick

AmpSpec == AmpInit /\ [][AmpNext]_ampVars

-----------------------------------------------------------------------------
(* The variables have their types.                                         *)
AmpTypeOK ==
  /\ now \in Nat
  /\ initialA \in Nat /\ futureA \in Nat
  /\ initialATime \in Nat /\ futureATime \in Nat

(* The pool was created with _a = 0, and no ramp was ever started in it.   *)
NoCurve ==
  /\ initialA = 0 /\ futureA = 0
  /\ initialATime = 0 /\ futureATime = 0

(* Both ends of a ramp are legal values of A, a ramp that runs started in  *)
(* the past, and it is neither steeper nor shorter than rampA allows.      *)
GentleRamp ==
  /\ initialA \in A_PRECISION .. MAX_A * A_PRECISION
  /\ futureA \in A_PRECISION .. MAX_A * A_PRECISION
  /\ initialATime <= now
  /\ now < futureATime =>
        /\ futureATime - initialATime >= MIN_RAMP_TIME
        /\ AllowedChange(initialA, futureA)

(* Every ramp is a gentle one, and in a pool created with _a = 0 there is  *)
(* never a ramp at all.                                                    *)
RampIsGentle == NoCurve \/ GentleRamp

(* The current A is one that getD can compute with: nA - A_PRECISION does  *)
(* not underflow.                                                          *)
Usable == A_PRECISION <= APrecise /\ APrecise <= MAX_A * A_PRECISION

(* The coefficient the pool's curve is computed with is between 1 and      *)
(* MAX_A at every moment, ramps being replaced and stopped half way        *)
(* included; only a pool created with _a = 0 has none, and it is 0 there   *)
(* for ever.                                                               *)
AIsUsable == Usable \/ (APrecise = 0 /\ NoCurve)

(* AmplificationUtils keeps the promise of SlowParameter: rampA and        *)
(* stopRampA never move the current A, and time moves it slowly.           *)
Slow == INSTANCE SlowParameter WITH
  value  <- APrecise,
  clock  <- now,
  Low    <- A_PRECISION,
  High   <- MAX_A * A_PRECISION,
  Factor <- MAX_A_CHANGE,
  Window <- MIN_RAMP_TIME

ANeverJumps == Slow!Spec
==============================================================================
