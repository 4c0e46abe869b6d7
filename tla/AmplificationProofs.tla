-------------------------- MODULE AmplificationProofs --------------------------
(***************************************************************************)
(* Proofs about Amplification, for every value of its constants.  The      *)
(* inductive invariant is RampIsGentle with the types: between its end     *)
(* points a ramp interpolates, so the coefficient it yields is a legal one *)
(* to start the next ramp from; and from the 0 of a pool created with      *)
(* _a = 0 the code allows no ramp to any target.                           *)
(***************************************************************************)
EXTENDS Amplification, ArithmeticLemmas

(* Along a gentle ramp A lies between the end points of the ramp.          *)
LEMMA ABetween ==
  ASSUME AmpTypeOK, GentleRamp, AmplificationAssumption
  PROVE  /\ APrecise \in Nat
         /\ APrecise \in A_PRECISION .. MAX_A * A_PRECISION
<1> DEFINE elapsed == now - initialATime
           length  == futureATime - initialATime
<1>1. MAX_A * A_PRECISION \in Nat /\ A_PRECISION \in Nat
  BY DEF AmplificationAssumption
<1>2. CASE now >= futureATime
  BY <1>1, <1>2 DEF APrecise, APreciseAt, AmpTypeOK, GentleRamp
<1>3. CASE now < futureATime
  <2>1. elapsed \in Nat /\ length \in Nat \ {0} /\ elapsed <= length
    BY <1>3 DEF AmpTypeOK, GentleRamp
  <2> HIDE DEF elapsed, length
  <2>2. CASE futureA > initialA
    <3>1. futureA - initialA \in Nat
      BY <2>2 DEF AmpTypeOK
    <3>2. ((futureA - initialA) * elapsed) \div length \in 0 .. (futureA - initialA)
      BY <2>1, <3>1, PartOf
    <3>3. APrecise = initialA + ((futureA - initialA) * elapsed) \div length
      BY <1>3, <2>2 DEF APrecise, APreciseAt, AmpTypeOK, elapsed, length
    <3> QED BY <1>1, <3>1, <3>2, <3>3 DEF AmpTypeOK, GentleRamp
  <2>3. CASE ~(futureA > initialA)
    <3>1. initialA - futureA \in Nat
      BY <2>3 DEF AmpTypeOK
    <3>2. ((initialA - futureA) * elapsed) \div length \in 0 .. (initialA - futureA)
      BY <2>1, <3>1, PartOf
    <3>3. APrecise = initialA - ((initialA - futureA) * elapsed) \div length
      BY <1>3, <2>3 DEF APrecise, APreciseAt, AmpTypeOK, elapsed, length
    <3> QED BY <1>1, <3>1, <3>2, <3>3 DEF AmpTypeOK, GentleRamp
  <2> QED BY <2>2, <2>3
<1> QED BY <1>2, <1>3 DEF AmpTypeOK

(* In a pool without a curve A is 0.                                       *)
LEMMA NoCurveNoA ==
  ASSUME AmpTypeOK, NoCurve
  PROVE  APrecise = 0
  BY DEF APrecise, APreciseAt, AmpTypeOK, NoCurve

AmpInv == AmpTypeOK /\ RampIsGentle

(* What A is while the invariant holds, now and in the next state.         *)
LegalA ==
  /\ APrecise \in Nat
  /\ GentleRamp => APrecise \in A_PRECISION .. MAX_A * A_PRECISION
  /\ NoCurve => APrecise = 0

LEMMA ABetweenNow == AmpInv => LegalA
  BY ABetween, NoCurveNoA, AmplificationAssumption DEF AmpInv, RampIsGentle, LegalA

LEMMA ABetweenNext == (AmpInv => LegalA)'
  BY ABetweenNow, PTL

LEMMA AmpInvInit ==
  ASSUME AmplificationAssumption, AmpInit
  PROVE  AmpInv
<1> PICK a \in InitialAs : initialA = a * A_PRECISION /\ futureA = a * A_PRECISION
  BY DEF AmpInit
<1>1. a \in 0 .. (MAX_A - 1) /\ MAX_A \in Nat \ {0} /\ A_PRECISION \in Nat \ {0}
  BY DEF AmplificationAssumption
<1>2. AmpTypeOK
  BY <1>1 DEF AmpInit, AmpTypeOK, AmplificationAssumption
<1>3. CASE a = 0
  BY <1>1, <1>2, <1>3 DEF AmpInit, AmpInv, RampIsGentle, NoCurve
<1>4. CASE a # 0
  <2>1. a * A_PRECISION \in A_PRECISION .. MAX_A * A_PRECISION
    BY <1>1, <1>4, SMT
  <2> QED
    BY <1>2, <2>1 DEF AmpInit, AmpInv, AmpTypeOK, RampIsGentle, GentleRamp,
                      AmplificationAssumption
<1> QED BY <1>3, <1>4

(* rampA asks for a positive target, and from 0 no change to one is        *)
(* allowed.                                                                *)
LEMMA NoRampFromZero ==
  ASSUME AmplificationAssumption, NEW to \in Nat, to > 0
  PROVE  ~AllowedChange(0, to)
<1>1. ~(to < 0) /\ 0 * MAX_A_CHANGE = 0
  BY DEF AmplificationAssumption
<1> QED BY <1>1 DEF AllowedChange

(* Every operation on the ramp and every new block keep the invariant, and *)
(* a pool without a curve stays one, as a pool with a curve does.          *)
LEMMA AmpInvNext ==
  ASSUME AmplificationAssumption, AmpInv, [AmpNext]_ampVars
  PROVE  /\ AmpInv'
         /\ NoCurve => NoCurve'
         /\ GentleRamp => GentleRamp'
<1> USE DEF AmpInv
<1>0. LegalA
  BY ABetweenNow
<1>1. ASSUME NEW futureA_ \in RampTargets, NEW futureTime_ \in now .. MaxTime,
             RampA(futureA_, futureTime_)
      PROVE  AmpTypeOK' /\ ~NoCurve /\ GentleRamp'
  <2>1. futureA_ \in Nat /\ futureTime_ \in Nat /\ MAX_A \in Nat /\ A_PRECISION \in Nat \ {0}
    BY DEF AmplificationAssumption, AmpTypeOK
  <2>2. futureA_ > 0 /\ futureA_ < MAX_A
    BY <1>1 DEF RampA
  <2>3. /\ futureA_ * A_PRECISION \in A_PRECISION .. MAX_A * A_PRECISION
        /\ futureA_ * A_PRECISION > 0
    BY <2>1, <2>2, SMT
  <2>4. futureA_ * A_PRECISION \in Nat
    BY <2>1
  <2>5. /\ initialA' = APrecise
        /\ futureA' = futureA_ * A_PRECISION
        /\ initialATime' = now
        /\ futureATime' = futureTime_
        /\ now' = now
        /\ futureTime_ >= now + MIN_RAMP_TIME
        /\ AllowedChange(APrecise, futureA_ * A_PRECISION)
    BY <1>1 DEF RampA
  <2>6. AmpTypeOK'
    BY <1>0, <2>1, <2>4, <2>5 DEF AmpTypeOK, LegalA
  <2>7. AllowedChange(initialA, futureA)'
    BY <2>5 DEF AllowedChange
  <2>8. ~NoCurve
    <3>1. ~AllowedChange(0, futureA_ * A_PRECISION)
      BY <2>3, <2>4, NoRampFromZero
    <3> QED BY <1>0, <2>5, <3>1 DEF LegalA
  <2>9. APrecise \in A_PRECISION .. MAX_A * A_PRECISION
    BY <1>0, <2>8 DEF LegalA, RampIsGentle
  <2>10. GentleRamp'
    BY <2>1, <2>3, <2>5, <2>7, <2>9 DEF GentleRamp, AmpTypeOK, AmplificationAssumption
  <2> QED BY <2>6, <2>8, <2>10
<1>2. ASSUME StopRampA PROVE AmpTypeOK' /\ ~NoCurve /\ GentleRamp'
  <2>1. ~NoCurve
    BY <1>2 DEF StopRampA, NoCurve, AmpTypeOK
  <2>2. GentleRamp /\ APrecise \in A_PRECISION .. MAX_A * A_PRECISION /\ APrecise \in Nat
    BY <1>0, <2>1 DEF LegalA, RampIsGentle
  <2> QED BY <1>2, <2>1, <2>2 DEF StopRampA, AmpTypeOK, GentleRamp
<1>3. CASE Tick
  BY <1>3 DEF Tick, rampVars, AmpTypeOK, RampIsGentle, GentleRamp, NoCurve, AllowedChange
<1>4. CASE UNCHANGED ampVars
  BY <1>4 DEF ampVars, rampVars, AmpTypeOK, RampIsGentle, GentleRamp, NoCurve, AllowedChange
<1> QED BY <1>1, <1>2, <1>3, <1>4 DEF AmpNext, RampIsGentle

(* The types and the shape of the ramp are invariants: for any _a the      *)
(* constructor accepts, every ramp is between legal values of A, long      *)
(* enough and not too steep, and a pool created with _a = 0 never has one. *)
THEOREM RampAlwaysGentle == AmpSpec => [](AmpTypeOK /\ RampIsGentle)
<1> USE AmplificationAssumption
<1>1. AmpInit => AmpInv
  BY AmpInvInit
<1>2. AmpInv /\ [AmpNext]_ampVars => AmpInv'
  BY AmpInvNext
<1>3. AmpInv => AmpTypeOK /\ RampIsGentle
  BY DEF AmpInv
<1> QED BY <1>1, <1>2, <1>3, PTL DEF AmpSpec

(* However ramps are started, replaced and stopped, the coefficient the    *)
(* curve is computed with stays between 1 and MAX_A; or it is 0 because    *)
(* the pool was created so, and stays 0.                                   *)
THEOREM AAlwaysUsable == AmpSpec => []AIsUsable
<1>1. AmpTypeOK /\ RampIsGentle => AIsUsable
  <2> SUFFICES ASSUME AmpTypeOK, RampIsGentle PROVE AIsUsable
    OBVIOUS
  <2>1. LegalA
    BY ABetweenNow DEF AmpInv
  <2>2. MAX_A * A_PRECISION \in Nat /\ A_PRECISION \in Nat
    BY AmplificationAssumption DEF AmplificationAssumption
  <2>3. CASE NoCurve
    BY <2>1, <2>3 DEF AIsUsable, LegalA
  <2>4. CASE GentleRamp
    <3>1. APrecise \in A_PRECISION .. MAX_A * A_PRECISION
      BY <2>1, <2>4 DEF LegalA
    <3> QED BY <2>2, <3>1 DEF AIsUsable, Usable
  <2> QED BY <2>3, <2>4 DEF RampIsGentle
<1> QED BY <1>1, AmplificationAssumption, RampAlwaysGentle, PTL

-----------------------------------------------------------------------------
(* Passing from one second to the next moves A slowly.                     *)
LEMMA TickMovesSlowly ==
  ASSUME AmplificationAssumption, AmpInv, AmpInv', GentleRamp, Tick
  PROVE  MIN_RAMP_TIME * (Slow!Distance(APrecise, APrecise') - 1)
           <= MAX_A_CHANGE * APrecise * (now' - now)
<1> USE DEF AmpInv
<1> DEFINE A == APrecise
           B == APrecise'
           n == now - initialATime
           m == futureATime - initialATime
<1>1. now' = now + 1 /\ initialA' = initialA /\ futureA' = futureA
      /\ initialATime' = initialATime /\ futureATime' = futureATime
  BY DEF Tick, rampVars
<1>2. A \in Nat /\ B \in Nat
  <2>1. A \in Nat
    BY ABetweenNow DEF LegalA
  <2>2. APrecise' \in Nat
    BY ABetweenNext DEF LegalA
  <2> QED BY <2>1, <2>2
<1>3. MAX_A_CHANGE * A * (now' - now) = MAX_A_CHANGE * A
      /\ MAX_A_CHANGE * A \in Nat /\ MIN_RAMP_TIME \in Nat \ {0}
  <2>1. now' - now = 1 /\ MAX_A_CHANGE \in Nat
    BY <1>1 DEF AmpTypeOK, AmplificationAssumption
  <2> HIDE DEF A
  <2> QED BY <2>1, <1>2, SMT DEF AmplificationAssumption
<1>4. CASE now >= futureATime
  <2>1. A = futureA /\ B = futureA
    BY <1>1, <1>4 DEF APrecise, APreciseAt, AmpTypeOK
  <2>2. Slow!Distance(A, B) = 0
    BY <2>1 DEF Slow!Distance, AmpTypeOK
  <2>3. MIN_RAMP_TIME * (0 - 1) <= 0
    BY <1>3, SMT
  <2> QED BY <1>2, <1>3, <2>2, <2>3, SMT
<1>5. CASE now < futureATime
  <2>1. n \in Nat /\ m \in Nat \ {0} /\ n + 1 <= m /\ m >= MIN_RAMP_TIME
    BY <1>3, <1>5 DEF AmpTypeOK, GentleRamp
  <2>2. ASSUME NEW x \in Nat, x <= MAX_A_CHANGE * A,
               Slow!Distance(A, B) = (x * (n + 1)) \div m - (x * n) \div m
        PROVE  MIN_RAMP_TIME * (Slow!Distance(A, B) - 1) <= MAX_A_CHANGE * A
    <3> DEFINE d == Slow!Distance(A, B)
    <3>1. d \in Nat /\ m * (d - 1) <= x
      <4> DEFINE q == (x * n) \div m
                 r == (x * (n + 1)) \div m
      <4>1. q \in Nat /\ r \in Nat /\ q <= r /\ m * (r - q - 1) <= x
        BY <2>1, StepOf
      <4> HIDE DEF q, r
      <4>2. d = r - q
        BY <2>2 DEF q, r
      <4> QED BY <4>1, <4>2
    <3> HIDE DEF d, A, m
    <3>2. MIN_RAMP_TIME * (d - 1) <= x
      <4>1. CASE d = 0
        BY <4>1, <1>3, SMT
      <4>2. CASE d > 0
        <5>1. MIN_RAMP_TIME * (d - 1) <= m * (d - 1)
          BY <4>2, <3>1, <2>1, <1>3, SMT
        <5>2. MIN_RAMP_TIME * (d - 1) \in Int /\ m * (d - 1) \in Int
          BY <3>1, <2>1, <1>3
        <5> QED BY <5>1, <5>2, <3>1, SMT
      <4> QED BY <3>1, <4>1, <4>2
    <3>3. MIN_RAMP_TIME * (d - 1) \in Int
      BY <3>1, <1>3
    <3> QED BY <1>3, <2>2, <3>2, <3>3, SMT DEF d
  <2>3. CASE futureA > initialA
    <3> DEFINE x == futureA - initialA
    <3>1. x \in Nat
      BY <2>3 DEF AmpTypeOK
    <3>2. A = initialA + (x * n) \div m
      BY <1>5, <2>3 DEF APrecise, APreciseAt, AmpTypeOK
    <3>3. B = initialA + (x * (n + 1)) \div m
      <4>1. CASE now + 1 < futureATime
        <5>1. now + 1 - initialATime = n + 1
          BY DEF AmpTypeOK
        <5> QED BY <1>1, <4>1, <5>1, <2>3 DEF APrecise, APreciseAt, AmpTypeOK
      <4>2. CASE now + 1 >= futureATime
        <5>1. n + 1 = m
          BY <4>2, <2>1 DEF AmpTypeOK
        <5>2. B = futureA
          BY <1>1, <4>2 DEF APrecise, APreciseAt, AmpTypeOK
        <5>3. (x * m) \div m = x
          BY <2>1, <3>1, RampEnd
        <5> QED BY <5>1, <5>2, <5>3 DEF AmpTypeOK
      <4> QED BY <4>1, <4>2 DEF AmpTypeOK
    <3>4. Slow!Distance(A, B) = (x * (n + 1)) \div m - (x * n) \div m
      <4> DEFINE q == (x * n) \div m
                 r == (x * (n + 1)) \div m
      <4>1. q \in Nat /\ r \in Nat /\ q <= r
        BY <2>1, <3>1, StepOf
      <4>2. A = initialA + q /\ B = initialA + r
        BY <3>2, <3>3
      <4> HIDE DEF q, r, A, B
      <4>3. Slow!Distance(A, B) = r - q
        BY <4>1, <4>2 DEF Slow!Distance, AmpTypeOK
      <4> QED BY <4>3 DEF q, r
    <3>5. x <= MAX_A_CHANGE * A
      <4>1. futureA <= initialA * MAX_A_CHANGE
        BY <1>5, <2>3 DEF GentleRamp, AllowedChange, AmpTypeOK
      <4>2. (x * n) \div m \in Nat
        BY <2>1, <3>1, StepOf
      <4>3. initialA <= A /\ initialA \in Nat /\ futureA \in Nat
        BY <3>2, <4>2 DEF AmpTypeOK
      <4> HIDE DEF A
      <4>4. MAX_A_CHANGE * initialA <= MAX_A_CHANGE * A
        BY <4>3, <1>2, SMT DEF AmplificationAssumption
      <4> QED BY <4>1, <4>3, <4>4, <1>2, SMT DEF AmplificationAssumption
    <3> HIDE DEF x
    <3> QED BY <2>2, <3>1, <3>4, <3>5, <1>3
  <2>4. CASE ~(futureA > initialA)
    <3> DEFINE x == initialA - futureA
    <3>1. x \in Nat
      BY <2>4 DEF AmpTypeOK
    <3>2. A = initialA - (x * n) \div m
      BY <1>5, <2>4 DEF APrecise, APreciseAt, AmpTypeOK
    <3>3. B = initialA - (x * (n + 1)) \div m
      <4>1. CASE now + 1 < futureATime
        <5>1. now + 1 - initialATime = n + 1
          BY DEF AmpTypeOK
        <5> QED BY <1>1, <4>1, <5>1, <2>4 DEF APrecise, APreciseAt, AmpTypeOK
      <4>2. CASE now + 1 >= futureATime
        <5>1. n + 1 = m
          BY <4>2, <2>1 DEF AmpTypeOK
        <5>2. B = futureA
          BY <1>1, <4>2 DEF APrecise, APreciseAt, AmpTypeOK
        <5>3. (x * m) \div m = x
          BY <2>1, <3>1, RampEnd
        <5> QED BY <5>1, <5>2, <5>3 DEF AmpTypeOK
      <4> QED BY <4>1, <4>2 DEF AmpTypeOK
    <3>4. Slow!Distance(A, B) = (x * (n + 1)) \div m - (x * n) \div m
      <4> DEFINE q == (x * n) \div m
                 r == (x * (n + 1)) \div m
      <4>1. q \in Nat /\ r \in Nat /\ q <= r
        BY <2>1, <3>1, StepOf
      <4>2. A = initialA - q /\ B = initialA - r
        BY <3>2, <3>3
      <4> HIDE DEF q, r, A, B
      <4>3. Slow!Distance(A, B) = r - q
        BY <4>1, <4>2 DEF Slow!Distance, AmpTypeOK
      <4> QED BY <4>3 DEF q, r
    <3>5. x <= MAX_A_CHANGE * A
      <4>1. initialA <= futureA * MAX_A_CHANGE
        BY <1>5, <2>4 DEF GentleRamp, AllowedChange, AmpTypeOK, AmplificationAssumption
      <4>2. (x * n) \div m \in 0 .. x
        BY <2>1, <3>1, PartOf
      <4>3. futureA <= A /\ initialA \in Nat /\ futureA \in Nat
        BY <3>2, <4>2 DEF AmpTypeOK
      <4> HIDE DEF A
      <4>4. MAX_A_CHANGE * futureA <= MAX_A_CHANGE * A
        BY <4>3, <1>2, SMT DEF AmplificationAssumption
      <4> QED BY <4>1, <4>3, <4>4, <1>2, SMT DEF AmplificationAssumption
    <3> HIDE DEF x
    <3> QED BY <2>2, <3>1, <3>4, <3>5, <1>3
  <2> QED BY <2>3, <2>4, <1>3
<1> QED BY <1>4, <1>5 DEF AmpTypeOK

(* Starting a ramp, replacing one or stopping it leaves A where it is.     *)
LEMMA OwnerCannotMoveA ==
  ASSUME AmplificationAssumption, AmpInv,
         StopRampA \/ \E futureA_ \in RampTargets, futureTime_ \in now .. MaxTime :
                         RampA(futureA_, futureTime_)
  PROVE  APrecise' = APrecise /\ now' = now
<1> USE DEF AmpInv
<1>0. APrecise \in Nat
  BY ABetweenNow DEF LegalA
<1>1. CASE StopRampA
  BY <1>1 DEF StopRampA, APrecise, APreciseAt, AmpTypeOK
<1>2. ASSUME NEW futureA_ \in RampTargets, NEW futureTime_ \in now .. MaxTime,
             RampA(futureA_, futureTime_)
      PROVE  APrecise' = APrecise /\ now' = now
  <2> DEFINE A == APrecise
             to == futureA_ * A_PRECISION
             m  == futureTime_ - now
  <2>1. /\ initialA' = A /\ futureA' = to /\ initialATime' = now
        /\ futureATime' = futureTime_ /\ now' = now
        /\ futureTime_ \in Nat /\ to \in Nat /\ m \in Nat \ {0} /\ now < futureTime_
    BY <1>2 DEF RampA, AmpTypeOK, AmplificationAssumption
  <2>2. now - now = 0
    BY DEF AmpTypeOK
  <2> HIDE DEF A, to, m
  <2>3. APrecise' = IF to > A THEN A + ((to - A) * 0) \div m ELSE A - ((A - to) * 0) \div m
    BY <2>1, <2>2 DEF APrecise, APreciseAt, AmpTypeOK, m
  <2>4. CASE to > A
    <3>1. ((to - A) * 0) \div m = 0
      BY <2>1, <2>4, <1>0, RampStart DEF A
    <3> QED BY <2>1, <2>3, <2>4, <3>1, <1>0 DEF A
  <2>5. CASE ~(to > A)
    <3>1. ((A - to) * 0) \div m = 0
      BY <2>1, <2>5, <1>0, RampStart DEF A
    <3> QED BY <2>1, <2>3, <2>5, <3>1, <1>0 DEF A
  <2> QED BY <2>4, <2>5
<1> QED BY <1>1, <1>2

(* AmplificationUtils implements SlowParameter: neither rampA nor          *)
(* stopRampA makes A jump, and no second moves it by more than the         *)
(* fraction MAX_A_CHANGE / MIN_RAMP_TIME of itself, or out of 0 or to 0.   *)
THEOREM AmplificationIsSlow == AmpSpec => ANeverJumps
<1> USE AmplificationAssumption
<1>1. AmpInit => Slow!Init
  <2> HAVE AmpInit
  <2>1. AmpInv
    BY AmpInvInit
  <2>2. APrecise \in {0} \cup A_PRECISION .. MAX_A * A_PRECISION
    BY <2>1, ABetweenNow DEF AmpInv, RampIsGentle, LegalA
  <2> QED BY <2>1, <2>2 DEF Slow!Init, AmpInv, AmpTypeOK
<1>2. AmpInv /\ AmpInv' /\ [AmpNext]_ampVars => [Slow!Drift]_<<APrecise, now>>
  <2> SUFFICES ASSUME AmpInv, AmpInv', [AmpNext]_ampVars
               PROVE  Slow!Drift \/ (APrecise' = APrecise /\ now' = now)
    OBVIOUS
  <2>0. /\ NoCurve => NoCurve'
        /\ GentleRamp => GentleRamp'
    BY AmpInvNext
  <2>1. CASE Tick
    <3>1. now' \in Nat /\ now' > now /\ now' = now + 1 /\ now \in Nat
      BY <2>1 DEF Tick, AmpInv, AmpTypeOK
    <3>2. CASE GentleRamp
      <4>1. APrecise' \in A_PRECISION .. MAX_A * A_PRECISION
        BY <2>0, <3>2, ABetweenNext DEF LegalA
      <4>2. APrecise # 0
        BY <3>2, ABetweenNow DEF LegalA, AmplificationAssumption
      <4> QED BY <2>1, <3>1, <3>2, <4>1, <4>2, TickMovesSlowly DEF Slow!Drift
    <3>3. CASE NoCurve
      <4>1. APrecise = 0 /\ APrecise' = 0
        BY <2>0, <3>3, ABetweenNow, ABetweenNext DEF LegalA
      <4>2. MIN_RAMP_TIME * (0 - 1) <= 0 /\ MAX_A_CHANGE * 0 * (now' - now) = 0
        BY <3>1, SMT DEF AmplificationAssumption
      <4>3. Slow!Distance(APrecise, APrecise') = 0
        BY <4>1 DEF Slow!Distance
      <4> QED BY <3>1, <4>1, <4>2, <4>3 DEF Slow!Drift
    <3> QED BY <3>2, <3>3 DEF AmpInv, RampIsGentle
  <2>2. CASE UNCHANGED ampVars
    BY <2>2 DEF ampVars, rampVars, APrecise, APreciseAt
  <2> QED BY <2>1, <2>2, OwnerCannotMoveA DEF AmpNext
<1>3. AmpInit => AmpInv
  BY AmpInvInit
<1>4. AmpInv /\ [AmpNext]_ampVars => AmpInv'
  BY AmpInvNext
<1> QED BY <1>1, <1>2, <1>3, <1>4, PTL DEF AmpSpec, ANeverJumps, Slow!Spec
==============================================================================
