--------------------------- MODULE ArithmeticLemmas ---------------------------
(***************************************************************************)
(* What the proofs need of arithmetic.  First, unsigned integer division,  *)
(* which rounds down, as the contracts use it: shares of an amount, fees,  *)
(* points of a ramp.  Second, sums over finite sets: balances, stakes and  *)
(* rewards of all users together.                                          *)
(*                                                                         *)
(* A sum is a recursion over the subsets of its index set.  What it gives  *)
(* is shown by induction, in the form that a family of sets (of numbers)   *)
(* that has an element outside it has a smallest one outside it.           *)
(***************************************************************************)
EXTENDS Integers, Functions, FiniteSetTheorems, TLAPS


(* Rounding down a quotient: the two inequalities that define it.          *)
LEMMA DivDef ==
  ASSUME NEW a \in Nat, NEW m \in Nat \ {0}
  PROVE  /\ a \div m \in Nat
         /\ m * (a \div m) <= a
         /\ a < m * (a \div m) + m
  BY SMT

(* The part of x that has been covered after n of m steps is at most x:    *)
(* a fee or a share never exceeds its whole.                               *)
LEMMA PartOf ==
  ASSUME NEW x \in Nat, NEW n \in Nat, NEW m \in Nat \ {0}, n <= m
  PROVE  (x * n) \div m \in 0 .. x
<1> DEFINE q == (x * n) \div m
<1>1. x * n \in Nat /\ x * n <= x * m
  BY SMT
<1>2. q \in Nat /\ m * q <= x * n
  BY <1>1, DivDef
<1>3. ~(q >= x + 1)
  <2>1. SUFFICES ASSUME q >= x + 1 PROVE FALSE
    OBVIOUS
  <2> HIDE DEF q
  <2>2. m * q >= m * (x + 1)
    BY <1>2, <2>1, SMT
  <2>3. m * (x + 1) = x * m + m
    BY SMT
  <2> QED BY <1>1, <1>2, <2>2, <2>3, SMT
<1> QED BY <1>2, <1>3

(* One more of m steps covers at most x/m more of x, up to rounding.       *)
LEMMA StepOf ==
  ASSUME NEW x \in Nat, NEW n \in Nat, NEW m \in Nat \ {0}
  PROVE  LET q == (x * n) \div m
             r == (x * (n + 1)) \div m
         IN  /\ q \in Nat /\ r \in Nat
             /\ q <= r
             /\ m * (r - q - 1) <= x
<1> DEFINE q == (x * n) \div m
           r == (x * (n + 1)) \div m
<1>1. x * n \in Nat /\ x * (n + 1) \in Nat /\ x * (n + 1) = x * n + x
  BY SMT
<1>2. q \in Nat /\ m * q <= x * n /\ x * n < m * q + m
  BY <1>1, DivDef
<1>3. r \in Nat /\ m * r <= x * n + x /\ x * n + x < m * r + m
  BY <1>1, DivDef
<1> HIDE DEF q, r
<1>4. q <= r
  <2>1. SUFFICES ASSUME q >= r + 1 PROVE FALSE
    BY <1>2, <1>3
  <2>2. m * q >= m * (r + 1) /\ m * (r + 1) = m * r + m
    BY <2>1, <1>2, <1>3, SMT
  <2> QED BY <2>2, <1>2, <1>3, <1>1, SMT
<1>5. m * (r - q - 1) = m * r - m * q - m
  BY <1>2, <1>3, SMT
<1>6. m * (r - q - 1) <= x
  <2>1. m * r \in Nat /\ m * q \in Nat /\ x * n \in Nat
    BY <1>1, <1>2, <1>3
  <2> QED BY <2>1, <1>2, <1>3, <1>5, SMT
<1> QED BY <1>2, <1>3, <1>4, <1>6 DEF q, r

(* At its start a ramp has its first value.                                *)
LEMMA RampStart ==
  ASSUME NEW x \in Nat, NEW m \in Nat \ {0}
  PROVE  (x * 0) \div m = 0
<1>1. x * 0 = 0
  BY SMT
<1>2. 0 \div m = 0
  BY DivDef, SMT
<1> QED BY <1>1, <1>2

(* At its end a ramp has covered everything.                               *)
LEMMA RampEnd ==
  ASSUME NEW x \in Nat, NEW m \in Nat \ {0}
  PROVE  (x * m) \div m = x
<1>1. x * m \in Nat /\ x * m = m * x
  BY SMT
<1> DEFINE q == (x * m) \div m
<1>2. q \in Nat /\ m * q <= m * x /\ m * x < m * q + m
  BY <1>1, DivDef
<1> HIDE DEF q
<1>3. ~(q >= x + 1)
  BY <1>2, PartOf DEF q
<1>4. ~(x >= q + 1)
  <2>1. SUFFICES ASSUME x >= q + 1 PROVE FALSE
    OBVIOUS
  <2>2. m * x >= m * (q + 1) /\ m * (q + 1) = m * q + m
    BY <2>1, <1>2, SMT
  <2> QED BY <2>2, <1>2, <1>1, SMT
<1> QED BY <1>2, <1>3, <1>4 DEF q

(* Taking the share a/s of b, rounded down, leaves at least what is due to *)
(* the others.                                                             *)
LEMMA RestKeepsProRata ==
  ASSUME NEW b \in Nat, NEW s \in Nat \ {0}, NEW a \in Nat, a <= s
  PROVE  (b - (b * a) \div s) * s >= b * (s - a)
<1> DEFINE q == (b * a) \div s
<1>1. b * a \in Nat
  BY SMT
<1>2. q \in Nat /\ s * q <= b * a
  BY <1>1, DivDef
<1> HIDE DEF q
<1>3. (b - q) * s = b * s - s * q
  BY <1>2, SMT
<1>4. b * (s - a) = b * s - b * a
  BY SMT
<1>5. b * s \in Nat /\ s * q \in Nat
  BY <1>2, SMT
<1> QED BY <1>1, <1>2, <1>3, <1>4, <1>5, SMT DEF q

(* Rounded down, a part of b * m less than all of it is less than b.       *)
LEMMA QuotientBelow ==
  ASSUME NEW x \in Nat, NEW b \in Nat, NEW m \in Nat \ {0}, x < b * m
  PROVE  x \div m \in Nat /\ x \div m < b
<1> DEFINE q == x \div m
<1>1. q \in Nat /\ m * q <= x
  BY DivDef
<1> HIDE DEF q
<1>2. ~(q >= b)
  <2>1. SUFFICES ASSUME q >= b PROVE FALSE
    OBVIOUS
  <2>2. m * q >= m * b /\ m * b = b * m /\ m * q \in Nat /\ b * m \in Nat
    BY <1>1, <2>1
  <2> QED BY <1>1, <2>2
<1> QED BY <1>1, <1>2 DEF q

(* As much as all of it, rounded down, is at most b.                       *)
LEMMA QuotientAtMost ==
  ASSUME NEW x \in Nat, NEW b \in Nat, NEW m \in Nat \ {0}, x <= b * m
  PROVE  x \div m \in Nat /\ x \div m <= b
<1> DEFINE q == x \div m
<1>1. q \in Nat /\ m * q <= x
  BY DivDef
<1> HIDE DEF q
<1>2. ~(q >= b + 1)
  <2>1. SUFFICES ASSUME q >= b + 1 PROVE FALSE
    OBVIOUS
  <2>2. m * q >= m * (b + 1) /\ m * (b + 1) = b * m + m /\ m * q \in Nat /\ b * m \in Nat
    BY <1>1, <2>1
  <2> QED BY <1>1, <2>2
<1> QED BY <1>1, <1>2 DEF q

(* After fewer than m of m steps something of x is left.                   *)
LEMMA ProperPart ==
  ASSUME NEW x \in Nat \ {0}, NEW n \in Nat, NEW m \in Nat \ {0}, n < m
  PROVE  (x * n) \div m < x /\ (x * n) \div m \in Nat
<1>1. x * n \in Nat /\ x * n < x * m
  BY SMT
<1> QED BY <1>1, QuotientBelow

(* Two quotients and the one of the sum differ by one at most: what        *)
(* rounding gives or takes when an amount is split.                        *)
LEMMA DivSum ==
  ASSUME NEW a \in Nat, NEW b \in Nat, NEW m \in Nat \ {0}
  PROVE  /\ a \div m + b \div m <= (a + b) \div m
         /\ (a + b) \div m <= a \div m + b \div m + 1
<1> DEFINE p == a \div m
           q == b \div m
           r == (a + b) \div m
<1>1. a + b \in Nat
  OBVIOUS
<1>2. /\ p \in Nat /\ m * p <= a /\ a < m * p + m
      /\ q \in Nat /\ m * q <= b /\ b < m * q + m
      /\ r \in Nat /\ m * r <= a + b /\ a + b < m * r + m
  BY <1>1, DivDef
<1> HIDE DEF p, q, r
<1>3. m * (p + q) <= a + b /\ a + b < m * (p + q + 2)
  <2>1. m * (p + q) = m * p + m * q /\ m * (p + q + 2) = m * p + m * q + m + m
    BY <1>2
  <2>2. m * p \in Nat /\ m * q \in Nat
    BY <1>2
  <2> QED BY <1>2, <2>1, <2>2
<1>4. ~(p + q >= r + 1)
  <2>1. SUFFICES ASSUME p + q >= r + 1 PROVE FALSE
    OBVIOUS
  <2>2. m * (p + q) >= m * (r + 1)
    BY <1>2, <2>1
  <2>3. m * (r + 1) = m * r + m /\ m * r \in Nat /\ m * (p + q) \in Nat
    BY <1>2
  <2> QED BY <1>1, <1>2, <1>3, <2>2, <2>3
<1>5. ~(r >= p + q + 2)
  <2>1. SUFFICES ASSUME r >= p + q + 2 PROVE FALSE
    OBVIOUS
  <2>2. m * r >= m * (p + q + 2)
    BY <1>2, <2>1
  <2>3. m * r \in Nat /\ m * (p + q + 2) \in Nat
    BY <1>2
  <2> QED BY <1>1, <1>2, <1>3, <2>2, <2>3
<1> QED BY <1>2, <1>4, <1>5 DEF p, q, r

(* A larger dividend, a smaller divisor: a larger quotient.                *)
LEMMA DivMonotone ==
  ASSUME NEW a \in Nat, NEW b \in Nat, a <= b, NEW m \in Nat \ {0}, NEW n \in Nat, m <= n
  PROVE  a \div n <= b \div m
<1> DEFINE p == a \div n
           q == b \div m
<1>1. n \in Nat \ {0}
  OBVIOUS
<1>2. p \in Nat /\ n * p <= a /\ q \in Nat /\ m * q <= b /\ b < m * q + m
  BY <1>1, DivDef
<1> HIDE DEF p, q
<1>3. ~(p >= q + 1)
  <2>1. SUFFICES ASSUME p >= q + 1 PROVE FALSE
    OBVIOUS
  <2>2. m * p <= n * p
    BY <1>2
  <2>3. m * p >= m * (q + 1) /\ m * (q + 1) = m * q + m
    BY <1>2, <2>1
  <2>4. m * p \in Nat /\ n * p \in Nat /\ m * q \in Nat
    BY <1>2
  <2> QED BY <1>2, <2>2, <2>3, <2>4
<1> QED BY <1>2, <1>3 DEF p, q

-----------------------------------------------------------------------------
(* Induction over the naturals: a set with 0 and every successor.          *)
LEMMA NumbersInduction ==
  ASSUME NEW Good, 0 \in Good, \A n \in Nat : n \in Good => n + 1 \in Good
  PROVE  Nat \subseteq Good
<1> DEFINE bad == Nat \ Good
<1> SUFFICES ASSUME bad # {} PROVE FALSE
  OBVIOUS
<1>1. PICK n \in bad : \A m \in bad : ~(<<m, n>> \in OpToRel(<, Nat))
  <2> HIDE DEF bad
  <2>1. bad \subseteq Nat
    BY DEF bad
  <2> QED BY <2>1, NatLessThanWellFounded, WFMin
<1>2. \A m \in bad : ~(m < n)
  BY <1>1 DEF OpToRel
<1>3. n # 0 /\ n - 1 \in Nat
  BY DEF bad
<1>4. n - 1 \in Good
  BY <1>2, <1>3
<1> QED BY <1>3, <1>4

(* Induction over the subsets of a finite set: a family with {} and every  *)
(* set that is in it whenever it is with any one element less.             *)
LEMMA SubsetInduction ==
  ASSUME NEW S, IsFiniteSet(S), NEW Good, {} \in Good,
         \A T \in SUBSET S : T # {} /\ (\A x \in T : T \ {x} \in Good) => T \in Good
  PROVE  SUBSET S \subseteq Good
<1> DEFINE bad == (SUBSET S) \ Good
<1> SUFFICES ASSUME bad # {} PROVE FALSE
  OBVIOUS
<1>1. PICK T \in bad : \A U \in bad : ~(<<U, T>> \in StrictSubsetOrdering(S))
  <2> HIDE DEF bad
  <2>1. bad \subseteq FiniteSubsetsOf(S)
    BY FS_FiniteSubsetsOfFinite DEF bad
  <2>2. IsWellFoundedOn(StrictSubsetOrdering(S), FiniteSubsetsOf(S))
    BY FS_StrictSubsetOrderingWellFounded
  <2> QED BY <2>1, <2>2, WFMin
<1>2. ASSUME NEW x \in T PROVE T \ {x} \in Good
  <2> DEFINE U == T \ {x}
  <2>1. U \in SUBSET S /\ T \in SUBSET S /\ U \subseteq T /\ U # T
    OBVIOUS
  <2>2. <<U, T>> \in StrictSubsetOrdering(S)
    BY <2>1 DEF StrictSubsetOrdering
  <2>3. U \notin bad
    BY <1>1, <2>2
  <2> QED BY <2>1, <2>3
<1>3. T \in SUBSET S /\ T \notin Good /\ T # {}
  OBVIOUS
<1> QED BY <1>2, <1>3

(* The recursion SumFunctionOnSet is defined by: h sums f over the sets D. *)
SumDomain(S, n) == {s \in SUBSET S : Cardinality(s) <= n}
Picked(s) == CHOOSE x \in s : TRUE
SumStep(f, h, s) ==
  IF s = {} THEN 0 ELSE f[Picked(s)] + h[s \ {Picked(s)}]
IsPartialSum(f, h, D) == h = [s \in D |-> SumStep(f, h, s)]
PartialSum(f, S) == CHOOSE h : IsPartialSum(f, h, SUBSET S)

(* The sum of the community modules is this one.                           *)
LEMMA SumIsPartialSum ==
  ASSUME NEW f, NEW S
  PROVE  SumFunctionOnSet(f, S) = PartialSum(f, S)[S]
BY DEF SumFunctionOnSet, FoldFunctionOnSet, MapThenFoldSet, PartialSum, IsPartialSum, SumStep, Picked

(* A step of the recursion.                                                *)
LEMMA Unfold ==
  ASSUME NEW f, NEW h, NEW D, IsPartialSum(f, h, D), NEW s \in D
  PROVE h[s] = SumStep(f, h, s)
<1>1. h = [t \in D |-> SumStep(f, h, t)]
  BY DEF IsPartialSum
<1> HIDE DEF SumStep
<1> QED BY <1>1

(* Over the subsets of a finite set the recursion has a solution: it is    *)
(* extended from the subsets of n elements to those of n + 1.              *)
LEMMA PartialSumExists ==
  ASSUME NEW f, NEW S, IsFiniteSet(S)
  PROVE  \E h : IsPartialSum(f, h, SUBSET S)
<1> DEFINE Good == {n \in Nat : \E h : IsPartialSum(f, h, SumDomain(S, n))}
<1>0. \A s \in SUBSET S : IsFiniteSet(s) /\ Cardinality(s) \in Nat
                            /\ Cardinality(s) <= Cardinality(S)
  BY FS_Subset, FS_CardinalityType
<1>1. 0 \in Good
  <2> DEFINE D == SumDomain(S, 0)
             h == [s \in D |-> 0]
  <2>1. \A s \in D : s = {}
    BY <1>0, FS_EmptySet DEF SumDomain
  <2>2. h = [s \in D |-> SumStep(f, h, s)]
    BY <2>1 DEF SumStep
  <2> QED BY <2>2 DEF IsPartialSum
<1>2. ASSUME NEW n \in Nat, n \in Good PROVE n + 1 \in Good
  <2>1. PICK h : IsPartialSum(f, h, SumDomain(S, n))
    BY <1>2
  <2> DEFINE D == SumDomain(S, n + 1)
             g == [s \in D |-> SumStep(f, h, s)]
  <2>2. ASSUME NEW s \in SumDomain(S, n) PROVE s \in D /\ g[s] = h[s]
    <3>1. s \in D
      BY <1>0 DEF SumDomain
    <3>2. h[s] = SumStep(f, h, s)
      BY <2>1, Unfold
    <3> QED BY <3>1, <3>2
  <2>3. ASSUME NEW s \in D, s # {} PROVE s \ {Picked(s)} \in SumDomain(S, n)
    <3>1. Picked(s) \in s
      BY <2>3 DEF Picked
    <3>2. IsFiniteSet(s)
      BY <1>0 DEF SumDomain
    <3>3. Cardinality(s \ {Picked(s)}) = Cardinality(s) - 1
      BY <3>1, <3>2, FS_RemoveElement
    <3>4. Cardinality(s) \in Nat /\ Cardinality(s) <= n + 1 /\ s \in SUBSET S
      BY <1>0 DEF SumDomain
    <3> QED BY <3>3, <3>4 DEF SumDomain
  <2>4. ASSUME NEW s \in D PROVE g[s] = SumStep(f, g, s)
    <3>1. CASE s = {}
      BY <3>1 DEF SumStep
    <3>2. CASE s # {}
      <4>1. g[s \ {Picked(s)}] = h[s \ {Picked(s)}]
        BY <3>2, <2>2, <2>3
      <4>2. g[s] = SumStep(f, h, s)
        OBVIOUS
      <4> QED BY <4>1, <4>2, <3>2 DEF SumStep
    <3> QED BY <3>1, <3>2
  <2>5. g = [s \in D |-> SumStep(f, g, s)]
    <3>1. g = [s \in D |-> g[s]]
      OBVIOUS
    <3> HIDE DEF g
    <3> QED BY <3>1, <2>4
  <2> HIDE DEF g
  <2>6. IsPartialSum(f, g, D)
    BY <2>5 DEF IsPartialSum
  <2> QED BY <2>6
<1>3. Cardinality(S) \in Nat /\ Cardinality(S) \in Good
  <2> HIDE DEF Good
  <2>1. Nat \subseteq Good
    BY <1>1, <1>2, NumbersInduction
  <2> QED BY <2>1, FS_CardinalityType
<1>4. SumDomain(S, Cardinality(S)) = SUBSET S
  BY <1>0 DEF SumDomain
<1> QED BY <1>3, <1>4

(* So the sum is a solution.                                               *)
LEMMA SumChosen ==
  ASSUME NEW f, NEW S, IsFiniteSet(S)
  PROVE  IsPartialSum(f, PartialSum(f, S), SUBSET S)
BY PartialSumExists DEF PartialSum

(* The subsets of a set, and those of a subset of it, have the same sums.  *)
LEMMA PartialSumsAgree ==
  ASSUME NEW f, NEW S, IsFiniteSet(S), NEW T \in SUBSET S
  PROVE  \A U \in SUBSET T : PartialSum(f, T)[U] = PartialSum(f, S)[U]
<1> DEFINE h == PartialSum(f, T)
           k == PartialSum(f, S)
           Good == {U \in SUBSET T : h[U] = k[U]}
<1>1. IsPartialSum(f, h, SUBSET T) /\ IsPartialSum(f, k, SUBSET S) /\ IsFiniteSet(T)
  BY SumChosen, FS_Subset
<1> HIDE DEF h, k
<1>2. \A U \in SUBSET T : h[U] = SumStep(f, h, U) /\ k[U] = SumStep(f, k, U)
  BY <1>1, Unfold
<1>3. {} \in Good
  BY <1>2 DEF SumStep
<1>4. ASSUME NEW U \in SUBSET T, U # {}, \A x \in U : U \ {x} \in Good
      PROVE  U \in Good
  <2>1. Picked(U) \in U
    BY <1>4 DEF Picked
  <2>2. h[U \ {Picked(U)}] = k[U \ {Picked(U)}]
    BY <1>4, <2>1
  <2> QED BY <1>2, <1>4, <2>2 DEF SumStep
<1>5. SUBSET T \subseteq Good
  <2> HIDE DEF Good
  <2> QED BY <1>1, <1>3, <1>4, SubsetInduction
<1> QED BY <1>5 DEF h, k

(* Sums of integers are integers.                                          *)
LEMMA PartialSumType ==
  ASSUME NEW f, NEW S, IsFiniteSet(S), \A x \in S : f[x] \in Int
  PROVE  \A T \in SUBSET S : PartialSum(f, S)[T] \in Int
<1> DEFINE h == PartialSum(f, S)
           Good == {T \in SUBSET S : h[T] \in Int}
<1>1. \A T \in SUBSET S : h[T] = SumStep(f, h, T)
  BY SumChosen, Unfold
<1> HIDE DEF h
<1>2. {} \in Good
  BY <1>1 DEF SumStep
<1>3. ASSUME NEW T \in SUBSET S, T # {}, \A x \in T : T \ {x} \in Good
      PROVE  T \in Good
  <2>1. Picked(T) \in T
    BY <1>3 DEF Picked
  <2>2. f[Picked(T)] \in Int /\ h[T \ {Picked(T)}] \in Int
    BY <1>3, <2>1
  <2> QED BY <1>1, <1>3, <2>2 DEF SumStep
<1>4. SUBSET S \subseteq Good
  <2> HIDE DEF Good
  <2> QED BY <1>2, <1>3, SubsetInduction
<1> QED BY <1>4 DEF h

(* The order of summation does not matter: any element may be the last.    *)
LEMMA PartialSumRemove ==
  ASSUME NEW f, NEW S, IsFiniteSet(S), \A x \in S : f[x] \in Int
  PROVE  \A T \in SUBSET S : \A y \in T :
            PartialSum(f, S)[T] = f[y] + PartialSum(f, S)[T \ {y}]
<1> DEFINE h == PartialSum(f, S)
           Good == {T \in SUBSET S : \A y \in T : h[T] = f[y] + h[T \ {y}]}
<1>1. \A T \in SUBSET S : h[T] = SumStep(f, h, T) /\ h[T] \in Int
  BY SumChosen, Unfold, PartialSumType
<1> HIDE DEF h
<1>2. {} \in Good
  OBVIOUS
<1>3. ASSUME NEW T \in SUBSET S, T # {}, \A x \in T : T \ {x} \in Good, NEW y \in T
      PROVE  h[T] = f[y] + h[T \ {y}]
  <2> DEFINE c == Picked(T)
  <2>1. c \in T
    BY <1>3 DEF Picked
  <2>2. h[T] = f[c] + h[T \ {c}]
    BY <1>1, <1>3 DEF SumStep
  <2> HIDE DEF c
  <2>3. CASE c = y
    BY <2>2, <2>3
  <2>4. CASE c # y
    <3>1. y \in T \ {c} /\ c \in T \ {y}
      BY <2>1, <2>4
    <3>2. h[T \ {c}] = f[y] + h[(T \ {c}) \ {y}]
      BY <1>3, <2>1, <3>1
    <3>3. h[T \ {y}] = f[c] + h[(T \ {y}) \ {c}]
      BY <1>3, <3>1
    <3>4. (T \ {c}) \ {y} = (T \ {y}) \ {c} /\ (T \ {c}) \ {y} \in SUBSET S
      OBVIOUS
    <3>5. f[c] \in Int /\ f[y] \in Int /\ h[(T \ {c}) \ {y}] \in Int
      BY <1>1, <2>1, <3>4
    <3> DEFINE p == h[(T \ {c}) \ {y}]
    <3>6. h[T \ {c}] = f[y] + p /\ h[T \ {y}] = f[c] + p /\ p \in Int
      BY <3>2, <3>3, <3>4, <3>5
    <3> HIDE DEF p
    <3> QED BY <2>2, <3>5, <3>6
  <2> QED BY <2>3, <2>4
<1>4. SUBSET S \subseteq Good
  <2>1. \A T \in SUBSET S : T # {} /\ (\A x \in T : T \ {x} \in Good) => T \in Good
    BY <1>3
  <2> HIDE DEF Good
  <2> QED BY <1>2, <2>1, SubsetInduction
<1> QED BY <1>4 DEF h

-----------------------------------------------------------------------------
(* Over no index the sum is zero.                                          *)
LEMMA SumEmpty == ASSUME NEW f PROVE SumFunctionOnSet(f, {}) = 0
<1>1. SumFunctionOnSet(f, {}) = PartialSum(f, {})[{}]
  BY SumIsPartialSum
<1>2. PartialSum(f, {})[{}] = SumStep(f, PartialSum(f, {}), {})
  <2>1. IsPartialSum(f, PartialSum(f, {}), SUBSET {})
    BY SumChosen, FS_EmptySet
  <2>2. {} \in SUBSET {}
    OBVIOUS
  <2> QED BY <2>1, <2>2, Unfold
<1> QED BY <1>1, <1>2 DEF SumStep

(* A sum of integers is an integer, ...                                    *)
LEMMA SumInt ==
  ASSUME NEW f, NEW S, IsFiniteSet(S), \A x \in S : f[x] \in Int
  PROVE  SumFunctionOnSet(f, S) \in Int
BY SumIsPartialSum, PartialSumType

(* ... from which any of them can be taken out.                            *)
LEMMA SumRemove ==
  ASSUME NEW f, NEW S, IsFiniteSet(S), \A x \in S : f[x] \in Int, NEW y \in S
  PROVE  SumFunctionOnSet(f, S) = f[y] + SumFunctionOnSet(f, S \ {y})
<1>1. SumFunctionOnSet(f, S) = f[y] + PartialSum(f, S)[S \ {y}]
  BY SumIsPartialSum, PartialSumRemove
<1>2. SumFunctionOnSet(f, S \ {y}) = PartialSum(f, S \ {y})[S \ {y}]
  BY SumIsPartialSum
<1> QED BY <1>1, <1>2, PartialSumsAgree

LEMMA SumAdd ==
  ASSUME NEW f, NEW S, IsFiniteSet(S), NEW y, y \notin S, \A x \in S \cup {y} : f[x] \in Int
  PROVE  SumFunctionOnSet(f, S \cup {y}) = SumFunctionOnSet(f, S) + f[y]
<1>1. IsFiniteSet(S \cup {y}) /\ (S \cup {y}) \ {y} = S
  BY FS_AddElement
<1>2. SumFunctionOnSet(f, S \cup {y}) = f[y] + SumFunctionOnSet(f, S)
  BY <1>1, SumRemove
<1> QED BY <1>2, SumInt

(* Only the values at the indices matter.                                  *)
LEMMA SumCongruent ==
  ASSUME NEW f, NEW g, NEW S, IsFiniteSet(S), \A x \in S : f[x] \in Int /\ f[x] = g[x]
  PROVE  SumFunctionOnSet(f, S) = SumFunctionOnSet(g, S)
<1> DEFINE Sum(h, T) == SumFunctionOnSet(h, T)
           Good == {T \in SUBSET S : Sum(f, T) = Sum(g, T)}
<1>1. {} \in Good
  BY SumEmpty
<1>2. ASSUME NEW T \in SUBSET S, T # {}, \A x \in T : T \ {x} \in Good
      PROVE  T \in Good
  <2>1. PICK y \in T : TRUE
    BY <1>2
  <2>2. IsFiniteSet(T)
    BY FS_Subset
  <2>3. Sum(f, T) = f[y] + Sum(f, T \ {y}) /\ Sum(g, T) = g[y] + Sum(g, T \ {y})
    BY <2>2, SumRemove
  <2> QED BY <1>2, <2>3
<1>3. SUBSET S \subseteq Good
  <2> HIDE DEF Good
  <2> QED BY <1>1, <1>2, SubsetInduction
<1> QED BY <1>3

(* The sum of the values of two functions, added index by index.           *)
LEMMA SumPlus ==
  ASSUME NEW f, NEW g, NEW h, NEW S, IsFiniteSet(S),
         \A x \in S : f[x] \in Int /\ g[x] \in Int /\ h[x] = f[x] + g[x]
  PROVE  SumFunctionOnSet(h, S) = SumFunctionOnSet(f, S) + SumFunctionOnSet(g, S)
<1> DEFINE Sum(k, T) == SumFunctionOnSet(k, T)
           Good == {T \in SUBSET S : Sum(h, T) = Sum(f, T) + Sum(g, T)}
<1>1. {} \in Good
  BY SumEmpty
<1>2. ASSUME NEW T \in SUBSET S, T # {}, \A x \in T : T \ {x} \in Good
      PROVE  T \in Good
  <2>1. PICK y \in T : TRUE
    BY <1>2
  <2>2. IsFiniteSet(T) /\ IsFiniteSet(T \ {y})
    BY FS_Subset
  <2>3. \A x \in S : h[x] \in Int
    OBVIOUS
  <2>4. /\ Sum(f, T) = f[y] + Sum(f, T \ {y}) /\ Sum(f, T \ {y}) \in Int
        /\ Sum(g, T) = g[y] + Sum(g, T \ {y}) /\ Sum(g, T \ {y}) \in Int
        /\ Sum(h, T) = h[y] + Sum(h, T \ {y})
    BY <2>2, <2>3, SumRemove, SumInt
  <2>5. Sum(h, T \ {y}) = Sum(f, T \ {y}) + Sum(g, T \ {y})
    BY <1>2, <2>1
  <2>6. f[y] \in Int /\ g[y] \in Int /\ h[y] = f[y] + g[y]
    BY <2>1
  <2> HIDE DEF Sum
  <2>7. Sum(h, T) = Sum(f, T) + Sum(g, T)
    BY <2>4, <2>5, <2>6
  <2> QED BY <2>7
<1>3. SUBSET S \subseteq Good
  <2> HIDE DEF Good
  <2> QED BY <1>1, <1>2, SubsetInduction
<1> QED BY <1>3

(* A larger value at every index gives a larger sum.                       *)
LEMMA SumMonotone ==
  ASSUME NEW f, NEW g, NEW S, IsFiniteSet(S),
         \A x \in S : f[x] \in Int /\ g[x] \in Int /\ f[x] <= g[x]
  PROVE  SumFunctionOnSet(f, S) <= SumFunctionOnSet(g, S)
<1> DEFINE Sum(k, T) == SumFunctionOnSet(k, T)
           Good == {T \in SUBSET S : Sum(f, T) <= Sum(g, T)}
<1>1. {} \in Good
  BY SumEmpty
<1>2. ASSUME NEW T \in SUBSET S, T # {}, \A x \in T : T \ {x} \in Good
      PROVE  T \in Good
  <2>1. PICK y \in T : TRUE
    BY <1>2
  <2>2. IsFiniteSet(T) /\ IsFiniteSet(T \ {y})
    BY FS_Subset
  <2>3. /\ Sum(f, T) = f[y] + Sum(f, T \ {y}) /\ Sum(f, T \ {y}) \in Int
        /\ Sum(g, T) = g[y] + Sum(g, T \ {y}) /\ Sum(g, T \ {y}) \in Int
    BY <2>2, SumRemove, SumInt
  <2>4. Sum(f, T \ {y}) <= Sum(g, T \ {y})
    BY <1>2, <2>1
  <2>5. f[y] \in Int /\ g[y] \in Int /\ f[y] <= g[y]
    BY <2>1
  <2> HIDE DEF Sum
  <2>6. Sum(f, T) <= Sum(g, T)
    BY <2>3, <2>4, <2>5
  <2> QED BY <2>6
<1>3. SUBSET S \subseteq Good
  <2> HIDE DEF Good
  <2> QED BY <1>1, <1>2, SubsetInduction
<1> QED BY <1>3

(* A sum of zeros is zero, and one of naturals a natural.                  *)
LEMMA SumZero ==
  ASSUME NEW f, NEW S, IsFiniteSet(S), \A x \in S : f[x] = 0
  PROVE  SumFunctionOnSet(f, S) = 0
<1>1. \A x \in S : f[x] \in Int /\ f[x] = f[x] + f[x]
  OBVIOUS
<1>2. SumFunctionOnSet(f, S) = SumFunctionOnSet(f, S) + SumFunctionOnSet(f, S)
  BY <1>1, SumPlus
<1>3. SumFunctionOnSet(f, S) \in Int
  BY <1>1, SumInt
<1> QED BY <1>2, <1>3

LEMMA SumNat ==
  ASSUME NEW f, NEW S, IsFiniteSet(S), \A x \in S : f[x] \in Nat
  PROVE  SumFunctionOnSet(f, S) \in Nat
<1> DEFINE zero == [x \in S |-> 0]
<1>1. SumFunctionOnSet(zero, S) = 0
  BY SumZero
<1>2. SumFunctionOnSet(zero, S) <= SumFunctionOnSet(f, S)
  BY SumMonotone
<1>3. SumFunctionOnSet(f, S) \in Int
  BY SumInt
<1> QED BY <1>1, <1>2, <1>3

(* A value that is part of a sum of naturals is at most the sum.           *)
LEMMA SumPart ==
  ASSUME NEW f, NEW S, IsFiniteSet(S), \A x \in S : f[x] \in Nat, NEW y \in S
  PROVE  f[y] <= SumFunctionOnSet(f, S)
<1>1. SumFunctionOnSet(f, S) = f[y] + SumFunctionOnSet(f, S \ {y})
  BY SumRemove
<1>2. IsFiniteSet(S \ {y})
  BY FS_RemoveElement
<1>3. SumFunctionOnSet(f, S \ {y}) \in Nat
  BY <1>2, SumNat
<1> QED BY <1>1, <1>3

(* Naturals at more indices have a larger sum.                             *)
LEMMA SumSubset ==
  ASSUME NEW f, NEW S, IsFiniteSet(S), \A x \in S : f[x] \in Nat, NEW T \in SUBSET S
  PROVE  SumFunctionOnSet(f, T) <= SumFunctionOnSet(f, S)
<1> DEFINE Good == {U \in SUBSET (S \ T) : SumFunctionOnSet(f, T) <= SumFunctionOnSet(f, T \cup U)}
<1>1. IsFiniteSet(S \ T) /\ IsFiniteSet(T)
  BY FS_Subset
<1>2. {} \in Good
  <2>1. T \cup {} = T /\ SumFunctionOnSet(f, T) \in Nat
    BY <1>1, SumNat
  <2> QED BY <2>1
<1>3. ASSUME NEW U \in SUBSET (S \ T), U # {}, \A x \in U : U \ {x} \in Good
      PROVE  U \in Good
  <2>1. PICK y \in U : TRUE
    BY <1>3
  <2>2. /\ IsFiniteSet(T \cup U) /\ IsFiniteSet(T \cup (U \ {y}))
        /\ (T \cup U) \ {y} = T \cup (U \ {y}) /\ y \in T \cup U
    BY <2>1, FS_Subset
  <2>3. \A x \in T \cup U : f[x] \in Int
    OBVIOUS
  <2>4. SumFunctionOnSet(f, T \cup U) = f[y] + SumFunctionOnSet(f, T \cup (U \ {y}))
    BY <2>2, <2>3, SumRemove
  <2>5. SumFunctionOnSet(f, T) <= SumFunctionOnSet(f, T \cup (U \ {y}))
    BY <1>3, <2>1
  <2>6. /\ SumFunctionOnSet(f, T) \in Nat /\ f[y] \in Nat
        /\ SumFunctionOnSet(f, T \cup (U \ {y})) \in Nat
    BY <1>1, <2>1, <2>2, SumNat
  <2> QED BY <2>4, <2>5, <2>6
<1>4. SUBSET (S \ T) \subseteq Good
  <2> HIDE DEF Good
  <2> QED BY <1>1, <1>2, <1>3, SubsetInduction
<1>5. T \cup (S \ T) = S
  OBVIOUS
<1>6. (S \ T) \in Good
  <2> HIDE DEF Good
  <2> QED BY <1>4
<1> QED BY <1>5, <1>6

(* When one value changes, the sum changes as much.                        *)
LEMMA SumChange ==
  ASSUME NEW f, NEW g, NEW S, IsFiniteSet(S), NEW y \in S,
         \A x \in S : f[x] \in Int /\ g[x] \in Int,
         \A x \in S \ {y} : g[x] = f[x]
  PROVE  SumFunctionOnSet(g, S) = SumFunctionOnSet(f, S) + g[y] - f[y]
<1>1. IsFiniteSet(S \ {y})
  BY FS_RemoveElement
<1>2. SumFunctionOnSet(g, S \ {y}) = SumFunctionOnSet(f, S \ {y})
  BY <1>1, SumCongruent
<1>3. /\ SumFunctionOnSet(f, S) = f[y] + SumFunctionOnSet(f, S \ {y})
      /\ SumFunctionOnSet(g, S) = g[y] + SumFunctionOnSet(g, S \ {y})
  BY SumRemove
<1>4. SumFunctionOnSet(f, S \ {y}) \in Int
  BY <1>1, SumInt
<1> QED BY <1>2, <1>3, <1>4

(* Indices at which nothing is added.                                      *)
LEMMA SumOutside ==
  ASSUME NEW f, NEW S, IsFiniteSet(S), NEW T \in SUBSET S, \A x \in S : f[x] \in Int,
         \A x \in S \ T : f[x] = 0
  PROVE  SumFunctionOnSet(f, S) = SumFunctionOnSet(f, T)
<1> DEFINE Good == {U \in SUBSET (S \ T) : SumFunctionOnSet(f, T \cup U) = SumFunctionOnSet(f, T)}
<1>1. IsFiniteSet(S \ T)
  BY FS_Subset
<1>2. {} \in Good
  <2>1. T \cup {} = T
    OBVIOUS
  <2> QED BY <2>1
<1>3. ASSUME NEW U \in SUBSET (S \ T), U # {}, \A x \in U : U \ {x} \in Good
      PROVE  U \in Good
  <2>1. PICK y \in U : TRUE
    BY <1>3
  <2>2. IsFiniteSet(T \cup U) /\ (T \cup U) \ {y} = T \cup (U \ {y}) /\ y \in T \cup U
    BY <2>1, FS_Subset
  <2>3. \A x \in T \cup U : f[x] \in Int
    OBVIOUS
  <2>4. SumFunctionOnSet(f, T \cup U) = f[y] + SumFunctionOnSet(f, T \cup (U \ {y}))
    BY <2>2, <2>3, SumRemove
  <2>5. SumFunctionOnSet(f, T \cup (U \ {y})) = SumFunctionOnSet(f, T)
    BY <1>3, <2>1
  <2>6. SumFunctionOnSet(f, T) \in Int
    BY SumInt, FS_Subset
  <2>7. f[y] = 0
    BY <2>1
  <2> QED BY <2>4, <2>5, <2>6, <2>7
<1>4. SUBSET (S \ T) \subseteq Good
  <2> HIDE DEF Good
  <2> QED BY <1>1, <1>2, <1>3, SubsetInduction
<1>5. T \cup (S \ T) = S
  OBVIOUS
<1>6. (S \ T) \in Good
  <2> HIDE DEF Good
  <2> QED BY <1>4
<1> QED BY <1>5, <1>6

(* When the values at some indices change, the sum changes by the sum of   *)
(* the differences there.                                                  *)
LEMMA SumDifference ==
  ASSUME NEW f, NEW g, NEW d, NEW S, IsFiniteSet(S), NEW T \in SUBSET S,
         \A x \in S : f[x] \in Int /\ g[x] \in Int,
         \A x \in S \ T : g[x] = f[x],
         \A x \in T : d[x] = g[x] - f[x]
  PROVE  SumFunctionOnSet(g, S) = SumFunctionOnSet(f, S) + SumFunctionOnSet(d, T)
<1> DEFINE e == [x \in S |-> g[x] - f[x]]
<1>1. \A x \in S : e[x] \in Int /\ g[x] = f[x] + e[x]
  OBVIOUS
<1>2. SumFunctionOnSet(g, S) = SumFunctionOnSet(f, S) + SumFunctionOnSet(e, S)
  BY <1>1, SumPlus
<1>3. \A x \in S \ T : e[x] = 0
  OBVIOUS
<1>4. \A x \in T : e[x] \in Int /\ e[x] = d[x]
  OBVIOUS
<1> HIDE DEF e
<1>5. SumFunctionOnSet(e, S) = SumFunctionOnSet(e, T)
  BY <1>1, <1>3, SumOutside
<1>6. SumFunctionOnSet(e, T) = SumFunctionOnSet(d, T)
  BY <1>4, SumCongruent, FS_Subset
<1> QED BY <1>2, <1>5, <1>6

(* A common factor.                                                        *)
LEMMA SumTimes ==
  ASSUME NEW f, NEW g, NEW S, IsFiniteSet(S), NEW c \in Int,
         \A x \in S : f[x] \in Int /\ g[x] = c * f[x]
  PROVE  SumFunctionOnSet(g, S) = c * SumFunctionOnSet(f, S)
<1> DEFINE Sum(k, T) == SumFunctionOnSet(k, T)
           Good == {T \in SUBSET S : Sum(g, T) = c * Sum(f, T)}
<1>0. \A x \in S : g[x] \in Int
  OBVIOUS
<1>1. {} \in Good
  BY SumEmpty
<1>2. ASSUME NEW T \in SUBSET S, T # {}, \A x \in T : T \ {x} \in Good
      PROVE  T \in Good
  <2>1. PICK y \in T : TRUE
    BY <1>2
  <2>2. IsFiniteSet(T) /\ IsFiniteSet(T \ {y})
    BY FS_Subset
  <2>3. /\ Sum(f, T) = f[y] + Sum(f, T \ {y}) /\ Sum(f, T \ {y}) \in Int
        /\ Sum(g, T) = g[y] + Sum(g, T \ {y})
    BY <1>0, <2>2, SumRemove, SumInt
  <2>4. Sum(g, T \ {y}) = c * Sum(f, T \ {y})
    BY <1>2, <2>1
  <2>5. f[y] \in Int /\ g[y] = c * f[y]
    BY <2>1
  <2> HIDE DEF Sum
  <2> DEFINE s == Sum(f, T \ {y})
             v == f[y]
  <2>6. s \in Int /\ v \in Int /\ Sum(g, T) = c * v + c * s /\ Sum(f, T) = v + s
    BY <2>3, <2>4, <2>5
  <2> HIDE DEF s, v
  <2>7. c * (v + s) = c * v + c * s
    BY <2>6
  <2>8. Sum(g, T) = c * Sum(f, T)
    BY <2>6, <2>7
  <2> QED BY <2>8
<1>3. SUBSET S \subseteq Good
  <2> HIDE DEF Good
  <2> QED BY <1>1, <1>2, SubsetInduction
<1> QED BY <1>3
==============================================================================
