---------------------------- MODULE WellOrdering ----------------------------
(***************************************************************************)
(* Facts about numbers that the proofs of several components rest on.     *)
(* Induction takes the form of a least counterexample, whose set is not an *)
(* operator but a value.                                                   *)
(***************************************************************************)
EXTENDS Integers, FiniteSets, TLAPS, WellFoundedInduction, FiniteSetTheorems

\* A set of numbers that is not empty has a least element: among the intervals
\* that end in the set, one contains no other.
LEMMA LeastNumber == ASSUME NEW T \in SUBSET Nat, T # {} PROVE \E x \in T : \A y \in T : x <= y
  <1>1. PICK n \in T : TRUE
      OBVIOUS
  <1>2. IsFiniteSet(0 .. n)
      BY FS_Interval
  <1> DEFINE below == {0 .. m : m \in T \cap (0 .. n)}
  <1>3. below \subseteq FiniteSubsetsOf(0 .. n) /\ below # {}
      BY <1>1, <1>2, FS_Subset DEF FiniteSubsetsOf
  <1>4. PICK s \in below : \A t \in below : ~(<<t, s>> \in StrictSubsetOrdering(0 .. n))
    <2> HIDE DEF below
    <2> QED
        BY <1>3, WFMin, FS_StrictSubsetOrderingWellFounded
  <1>5. PICK x \in T \cap (0 .. n) : s = 0 .. x
      OBVIOUS
  <1>6. ASSUME NEW y \in T, y < x PROVE FALSE
    <2>1. (0 .. y) \in below /\ y \in 0 .. n
        BY <1>6
    <2>2. 0 .. y # 0 .. x /\ 0 .. y \subseteq 0 .. x
        BY <1>6
    <2>3. (0 .. y) \in SUBSET (0 .. n) /\ (0 .. x) \in SUBSET (0 .. n)
        BY <2>1
    <2> QED
        BY <1>4, <1>5, <2>1, <2>2, <2>3 DEF StrictSubsetOrdering
  <1> QED
      BY <1>6

\* A set of numbers that does not go beyond a bound has a greatest element.
LEMMA GreatestNumber ==
    ASSUME NEW n \in Nat, NEW T \in SUBSET (0 .. n), T # {}
    PROVE  \E x \in T : \A y \in T : y <= x
  <1> DEFINE mirror == {n - t : t \in T}
  <1>1. mirror \in SUBSET Nat /\ mirror # {}
      OBVIOUS
  <1>2. PICK m \in mirror : \A k \in mirror : m <= k
    <2> HIDE DEF mirror
    <2> QED
        BY <1>1, LeastNumber
  <1>3. PICK x \in T : m = n - x
      OBVIOUS
  <1>4. ASSUME NEW y \in T PROVE y <= x
    <2>1. n - x <= n - y
        BY <1>2, <1>3
    <2> QED
        BY <2>1
  <1> QED
      BY <1>4

\* Rounding up: as many parts of a size as are needed, and no more.
LEMMA RoundingUp ==
    ASSUME NEW n \in Nat, NEW s \in Nat \ {0}, NEW q, q = (n + s - 1) \div s
    PROVE  q \in Nat /\ q * s >= n /\ (q - 1) * s < n
  <1>1. \A a \in Nat : (a \div s) \in Int /\ s * (a \div s) <= a /\ a < s * (a \div s) + s
      OBVIOUS
  <1>2. n + s - 1 \in Nat
      OBVIOUS
  <1>3. q \in Int /\ s * q <= n + s - 1 /\ n + s - 1 < s * q + s
      BY <1>1, <1>2
  <1>4. q * s = s * q /\ (q - 1) * s = s * q - s
      BY <1>3
  <1>5. q >= 0
      BY <1>3
  <1> QED
      BY <1>3, <1>4, <1>5

=============================================================================
