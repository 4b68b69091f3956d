------------------------------- MODULE Facts -------------------------------
(***************************************************************************)
(* Facts about natural numbers, remainders and finite sets that the proofs *)
(* of several modules rest on.                                             *)
(***************************************************************************)
EXTENDS Integers, FiniteSets, FiniteSetTheorems, WellFoundedInduction, TLAPS

(* The least-number principle for sets of naturals.                        *)
THEOREM LeastNatural ==
    ASSUME NEW T, T \subseteq Nat, T # {}
    PROVE  \E x \in T : \A y \in T : x <= y
<1> DEFINE U == {0..n : n \in T}
<1>1. U \subseteq FiniteSubsetsOf(Nat)
  <2>1. ASSUME NEW n \in T PROVE 0..n \in FiniteSubsetsOf(Nat)
    <3>1. IsFiniteSet(0..n) BY FS_Interval
    <3> QED BY <3>1 DEF FiniteSubsetsOf
  <2> QED BY <2>1
<1>2. U # {} OBVIOUS
<1>3. IsWellFoundedOn(StrictSubsetOrdering(Nat), FiniteSubsetsOf(Nat))
  BY FS_StrictSubsetOrderingWellFounded
<1> HIDE DEF U
<1>4. PICK u \in U : \A v \in U : ~(<<v, u>> \in StrictSubsetOrdering(Nat))
  BY <1>1, <1>2, <1>3, WFMin
<1>5. PICK x \in T : u = 0..x BY DEF U
<1>6. ASSUME NEW y \in T, y < x PROVE FALSE
  <2>1. 0..y \in U BY DEF U
  <2>2. 0..y \subseteq 0..x /\ 0..y # 0..x
    <3>1. x \in 0..x /\ x \notin 0..y BY <1>6
    <3>2. 0..y \subseteq 0..x BY <1>6
    <3> QED BY <3>1, <3>2
  <2>3. 0..y \in SUBSET Nat /\ 0..x \in SUBSET Nat OBVIOUS
  <2>4. <<0..y, 0..x>> \in StrictSubsetOrdering(Nat)
    BY <2>2, <2>3 DEF StrictSubsetOrdering
  <2> QED BY <1>4, <1>5, <2>1, <2>4
<1> QED BY <1>6

(* Induction over the naturals, with the property given as a set.          *)
THEOREM NatSetInduction ==
    ASSUME NEW S, 0 \in S, \A n \in Nat : n \in S => n + 1 \in S
    PROVE  \A n \in Nat : n \in S
<1> DEFINE T == {n \in Nat : n \notin S}
<1> SUFFICES ASSUME T # {} PROVE FALSE
  OBVIOUS
<1>1. PICK x \in T : \A y \in T : x <= y BY LeastNatural
<1>2. x # 0 /\ x - 1 \in Nat OBVIOUS
<1>3. x - 1 \in S BY <1>1, <1>2
<1> QED BY <1>2, <1>3

(* Min of FiniteSetsExt, spelled out.                                      *)
LEMMA LeastIsChosen ==
    ASSUME NEW T, T \subseteq Nat, T # {}
    PROVE  LET m == CHOOSE x \in T : \A y \in T : x <= y
           IN m \in T /\ \A y \in T : m <= y
BY LeastNatural

---------------------------------------------------------------------------
(* A positive multiple of w is at least w.                                 *)
LEMMA MultipleIsLarge ==
    ASSUME NEW w \in Nat \ {0}, NEW q \in Int, q >= 1
    PROVE  q * w >= w
<1>1. (q - 1) * w >= 0 OBVIOUS
<1>2. (q - 1) * w = q * w - w OBVIOUS
<1> QED BY <1>1, <1>2

(* Quotient and remainder are what is left of division.                    *)
LEMMA DivMod ==
    ASSUME NEW n \in Int, NEW w \in Nat \ {0}
    PROVE  /\ n % w \in 0..w - 1 /\ n \div w \in Int
           /\ n = w * (n \div w) + (n % w)
OBVIOUS

(* The remainder is the only number below w that differs by a multiple.    *)
LEMMA ModUnique ==
    ASSUME NEW w \in Nat \ {0}, NEW n \in Int, NEW q \in Int, NEW r \in 0..w - 1,
           n = q * w + r
    PROVE  n % w = r
<1> DEFINE d == n \div w
           m == n % w
<1>1. d \in Int /\ m \in 0..w - 1 /\ n = w * d + m BY DivMod
<1> HIDE DEF d, m
<1>2. (q - d) * w = m - r BY <1>1
<1>3. ~(q - d >= 1) BY <1>1, <1>2, MultipleIsLarge
<1>4. ~(d - q >= 1)
  <2>1. (d - q) * w = r - m BY <1>1
  <2> QED BY <1>1, <2>1, MultipleIsLarge
<1>5. q = d BY <1>1, <1>3, <1>4
<1> QED BY <1>1, <1>5 DEF m

(* A number below 2w is its own remainder, or its distance from w is.      *)
LEMMA ModOnce ==
    ASSUME NEW w \in Nat \ {0}, NEW n \in 0..2 * w - 1
    PROVE  n % w = IF n < w THEN n ELSE n - w
<1>1. CASE n < w
  <2>1. n = 0 * w + n OBVIOUS
  <2> QED BY <1>1, <2>1, ModUnique
<1>2. CASE n >= w
  <2>1. n = 1 * w + (n - w) OBVIOUS
  <2> QED BY <1>2, <2>1, ModUnique
<1> QED BY <1>1, <1>2

(* The same below zero, for the difference of two unsigned counters.       *)
LEMMA ModDifference ==
    ASSUME NEW w \in Nat \ {0}, NEW a \in 0..w - 1, NEW b \in 0..w - 1
    PROVE  (a - b) % w = IF b <= a THEN a - b ELSE a - b + w
<1>1. CASE b <= a
  <2>1. a - b = 0 * w + (a - b) OBVIOUS
  <2> QED BY <1>1, <2>1, ModUnique
<1>2. CASE b > a
  <2>1. a - b = (-1) * w + (a - b + w) OBVIOUS
  <2> QED BY <1>2, <2>1, ModUnique
<1> QED BY <1>1, <1>2

(* Numbers less than w apart have different remainders.                    *)
LEMMA ModInjective ==
    ASSUME NEW w \in Nat \ {0}, NEW a \in Int, NEW b \in Int, a % w = b % w,
           a - b < w, b - a < w
    PROVE  a = b
<1> DEFINE p == a \div w
           q == b \div w
           m == a % w
<1>1. p \in Int /\ q \in Int /\ m \in 0..w - 1 /\ a = w * p + m /\ b = w * q + m BY DivMod
<1> HIDE DEF p, q, m
<1>2. (p - q) * w = a - b /\ (q - p) * w = b - a BY <1>1
<1>3. ~(p - q >= 1) /\ ~(q - p >= 1) BY <1>1, <1>2, MultipleIsLarge
<1> QED BY <1>1, <1>3

(* A remainder modulo a multiple of w has the remainder modulo w.          *)
LEMMA ModOfMod ==
    ASSUME NEW w \in Nat \ {0}, NEW v \in Nat \ {0}, v % w = 0, NEW n \in Int
    PROVE  (n % v) % w = n % w
<1> DEFINE k == v \div w
           p == n \div v
           m == n % v
           q == m \div w
           r == m % w
<1>1. k \in Int /\ v = w * k
  BY DivMod
<1>2. p \in Int /\ m \in Int /\ n = v * p + m BY DivMod
<1>3. q \in Int /\ r \in 0..w - 1 /\ m = w * q + r BY <1>2, DivMod
<1> HIDE DEF k, p, m, q, r
<1>4. n = (k * p + q) * w + r
  <2>1. n = (w * k) * p + (w * q + r) BY <1>1, <1>2, <1>3
  <2> QED BY <1>1, <1>2, <1>3, <2>1
<1>5. n % w = r BY <1>1, <1>2, <1>3, <1>4, ModUnique
<1> QED BY <1>5 DEF r, m
(* A counter that wraps may be taken modulo the wrap at any time.          *)
LEMMA ModShift ==
    ASSUME NEW w \in Nat \ {0}, NEW x \in Int, NEW y \in Int
    PROVE  ((x % w) + y) % w = (x + y) % w
<1> DEFINE d == x \div w
           m == x % w
           e == (m + y) \div w
           r == (m + y) % w
<1>1. d \in Int /\ m \in 0..w - 1 /\ x = w * d + m BY DivMod
<1>2. e \in Int /\ r \in 0..w - 1 /\ m + y = w * e + r
  <2>1. m + y \in Int BY <1>1
  <2> QED BY <2>1, DivMod
<1> HIDE DEF d, m, e, r
<1>3. x + y = (d + e) * w + r
  <2>1. x + y = w * d + w * e + r BY <1>1, <1>2
  <2>2. w * d + w * e = (d + e) * w BY <1>1, <1>2
  <2>3. w * d \in Int /\ w * e \in Int /\ (d + e) * w \in Int BY <1>1, <1>2
  <2> QED BY <1>2, <2>1, <2>2, <2>3
<1>4. (x + y) % w = r
  <2>1. d + e \in Int /\ x + y \in Int BY <1>1, <1>2
  <2> QED BY <1>2, <1>3, <2>1, ModUnique
<1> QED BY <1>4 DEF m, r

============================================================================
