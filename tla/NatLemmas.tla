----------------------------- MODULE NatLemmas ------------------------------
(***************************************************************************)
(* Facts about numbers that the proofs share: every set of naturals has a  *)
(* least element, which is how the proofs here do induction (over the set  *)
(* of counterexamples), and the laws of \div and %.                        *)
(***************************************************************************)
EXTENDS Integers, WellFoundedInduction, TLAPS

-----------------------------------------------------------------------------
(* Induction *)

\* A nonempty set of naturals has a least element.
LEMMA LeastElement ==
    ASSUME NEW S \in SUBSET Nat, S # {}
    PROVE  \E x \in S : \A y \in S : x <= y
<1> DEFINE R == OpToRel(<, Nat)
<1>1. IsWellFoundedOn(R, Nat)
  BY NatLessThanWellFounded, Zenon
<1>2. \A y, x \in Nat : y < x => <<y, x>> \in R
  BY DEF OpToRel
<1> HIDE DEF R
<1>3. PICK x \in S : \A y \in S : ~(<<y, x>> \in R)
  BY <1>1, WFMin
<1>4. \A y \in S : ~(y < x)
  BY <1>2, <1>3
<1>5. x \in Nat /\ S \subseteq Nat
  OBVIOUS
<1>6. \A y \in S : x <= y
  BY <1>4, <1>5
<1> QED
  BY <1>6

\* A set of naturals that has 0, and with a number its successor, has them all
\* up to any limit.
LEMMA InductionUpTo ==
    ASSUME NEW n \in Nat, NEW S, 0 \in S,
           \A k \in 0..(n - 1) : k \in S => k + 1 \in S
    PROVE  0..n \subseteq S
<1> DEFINE Bad == {k \in 0..n : k \notin S}
<1> SUFFICES ASSUME Bad # {} PROVE FALSE
  OBVIOUS
<1>1. Bad \in SUBSET Nat
  OBVIOUS
<1>2. PICK x \in Bad : \A y \in Bad : x <= y
  BY <1>1, LeastElement
<1>3. x # 0 /\ x \in 0..n /\ x \notin S
  BY <1>2
<1>4. x - 1 \in 0..(n - 1) /\ x - 1 \notin Bad /\ x - 1 \in 0..n /\ (x - 1) + 1 = x
  BY <1>2, <1>3
<1> QED
  BY <1>3, <1>4

\* The same without a limit.
LEMMA Induction ==
    ASSUME NEW S, 0 \in S, \A k \in Nat : k \in S => k + 1 \in S
    PROVE  Nat \subseteq S
<1> SUFFICES ASSUME NEW n \in Nat PROVE n \in S
  OBVIOUS
<1>1. 0..n \subseteq S
  BY InductionUpTo
<1> QED
  BY <1>1

-----------------------------------------------------------------------------
(* Division with remainder *)

LEMMA DivMod ==
    ASSUME NEW a \in Int, NEW k \in Nat \ {0}
    PROVE  /\ a % k \in 0..(k - 1)
           /\ a \div k \in Int
           /\ a = k * (a \div k) + (a % k)
OBVIOUS

\* Quotient and remainder are unique.
LEMMA DivModUnique ==
    ASSUME NEW k \in Nat \ {0}, NEW q \in Int, NEW r \in 0..(k - 1)
    PROVE  /\ (k * q + r) \div k = q
           /\ (k * q + r) % k = r
OBVIOUS

\* Adding k adds one to the quotient and keeps the remainder.
LEMMA ModShift ==
    ASSUME NEW a \in Int, NEW k \in Nat \ {0}
    PROVE  /\ (a + k) % k = a % k
           /\ (a + k) \div k = (a \div k) + 1
<1> DEFINE q == a \div k
           r == a % k
<1>1. q \in Int /\ r \in 0..(k - 1) /\ a = k * q + r
  BY DivMod
<1> HIDE DEF q, r
<1>2. q + 1 \in Int /\ a + k = k * (q + 1) + r
  BY <1>1
<1>3. (k * (q + 1) + r) % k = r /\ (k * (q + 1) + r) \div k = q + 1
  BY <1>1, <1>2, DivModUnique
<1> QED
  BY <1>2, <1>3 DEF q, r

LEMMA ModSmall ==
    ASSUME NEW k \in Nat \ {0}, NEW r \in 0..(k - 1)
    PROVE  r % k = r /\ r \div k = 0
OBVIOUS
=============================================================================
