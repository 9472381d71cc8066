----------------------------- MODULE NatLemmas -----------------------------
(***************************************************************************)
(* The least number principle, which stands in for induction in the proofs  *)
(* about sequences: what a loop finds first is the least index at which its *)
(* test succeeds; and what the proofs use of products and quotients.        *)
(***************************************************************************)
EXTENDS Integers, WellFoundedInduction, TLAPS

LEMMA BelowIsRelated == \A x, y \in Nat : y < x => <<y, x>> \in OpToRel(<, Nat)
  BY Zenon DEF OpToRel

LEMMA LeastNumber ==
  ASSUME NEW T, T \subseteq Nat, T # {}
  PROVE  \E x \in T : \A y \in T : x <= y
<1>1. \E x \in T : \A y \in T : ~ (<<y, x>> \in OpToRel(<, Nat))
  BY NatLessThanWellFounded, WFMin, Zenon
<1>2. \E x \in T : \A y \in T : ~ (y < x)
  BY <1>1, BelowIsRelated, Zenon
<1> QED BY <1>2

\* The same from above.
LEMMA GreatestNumber ==
  ASSUME NEW T, T \subseteq Nat, T # {}, NEW n \in Nat, \A x \in T : x <= n
  PROVE  \E x \in T : \A y \in T : y <= x
<1> DEFINE B == {b \in Nat : \A x \in T : x <= b}
<1>1. B \subseteq Nat /\ B # {}
  OBVIOUS
<1>2. PICK b \in B : \A c \in B : b <= c
  <2> HIDE DEF B
  <2> QED BY <1>1, LeastNumber
<1>3. b \in T
  <2> SUFFICES ASSUME b \notin T PROVE FALSE
    OBVIOUS
  <2>1. \A x \in T : x <= b - 1 /\ b - 1 \in Nat
    OBVIOUS
  <2>2. b - 1 \in B
    BY <2>1
  <2> QED BY <1>2, <2>2
<1> QED BY <1>3

-----------------------------------------------------------------------------
(* Quotients.                                                               *)

\* The quotient and the remainder are the only ones there are.
LEMMA Quotient ==
  ASSUME NEW q \in Nat, NEW c \in Nat \ {0}, NEW r \in 0 .. c - 1
  PROVE  (q * c + r) \div c = q /\ (q * c + r) % c = r
OBVIOUS

\* Every number has a quotient and a remainder.
LEMMA Divided ==
  ASSUME NEW k \in Nat, NEW c \in Nat \ {0}
  PROVE  /\ k \div c \in Nat /\ k % c \in 0 .. c - 1
         /\ k = (k \div c) * c + (k % c)
OBVIOUS

\* What is used of products.
LEMMA Products ==
  /\ \A a, b \in Nat : a * b \in Nat /\ a * b = b * a
  /\ \A a, b \in Nat \ {0} : a * b \in Nat \ {0}
  /\ \A a, b, c \in Nat : (a * b) * c = a * (b * c) /\ (a + b) * c = a * c + b * c
  /\ \A a, b, c \in Nat : a <= b => a * c <= b * c
OBVIOUS

LEMMA NextProduct ==
  ASSUME NEW a \in Nat, NEW b \in Nat PROVE (a + 1) * b = a * b + b
OBVIOUS

\* What is in row e of b numbers has the same quotient by a multiple of b as the
\* row's first.
LEMMA RowQuotient ==
  ASSUME NEW e \in Nat, NEW b \in Nat \ {0}, NEW t \in Nat \ {0}, NEW r \in 0 .. b - 1
  PROVE  (e * b + r) \div (t * b) = e \div t
<1> DEFINE f == e \div t
           s == e % t
<1>1. f \in Nat /\ s \in 0 .. t - 1 /\ e = f * t + s
  BY Divided
<1> HIDE DEF f, s
<1>2. /\ e * b = (f * t) * b + s * b /\ (f * t) * b = f * (t * b)
      /\ s * b \in Nat /\ t * b \in Nat \ {0} /\ (t - 1) * b = t * b - b
      /\ s * b <= (t - 1) * b
  <2>1. f * t \in Nat /\ s \in Nat /\ t - 1 \in Nat /\ s <= t - 1 /\ b \in Nat
        /\ t = (t - 1) + 1
    BY <1>1, Products
  <2>2. (f * t + s) * b = (f * t) * b + s * b
    BY <2>1, Products
  <2>3. (f * t) * b = f * (t * b)
    BY <1>1, Products
  <2>4. s * b \in Nat /\ t * b \in Nat \ {0}
    BY <2>1, Products
  <2>5. ((t - 1) + 1) * b = (t - 1) * b + 1 * b
    BY <2>1, Products
  <2>6. s * b <= (t - 1) * b /\ (t - 1) * b \in Nat
    BY <2>1, Products
  <2> QED BY <1>1, <2>1, <2>2, <2>3, <2>4, <2>5, <2>6
<1>3. s * b + r \in 0 .. t * b - 1
  <2> DEFINE sb == s * b
             tb == t * b
             ub == (t - 1) * b
  <2>1. sb \in Nat /\ tb \in Nat /\ ub = tb - b /\ sb <= ub
    BY <1>2
  <2> HIDE DEF sb, tb, ub
  <2>2. sb + r \in 0 .. tb - 1
    BY <2>1
  <2> QED BY <2>2 DEF sb, tb
<1>4. e * b + r = f * (t * b) + (s * b + r)
  <2> DEFINE A == e * b
             B == (f * t) * b
             C == f * (t * b)
             D == s * b
  <2>1. A = B + D /\ B = C /\ D \in Nat /\ C \in Nat
    BY <1>1, <1>2, Products
  <2> HIDE DEF A, B, C, D
  <2>2. A + r = C + (D + r)
    BY <2>1
  <2> QED BY <2>2 DEF A, B, C, D
<1>5. (f * (t * b) + (s * b + r)) \div (t * b) = f
  BY <1>1, <1>2, <1>3, Quotient
<1> QED BY <1>4, <1>5 DEF f

\* The multiples beyond a number come after its quotient.
LEMMA Multiples ==
  ASSUME NEW span \in Nat, NEW s \in Nat \ {0}, NEW n \in Nat
  PROVE  /\ span \div s + 1 \in Nat \ {0}
         /\ n * s > span <=> n >= span \div s + 1
<1> DEFINE d == span \div s
           m == span % s
<1>1. d \in Nat /\ m \in 0 .. s - 1 /\ span = d * s + m
  BY Divided
<1> HIDE DEF d, m
<1>2. /\ d * s \in Nat /\ n * s \in Nat /\ (d + 1) * s = d * s + s
      /\ n <= d => n * s <= d * s
      /\ d + 1 <= n => (d + 1) * s <= n * s
  BY <1>1, Products
<1>3. n * s > span <=> n >= d + 1
  <2> DEFINE ds == d * s
             ns == n * s
             es == (d + 1) * s
  <2>1. /\ ds \in Nat /\ ns \in Nat /\ es = ds + s /\ span = ds + m
        /\ (n <= d => ns <= ds) /\ (d + 1 <= n => es <= ns)
    BY <1>1, <1>2
  <2> HIDE DEF ds, ns, es
  <2>2. ns > span <=> n >= d + 1
    BY <1>1, <2>1
  <2> QED BY <2>2 DEF ns
<1> QED BY <1>1, <1>3 DEF d
=============================================================================
