------------------------------- MODULE Numbers -------------------------------
(***************************************************************************)
(* Facts about numbers that the provers do not know: induction, for a set  *)
(* in the place of the predicate since none can instantiate an operator,   *)
(* division, and the powers of two.                                        *)
(***************************************************************************)
EXTENDS Integers, WellFoundedInduction, TLAPS

\* A set of natural numbers has a least element.
LEMMA Least ==
    ASSUME NEW T, T \subseteq Nat, T # {}
    PROVE  \E x \in T : \A y \in T : x <= y
<1> DEFINE Less == {ss \in Nat \X Nat : ss[1] < ss[2]}
<1>1. OpToRel(<, Nat) = Less
  BY Zenon DEF OpToRel
<1>2. IsWellFoundedOn(Less, Nat)
  BY <1>1, NatLessThanWellFounded, Zenon
<1> HIDE DEF Less
<1>3. PICK x \in T : \A y \in T : ~ (<<y, x>> \in Less)
  BY <1>2, WFMin, Zenon
<1>4. \A y \in T : x <= y
  <2> SUFFICES ASSUME NEW y \in T, y < x
               PROVE  FALSE
    OBVIOUS
  <2>1. <<y, x>> \in Less
    BY SMT DEF Less
  <2> QED BY <1>3, <2>1
<1> QED BY <1>4

\* What holds at 0, and of n + 1 if it holds of n, holds of every n.
LEMMA NatInd ==
    ASSUME NEW T, 0 \in T, \A n \in Nat : n \in T => n + 1 \in T
    PROVE  \A n \in Nat : n \in T
<1> DEFINE Bad == {n \in Nat : n \notin T}
<1>1. SUFFICES ASSUME Bad # {} PROVE FALSE
  OBVIOUS
<1>2. PICK x \in Bad : \A y \in Bad : x <= y
  BY <1>1, Least
<1>3. x # 0 /\ x - 1 \in Nat
  BY <1>2
<1>4. x - 1 \in T
  BY <1>2, <1>3
<1> QED BY <1>2, <1>3, <1>4

(***************************************************************************)
(* Division                                                                *)
(***************************************************************************)

\* A quotient and a remainder.
LEMMA Division ==
    ASSUME NEW a \in Int, NEW d \in Nat \ {0}
    PROVE  /\ a \div d \in Int /\ (a % d) \in 0 .. d - 1
           /\ a = d * (a \div d) + (a % d)
           /\ a >= 0 => a \div d \in Nat
<1>1. a \div d \in Int /\ (a % d) \in 0 .. d - 1
  OBVIOUS
<1>2. a = d * (a \div d) + (a % d)
  OBVIOUS
<1>3. a >= 0 => a \div d \in Nat
  OBVIOUS
<1> QED BY <1>1, <1>2, <1>3

\* The only ones.
LEMMA DivisionOf ==
    ASSUME NEW a \in Int, NEW d \in Nat \ {0}, NEW q \in Int, NEW r \in 0 .. d - 1,
           a = d * q + r
    PROVE  a \div d = q /\ (a % d) = r
<1>1. a \div d = q
  OBVIOUS
<1>2. (a % d) = r
  OBVIOUS
<1> QED BY <1>1, <1>2

\* A remainder does not see multiples.
LEMMA SameResidue ==
    ASSUME NEW a \in Int, NEW d \in Nat \ {0}, NEW k \in Int
    PROVE  ((a + d * k) % d) = (a % d)
<1>1. /\ a \div d \in Int /\ (a % d) \in 0 .. d - 1
      /\ a = d * (a \div d) + (a % d)
  BY Division
<1>2. a + d * k = d * (a \div d + k) + (a % d) /\ a + d * k \in Int /\ a \div d + k \in Int
  BY <1>1
<1> DEFINE b == a + d * k
           q == a \div d + k
           r == (a % d)
<1> HIDE DEF b, q, r
<1>3. b \in Int /\ q \in Int /\ r \in 0 .. d - 1 /\ b = d * q + r
  BY <1>1, <1>2 DEF b, q, r
<1>4. (b % d) = r
  BY <1>3, DivisionOf
<1> QED BY <1>4 DEF b, r

\* Products respect an order.
LEMMA Products ==
    ASSUME NEW a \in Nat, NEW b \in Nat, NEW x \in Nat, NEW y \in Nat, a <= b, x <= y
    PROVE  a * x <= b * y
<1>1. a * x <= b * x
  OBVIOUS
<1>2. b * x <= b * y
  OBVIOUS
<1> QED BY <1>1, <1>2

\* What a product is compared with, its factor is compared with.
LEMMA Cancel ==
    ASSUME NEW d \in Nat \ {0}, NEW a \in Int, NEW b \in Int
    PROVE  (d * a <= d * b => a <= b) /\ (d * a < d * b => a < b)
<1>1. ASSUME a > b PROVE d * a > d * b
  <2>1. a - b >= 1 /\ d * (a - b) >= d
    BY <1>1
  <2>2. d * a = d * b + d * (a - b)
    OBVIOUS
  <2> QED BY <2>1, <2>2
<1>2. a = b => d * a = d * b
  OBVIOUS
<1> QED BY <1>1, <1>2

(***************************************************************************)
(* Powers of two                                                           *)
(***************************************************************************)

\* What a power of two is, up to some exponent.
PowersUpTo(n) == 2 ^ 0 = 1 /\ \A k \in 1 .. n : 2 ^ k = 2 * 2 ^ (k - 1)

\* They are positive numbers.
LEMMA PowerPositive ==
    ASSUME NEW n \in Nat, PowersUpTo(n)
    PROVE  \A k \in 0 .. n : 2 ^ k \in Nat \ {0}
<1> DEFINE T == {k \in Nat : k <= n => 2 ^ k \in Nat \ {0}}
<1>1. 0 \in T
  BY DEF PowersUpTo
<1>2. ASSUME NEW k \in Nat, k \in T
      PROVE  k + 1 \in T
  <2> SUFFICES ASSUME k + 1 <= n
               PROVE  2 ^ (k + 1) \in Nat \ {0}
    OBVIOUS
  <2>1. 2 ^ k \in Nat \ {0}
    BY <1>2
  <2>2. k + 1 \in 1 .. n /\ k + 1 - 1 = k
    OBVIOUS
  <2>3. 2 ^ (k + 1) = 2 * 2 ^ k
    BY <2>2 DEF PowersUpTo
  <2> QED BY <2>1, <2>3
<1> HIDE DEF T
<1>3. \A k \in Nat : k \in T
  BY <1>1, <1>2, NatInd
<1> QED BY <1>3 DEF T

\* The product of two of them.
LEMMA PowerSum ==
    ASSUME NEW n \in Nat, PowersUpTo(n), NEW a \in Nat, NEW b \in Nat, a + b <= n
    PROVE  2 ^ (a + b) = 2 ^ a * 2 ^ b
<1> DEFINE T == {c \in Nat : a + c <= n => 2 ^ (a + c) = 2 ^ a * 2 ^ c}
<1>1. 0 \in T
  <2>1. 2 ^ a \in Nat /\ a + 0 = a
    BY PowerPositive
  <2> QED BY <2>1 DEF PowersUpTo
<1>2. ASSUME NEW c \in Nat, c \in T
      PROVE  c + 1 \in T
  <2> SUFFICES ASSUME a + (c + 1) <= n
               PROVE  2 ^ (a + (c + 1)) = 2 ^ a * 2 ^ (c + 1)
    OBVIOUS
  <2>1. 2 ^ (a + c) = 2 ^ a * 2 ^ c
    BY <1>2
  <2>2. 2 ^ a \in Nat /\ 2 ^ c \in Nat
    BY PowerPositive
  <2>3. /\ a + (c + 1) \in 1 .. n /\ a + (c + 1) - 1 = a + c
        /\ c + 1 \in 1 .. n /\ c + 1 - 1 = c
    OBVIOUS
  <2>4. 2 ^ (a + (c + 1)) = 2 * 2 ^ (a + c) /\ 2 ^ (c + 1) = 2 * 2 ^ c
    BY <2>3 DEF PowersUpTo
  <2> QED BY <2>1, <2>2, <2>4
<1> HIDE DEF T
<1>3. \A c \in Nat : c \in T
  BY <1>1, <1>2, NatInd
<1> QED BY <1>3 DEF T

\* They grow.
LEMMA PowerOrder ==
    ASSUME NEW n \in Nat, PowersUpTo(n), NEW a \in Nat, NEW b \in Nat, a <= b, b <= n
    PROVE  2 ^ a <= 2 ^ b /\ (a < b => 2 * 2 ^ a <= 2 ^ b)
<1>1. b - a \in Nat /\ a + (b - a) = b /\ b - a <= n /\ a <= n
  OBVIOUS
<1>2. 2 ^ b = 2 ^ a * 2 ^ (b - a)
  BY <1>1, PowerSum
<1>3. 2 ^ a \in Nat \ {0} /\ 2 ^ (b - a) \in Nat \ {0} /\ 2 ^ b \in Nat
  BY <1>1, PowerPositive
<1>4. a < b => \E c \in Nat : 2 ^ (b - a) = 2 * c
  <2> SUFFICES ASSUME a < b PROVE \E c \in Nat : 2 ^ (b - a) = 2 * c
    OBVIOUS
  <2>1. b - a \in 1 .. n /\ b - a - 1 \in 0 .. n
    BY <1>1
  <2>2. 2 ^ (b - a) = 2 * 2 ^ (b - a - 1) /\ 2 ^ (b - a - 1) \in Nat
    BY <2>1, PowerPositive DEF PowersUpTo
  <2> QED BY <2>2
<1>5. ASSUME NEW x \in Nat \ {0}, NEW y \in Nat \ {0}
      PROVE  x <= x * y /\ \A c \in Nat : y = 2 * c => 2 * x <= x * y
  <2>1. x <= x * y
    BY <1>5
  <2>2. ASSUME NEW c \in Nat, y = 2 * c PROVE 2 * x <= x * y
    <3>1. c >= 1 /\ x * y = 2 * (x * c) /\ x * c >= x
      BY <2>2, <1>5
    <3> QED BY <3>1
  <2> QED BY <2>1, <2>2
<1> QED BY <1>2, <1>3, <1>4, <1>5
=============================================================================
