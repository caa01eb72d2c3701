------------------------ MODULE ModularBatches_proofs ------------------------
(***************************************************************************)
(* The arithmetic of ModularInt, for every width of the words, every size  *)
(* of a double's significand and of a register, and every modulus that     *)
(* ModularIntParams::Create accepts.                                       *)
(***************************************************************************)
EXTENDS ModularBatches, FiniteSetTheorems, Numbers

(***************************************************************************)
(* Powers of two                                                           *)
(***************************************************************************)

LEMMA KnownPowers == 3 * IntBits \in Nat /\ PowersUpTo(3 * IntBits)
  BY IntBitsAssumption, PowersAssumption DEF PowersUpTo

\* Every power of two in use is a positive number.
LEMMA PowersPositive ==
    \A k \in 0 .. 3 * IntBits : 2 ^ k \in Nat \ {0}
  BY KnownPowers, PowerPositive

\* The product of two powers.
LEMMA PowersAdd ==
    \A a, b \in Nat : a + b <= 3 * IntBits => 2 ^ (a + b) = 2 ^ a * 2 ^ b
  BY KnownPowers, PowerSum

\* Powers grow.
LEMMA PowersGrow ==
    ASSUME NEW a \in Nat, NEW b \in Nat, a <= b, b <= 3 * IntBits
    PROVE  2 ^ a <= 2 ^ b /\ (a < b => 2 * 2 ^ a <= 2 ^ b)
  BY KnownPowers, PowerOrder

\* The bit width of a number.
LEMMA BitWidthOf ==
    ASSUME NEW x \in Nat, x < 2 ^ (3 * IntBits)
    PROVE  /\ BitWidth(x) \in 0 .. 3 * IntBits
           /\ x < 2 ^ BitWidth(x)
           /\ BitWidth(x) = 0 \/ 2 ^ (BitWidth(x) - 1) <= x
<1> DEFINE T == {n \in 0 .. 3 * IntBits : x < 2 ^ n}
<1>1. T \subseteq Nat /\ 3 * IntBits \in T
  BY IntBitsAssumption
<1>2. PICK n \in T : \A k \in T : n <= k
  BY <1>1, Least
<1>3. n \in 0 .. 3 * IntBits /\ 2 ^ n > x
  BY <1>2, PowersPositive
<1>4. n = 0 \/ 2 ^ (n - 1) <= x
  <2> SUFFICES ASSUME n # 0, ~ (2 ^ (n - 1) <= x) PROVE FALSE
    OBVIOUS
  <2>1. n - 1 \in 0 .. 3 * IntBits /\ 2 ^ (n - 1) \in Nat
    BY <1>3, IntBitsAssumption, PowersPositive
  <2>2. n - 1 \in T
    BY <2>1
  <2> QED BY <1>2, <1>3, <2>2, IntBitsAssumption
<1>5. /\ BitWidth(x) \in 0 .. 3 * IntBits
      /\ 2 ^ BitWidth(x) > x
      /\ BitWidth(x) = 0 \/ 2 ^ (BitWidth(x) - 1) <= x
  BY <1>3, <1>4 DEF BitWidth
<1> QED BY <1>5, PowersPositive

(***************************************************************************)
(* Barrett reduction                                                       *)
(***************************************************************************)

\* A word holds four of the largest power of two beyond the moduli.
LEMMA Widths ==
    /\ IntSize \in Nat
    /\ 2 ^ (IntBits - 2) \in Nat \ {0, 1}
    /\ IntSize = 4 * 2 ^ (IntBits - 2)
    /\ IntSize \div 2 = 2 * 2 ^ (IntBits - 2)
    /\ 2 ^ (2 * IntBits - 1) = IntSize * (2 * 2 ^ (IntBits - 2))
<1>1. /\ IntBits - 2 \in Nat /\ 2 \in Nat /\ IntBits - 2 + 2 = IntBits /\ IntBits <= 3 * IntBits
      /\ IntBits - 1 \in Nat /\ IntBits + (IntBits - 1) = 2 * IntBits - 1
      /\ 2 * IntBits - 1 <= 3 * IntBits /\ IntBits \in Nat
      /\ IntBits - 1 \in 1 .. 3 * IntBits /\ IntBits - 1 - 1 = IntBits - 2
      /\ IntBits - 2 \in 1 .. 3 * IntBits /\ IntBits - 2 - 1 \in 0 .. 3 * IntBits
  BY IntBitsAssumption
<1>2. 2 ^ 2 = 4
  OBVIOUS
<1>3. 2 ^ (IntBits - 2 + 2) = 2 ^ (IntBits - 2) * 2 ^ 2
  BY <1>1, PowersAdd
<1>4. 2 ^ (IntBits + (IntBits - 1)) = 2 ^ IntBits * 2 ^ (IntBits - 1)
  BY <1>1, PowersAdd
<1>5. 2 ^ (IntBits - 1) = 2 * 2 ^ (IntBits - 2)
  BY <1>1, PowersAssumption
<1>6. 2 ^ (IntBits - 2) \in Nat \ {0} /\ 2 ^ IntBits \in Nat
  BY <1>1, PowersPositive, IntBitsAssumption
<1>7. 2 ^ (IntBits - 2) = 2 * 2 ^ (IntBits - 2 - 1) /\ 2 ^ (IntBits - 2 - 1) \in Nat \ {0}
  BY <1>1, PowersAssumption, PowersPositive
<1> DEFINE quarter == 2 ^ (IntBits - 2)
<1> HIDE DEF quarter
<1>8. IntSize = 4 * quarter /\ quarter \in Nat \ {0, 1}
  BY <1>1, <1>2, <1>3, <1>6, <1>7 DEF IntSize, quarter
<1>9. IntSize \div 2 = 2 * quarter
  BY <1>8
<1>10. 2 ^ (2 * IntBits - 1) = IntSize * (2 * quarter)
  BY <1>1, <1>2, <1>4, <1>5 DEF IntSize, quarter
<1> QED BY <1>8, <1>9, <1>10 DEF quarter

\* A modulus.
LEMMA ModulusOf ==
    ASSUME NEW m \in Moduli
    PROVE  m \in Nat \ {0} /\ 4 * m < IntSize /\ m < 2 ^ (IntBits - 2) /\ (m % 2) = 1
BY Widths DEF Moduli

\* The quotient by a reciprocal with D in the place of 1 and with a constant
\* factor: short by less than two.
LEMMA Barrett ==
    ASSUME NEW D \in Nat \ {0}, NEW m \in Nat \ {0}, NEW c \in Nat, NEW x \in 0 .. D,
           NEW q, q = (((c * D) \div m) * x) \div D
    PROVE  q \in Nat /\ q * m <= c * x /\ c * x < q * m + 2 * m
<1> DEFINE mu == (c * D) \div m
           s == ((c * D) % m)
           product == mu * x
           t == (product % D)
<1>1. c * D \in Nat
  OBVIOUS
<1>2. mu \in Nat /\ s \in 0 .. m - 1 /\ c * D = m * mu + s
  BY <1>1, Division
<1> HIDE DEF mu, s
<1>3. product \in Int /\ product >= 0
  BY <1>2
<1> HIDE DEF product
<1>4. product \div D \in Nat /\ t \in 0 .. D - 1 /\ product = D * (product \div D) + t
  BY <1>3, Division
<1> HIDE DEF t
<1>5. q \in Nat /\ mu * x = D * q + t
  BY <1>4 DEF mu, product
<1>6. D * (c * x - q * m) = s * x + m * t
  <2>1. D * (c * x) = (c * D) * x
    OBVIOUS
  <2>2. (c * D) * x = m * (mu * x) + s * x
    BY <1>2
  <2>3. m * (mu * x) = D * (q * m) + m * t
    BY <1>4, <1>5
  <2>4. D * (c * x - q * m) = D * (c * x) - D * (q * m)
    BY <1>5
  <2>5. /\ c * x - q * m \in Int /\ D * (c * x - q * m) \in Int /\ D * (c * x) \in Int /\ D * (q * m) \in Int
        /\ m * (mu * x) \in Int /\ s * x \in Int /\ m * t \in Int
    BY <1>2, <1>4, <1>5
  <2> QED BY <2>1, <2>2, <2>3, <2>4, <2>5
<1>7. s * x <= m * D /\ m * t < m * D /\ s * x >= 0 /\ m * t >= 0
  <2>1. s * x <= m * D
    BY <1>2, Products
  <2>2. m * t < m * D
    BY <1>4
  <2> QED BY <1>2, <1>4, <2>1, <2>2
<1>8. D * 0 <= D * (c * x - q * m) /\ D * (c * x - q * m) < D * (2 * m)
  <2>1. s * x \in Int /\ m * t \in Int /\ m * D \in Int /\ D * (2 * m) = m * D + m * D /\ D * 0 = 0
    BY <1>2, <1>4
  <2> QED BY <2>1, <1>6, <1>7
<1>9. 0 <= c * x - q * m /\ c * x - q * m < 2 * m
  <2> DEFINE v == c * x - q * m
  <2>1. v \in Int /\ 0 \in Int /\ 2 * m \in Int
    BY <1>5
  <2>2. D * 0 <= D * v /\ D * v < D * (2 * m)
    BY <1>8
  <2> HIDE DEF v
  <2>3. 0 <= v /\ v < 2 * m
    BY <2>1, <2>2, Cancel
  <2> QED BY <2>3 DEF v
<1> QED BY <1>5, <1>9

\* What is left of a number after such a quotient, settled.
LEMMA Settled ==
    ASSUME NEW m \in Moduli, NEW v \in Int, NEW q \in Int, q * m <= v, v < q * m + 2 * m
    PROVE  Settle(ToInt(v - q * m), m) = (v % m)
<1>1. m \in Nat \ {0} /\ 4 * m < IntSize /\ IntSize \in Nat
  BY ModulusOf, Widths
<1> DEFINE r == v - q * m
<1>2. r \in 0 .. 2 * m - 1 /\ v = m * q + r
  BY <1>1
<1> HIDE DEF r
<1>3. ToInt(r) = r
  <2>1. r \in Int /\ 0 \in Int /\ r \in 0 .. IntSize - 1 /\ IntSize \in Nat \ {0} /\ r = IntSize * 0 + r
    BY <1>1, <1>2
  <2> QED BY <2>1, DivisionOf DEF ToInt
<1>4. CASE r < m
  <2>1. r \in 0 .. m - 1
    BY <1>1, <1>2, <1>4
  <2>2. (v % m) = r
    BY <2>1, <1>1, <1>2, DivisionOf
  <2> QED BY <1>1, <1>2, <1>3, <1>4, <2>2 DEF Settle, r
<1>5. CASE r >= m
  <2>1. r - m \in 0 .. m - 1 /\ q + 1 \in Int /\ v = m * (q + 1) + (r - m)
    BY <1>1, <1>2, <1>5
  <2>2. (v % m) = r - m
    BY <2>1, <1>1, DivisionOf
  <2> QED BY <1>1, <1>2, <1>3, <1>5, <2>2 DEF Settle, r
<1> QED BY <1>1, <1>2, <1>4, <1>5

\* A word is its own value.
LEMMA ToIntOf ==
    /\ \A x \in 0 .. IntSize - 1 : ToInt(x) = x
    /\ \A x, k \in Int : ToInt(x) \in 0 .. IntSize - 1 /\ ToInt(x + IntSize * k) = ToInt(x)
<1>1. IntSize \in Nat \ {0}
  BY Widths
<1>2. ASSUME NEW x \in 0 .. IntSize - 1 PROVE ToInt(x) = x
  <2>1. x \in Int /\ 0 \in Int /\ x = IntSize * 0 + x
    BY <1>1
  <2> QED BY <1>1, <2>1, DivisionOf DEF ToInt
<1>3. ASSUME NEW x \in Int, NEW k \in Int
      PROVE  ToInt(x) \in 0 .. IntSize - 1 /\ ToInt(x + IntSize * k) = ToInt(x)
  BY <1>1, Division, SameResidue DEF ToInt
<1> QED BY <1>2, <1>3

\* One quotient too few cannot exceed the number divided.
LEMMA QuotientFits ==
    ASSUME NEW m \in Nat \ {0}, NEW c \in Nat, NEW x \in Nat, NEW q \in Nat,
           q * m <= c * x, c <= m, x < IntSize
    PROVE  ToInt(q) = q
<1>1. c * x <= m * x
  BY Products
<1>2. m * q <= m * x
  BY <1>1
<1>3. q <= x
  BY <1>2, Cancel
<1> QED BY <1>3, ToIntOf, Widths

\* The reduction of any word.
LEMMA BarrettReduceExact ==
    ASSUME NEW m \in Moduli, NEW x \in 0 .. IntSize - 1
    PROVE  BarrettReduce(x, m) = (x % m)
<1>1. m \in Nat \ {0} /\ IntSize \in Nat \ {0} /\ 1 <= m /\ 1 \in Nat
  BY ModulusOf, Widths
<1> DEFINE q == (((1 * IntSize) \div m) * x) \div IntSize
<1>2. q \in Nat /\ q * m <= 1 * x /\ 1 * x < q * m + 2 * m
  <2>1. x \in 0 .. IntSize
    BY <1>1
  <2> QED BY <1>1, <2>1, Barrett
<1>3. (BarrettNumerator(m) * x) \div IntSize = q
  BY <1>1 DEF BarrettNumerator
<1> HIDE DEF q
<1>4. ToInt(q) = q
  <2>1. x \in Nat /\ x < IntSize /\ x <= m * x /\ m * x \in Nat
    BY <1>1
  <2>2. m * q <= m * x
    BY <1>1, <1>2, <2>1
  <2>3. q <= x
    BY <1>1, <1>2, <2>1, <2>2, Cancel
  <2> QED BY <1>1, <1>2, <2>1, <2>3, ToIntOf
<1>5. Settle(ToInt(x - q * m), m) = (x % m)
  <2>1. x \in Int /\ q \in Int /\ q * m <= x /\ x < q * m + 2 * m
    BY <1>1, <1>2
  <2> QED BY <2>1, Settled
<1> QED BY <1>3, <1>4, <1>5 DEF BarrettReduce

\* The reduction of a product.
LEMMA BarrettReduceBigExact ==
    ASSUME NEW m \in Moduli, NEW x \in 0 .. m * m
    PROVE  BarrettReduceBig(x, m) = (x % m)
<1> DEFINE D == 2 ^ (2 * IntBits - 1)
           q == (((1 * D) \div m) * x) \div D
<1>1. m \in Nat \ {0} /\ 4 * m < IntSize /\ IntSize \in Nat \ {0} /\ 1 \in Nat
  BY ModulusOf, Widths
<1>2. D \in Nat \ {0} /\ D = IntSize * (IntSize \div 2) /\ IntSize \div 2 \in Nat /\ m <= IntSize \div 2
  BY Widths, ModulusOf
<1>3. (BarrettNumeratorBig(m) * x) \div D = q
  BY <1>2 DEF BarrettNumeratorBig
<1>4. x \in 0 .. D
  <2>1. m * m <= IntSize * (IntSize \div 2)
    BY <1>1, <1>2, Products
  <2> HIDE DEF D
  <2> QED BY <1>1, <1>2, <2>1
<1>5. q \in Nat /\ q * m <= 1 * x /\ 1 * x < q * m + 2 * m
  <2> HIDE DEF D
  <2> QED BY <1>1, <1>2, <1>4, Barrett
<1> HIDE DEF q
<1>6. ToInt(q) = q
  <2>1. m * q <= m * m
    BY <1>1, <1>5
  <2>2. q <= m
    BY <1>1, <1>5, <2>1, Cancel
  <2> QED BY <1>1, <1>5, <2>2, ToIntOf
<1>7. ToInt(ToInt(x) - q * m) = ToInt(x - q * m)
  <2>0. x \in Int
    BY <1>1
  <2> DEFINE k0 == x \div IntSize
             r0 == (x % IntSize)
  <2>a. k0 \in Int /\ r0 \in 0 .. IntSize - 1 /\ x = IntSize * k0 + r0
    BY <1>1, <2>0, Division
  <2> HIDE DEF k0, r0
  <2>b. ToInt(x) = r0
    BY DEF ToInt, r0
  <2>1. k0 \in Int /\ ToInt(x) = x - IntSize * k0 /\ ToInt(x) \in Int
    BY <1>1, <2>a, <2>b
  <2> DEFINE k == - k0
             y == x - q * m
  <2>2. k \in Int /\ y \in Int /\ ToInt(x) - q * m = y + IntSize * k
    BY <1>1, <1>5, <2>1
  <2> HIDE DEF k, y
  <2>3. ToInt(y + IntSize * k) = ToInt(y)
    BY <2>2, ToIntOf
  <2> QED BY <2>2, <2>3 DEF y
<1>8. Settle(ToInt(x - q * m), m) = (x % m)
  <2>1. x \in Int /\ q \in Int /\ q * m <= x /\ x < q * m + 2 * m
    BY <1>1, <1>5
  <2> QED BY <2>1, Settled
<1> QED BY <1>3, <1>6, <1>7, <1>8 DEF BarrettReduceBig

\* Sums and differences of the lazy operands.
THEOREM Sums == \A m \in Moduli : SumsExact(m)
<1> SUFFICES ASSUME NEW m \in Moduli PROVE SumsExact(m)
  OBVIOUS
<1>1. m \in Nat \ {0} /\ 4 * m < IntSize /\ IntSize \in Nat \ {0}
  BY ModulusOf, Widths
<1>2. \A x \in 0 .. IntSize - 1 : BarrettReduce(x, m) = (x % m)
  BY BarrettReduceExact
<1>3. ASSUME NEW x \in 0 .. 3 * m, NEW y \in 0 .. m
      PROVE  Add(x, y, m) = ((x + y) % m) /\ Sub(x, y, m) = ((x - y) % m)
  <2>1. x + y \in 0 .. IntSize - 1 /\ x + (m - y) \in 0 .. IntSize - 1
    BY <1>1
  <2>2. ToInt(x + y) = x + y /\ ToInt(x + (m - y)) = x + (m - y)
    BY <2>1, ToIntOf
  <2>3. ((x + (m - y)) % m) = ((x - y) % m)
    <3>1. x - y \in Int /\ 1 \in Int /\ x + (m - y) = (x - y) + m * 1
      BY <1>1
    <3> QED BY <1>1, <3>1, SameResidue
  <2> QED BY <1>2, <2>1, <2>2, <2>3 DEF Add, Sub
<1> QED BY <1>2, <1>3 DEF SumsExact

\* A product of residues, and one added to a residue.
LEMMA MulExact ==
    ASSUME NEW m \in Moduli, NEW x \in 0 .. m - 1, NEW y \in 0 .. m - 1
    PROVE  /\ Mul(x, y, m) = ((x * y) % m) /\ Mul(x, y, m) \in 0 .. m - 1
           /\ x * y \in 0 .. (m - 1) * (m - 1)
           /\ \A z \in 0 .. m - 1 : FusedMulAdd(z, x, y, m) = ((z + x * y) % m)
<1>1. m \in Nat \ {0}
  BY ModulusOf
<1>2. x * y \in Nat /\ x * y <= (m - 1) * (m - 1)
  <2>1. x \in Nat /\ y \in Nat /\ m - 1 \in Nat /\ x <= m - 1 /\ y <= m - 1
    BY <1>1
  <2> QED BY <2>1, Products
<1>3. (m - 1) * (m - 1) + (m - 1) <= m * m /\ m * m \in Nat /\ (m - 1) * (m - 1) \in Nat
  <2>1. (m - 1) * (m - 1) = m * m - 2 * m + 1
    BY <1>1
  <2> QED BY <1>1, <2>1
<1>4. x * y \in 0 .. m * m
  BY <1>1, <1>2, <1>3
<1>5. \A z \in 0 .. m - 1 : z + x * y \in 0 .. m * m
  BY <1>1, <1>2, <1>3
<1>6. Mul(x, y, m) = ((x * y) % m) /\ ((x * y) % m) \in 0 .. m - 1
  <2> DEFINE product == x * y
  <2>1. product \in Int /\ product \in 0 .. m * m
    BY <1>2, <1>4
  <2>2. Mul(x, y, m) = BarrettReduceBig(product, m)
    BY DEF Mul
  <2> HIDE DEF product
  <2>3. BarrettReduceBig(product, m) = (product % m) /\ (product % m) \in 0 .. m - 1
    BY <1>1, <2>1, BarrettReduceBigExact, Division
  <2> QED BY <2>2, <2>3 DEF product
<1>7. ASSUME NEW z \in 0 .. m - 1
      PROVE  FusedMulAdd(z, x, y, m) = ((z + x * y) % m)
  BY <1>5, BarrettReduceBigExact DEF FusedMulAdd
<1> QED BY <1>1, <1>2, <1>3, <1>6, <1>7

\* A product with a constant that comes with its reciprocal: the reciprocal is a
\* word, and so is the quotient it gives.
LEMMA ConstantQuotient ==
    ASSUME NEW m \in Moduli, NEW c \in 0 .. m - 1, NEW x \in 0 .. IntSize - 1,
           NEW q, q = (ConstantBarrett(c, m) * x) \div IntSize
    PROVE  /\ ConstantBarrett(c, m) = (c * IntSize) \div m
           /\ q \in Nat /\ ToInt(q) = q /\ q * m <= c * x /\ c * x < q * m + 2 * m
<1>1. m \in Nat \ {0} /\ IntSize \in Nat \ {0} /\ c \in Nat
  BY ModulusOf, Widths
<1> DEFINE mu == (c * IntSize) \div m
<1>2. ToInt(mu) = mu
  <2>1. c * IntSize \in Nat /\ c * IntSize < m * IntSize
    BY <1>1
  <2>2. mu \in Nat /\ m * mu <= c * IntSize
    <3> DEFINE product == c * IntSize
               rest == (product % m)
    <3>1. product \in Int /\ product >= 0
      BY <2>1
    <3> HIDE DEF product
    <3>2. product \div m \in Nat /\ rest \in 0 .. m - 1 /\ product = m * (product \div m) + rest
      BY <1>1, <3>1, Division
    <3> HIDE DEF rest
    <3>3. product \div m \in Nat /\ m * (product \div m) <= product
      BY <1>1, <3>1, <3>2
    <3> QED BY <3>3 DEF product
  <2> HIDE DEF mu
  <2>3. m * mu < m * IntSize
    BY <1>1, <2>1, <2>2
  <2>4. mu < IntSize
    BY <1>1, <2>2, <2>3, Cancel
  <2> QED BY <1>1, <2>2, <2>4, ToIntOf
<1>3. ConstantBarrett(c, m) = mu
  BY <1>2 DEF ConstantBarrett
<1>4. q = (((c * IntSize) \div m) * x) \div IntSize
  BY <1>3
<1>5. q \in Nat /\ q * m <= c * x /\ c * x < q * m + 2 * m
  <2>1. x \in 0 .. IntSize
    BY <1>1
  <2> QED BY <1>1, <1>4, <2>1, Barrett
<1>6. ToInt(q) = q
  <2>1. c <= m /\ x < IntSize /\ x \in Nat
    BY <1>1
  <2> QED BY <1>1, <1>5, <2>1, QuotientFits
<1> QED BY <1>3, <1>5, <1>6

LEMMA MulConstantExact ==
    ASSUME NEW m \in Moduli, NEW c \in 0 .. m - 1, NEW x \in 0 .. 4 * m
    PROVE  MulConstant(x, c, m) = ((x * c) % m)
<1>1. m \in Nat \ {0} /\ 4 * m < IntSize /\ IntSize \in Nat \ {0}
  BY ModulusOf, Widths
<1> DEFINE q == (ConstantBarrett(c, m) * x) \div IntSize
<1>2. x \in 0 .. IntSize - 1
  BY <1>1
<1>3. q \in Nat /\ ToInt(q) = q /\ q * m <= c * x /\ c * x < q * m + 2 * m
  BY <1>2, ConstantQuotient
<1>4. MulConstant(x, c, m) = Settle(ToInt(x * c - q * m), m)
  BY <1>3 DEF MulConstant
<1> HIDE DEF q
<1> DEFINE v == x * c
<1>5. v \in Int /\ q \in Int /\ q * m <= v /\ v < q * m + 2 * m
  BY <1>1, <1>2, <1>3
<1> HIDE DEF v
<1>6. Settle(ToInt(v - q * m), m) = (v % m)
  BY <1>5, Settled
<1> QED BY <1>4, <1>6 DEF v

\* Two quotients in one: the reciprocals are added before the shift.
LEMMA FusedMulConstantAddExact ==
    ASSUME NEW m \in Moduli, NEW c \in 0 .. m - 1, NEW x \in 0 .. m, NEW a \in 0 .. m
    PROVE  FusedMulConstantAdd(x, a, c, m) = ((x + a * c) % m)
<1>1. m \in Nat \ {0} /\ 4 * m < IntSize /\ IntSize \in Nat \ {0}
  BY ModulusOf, Widths
<1> DEFINE D == IntSize
           mu == ConstantBarrett(c, m)
           nu == BarrettNumerator(m)
           sum == mu * a + nu * x
           q == sum \div D
           t == (sum % D)
           v == x + a * c
<1>2. mu \in Nat /\ \E s \in 0 .. m - 1 : c * D = m * mu + s
  <2> DEFINE product == c * IntSize
             rest == (product % m)
  <2>1. product \in Int /\ product >= 0
    BY <1>1
  <2>2. mu = product \div m
    <3>1. 0 \in 0 .. IntSize - 1
      BY <1>1
    <3> QED BY <3>1, ConstantQuotient
  <2> HIDE DEF product, mu
  <2>3. product \div m \in Nat /\ rest \in 0 .. m - 1 /\ product = m * (product \div m) + rest
    BY <1>1, <2>1, Division
  <2> HIDE DEF rest
  <2>4. mu \in Nat /\ rest \in 0 .. m - 1 /\ product = m * mu + rest
    BY <2>2, <2>3
  <2> QED BY <2>4 DEF product
<1>3. nu \in Nat /\ \E s \in 0 .. m - 1 : D = m * nu + s
  <2> DEFINE rest == (IntSize % m)
  <2>0. IntSize \in Int /\ IntSize >= 0
    BY <1>1
  <2>1. IntSize \div m \in Nat /\ rest \in 0 .. m - 1 /\ IntSize = m * (IntSize \div m) + rest
    BY <1>1, <2>0, Division
  <2> HIDE DEF rest
  <2> QED BY <2>1 DEF BarrettNumerator
<1>4. FusedMulConstantAdd(x, a, c, m) = Settle(ToInt(x + (a * c - ToInt(q) * m)), m)
  BY Zenon DEF FusedMulConstantAdd
<1>5. D \in Nat \ {0} /\ 4 * m < D
  BY <1>1
<1> HIDE DEF D, mu, nu
<1>6. PICK s \in 0 .. m - 1 : c * D = m * mu + s
  BY <1>2
<1>7. PICK u \in 0 .. m - 1 : D = m * nu + u
  BY <1>3
<1>8. sum \in Int /\ sum >= 0
  <2>1. mu * a \in Nat /\ nu * x \in Nat
    BY <1>1, <1>2, <1>3
  <2> QED BY <2>1
<1> HIDE DEF sum
<1>9. q \in Nat /\ t \in 0 .. D - 1 /\ sum = D * q + t
  BY <1>5, <1>8, Division
<1> HIDE DEF q, t
<1>10. v \in Nat /\ v <= m * m
  <2>1. a * c <= m * (m - 1) /\ a * c \in Nat
    <3>1. a \in Nat /\ c \in Nat /\ m - 1 \in Nat /\ m \in Nat /\ a <= m /\ c <= m - 1
      BY <1>1
    <3> QED BY <3>1, Products
  <2>2. m * (m - 1) = m * m - m
    BY <1>1
  <2>3. m * m \in Nat
    BY <1>1
  <2> QED BY <1>1, <2>1, <2>2, <2>3
<1>11. D * (v - q * m) = s * a + u * x + m * t
  <2>1. D * v = (c * D) * a + D * x
    BY <1>1, <1>5
  <2>2. (c * D) * a = m * (mu * a) + s * a
    BY <1>1, <1>2, <1>6
  <2>3. D * x = m * (nu * x) + u * x
    BY <1>1, <1>3, <1>7
  <2>4. m * (mu * a) + m * (nu * x) = m * sum
    BY <1>1, <1>2, <1>3 DEF sum
  <2>5. m * sum = D * (q * m) + m * t
    BY <1>1, <1>5, <1>8, <1>9
  <2>6. D * (v - q * m) = D * v - D * (q * m)
    BY <1>1, <1>5, <1>9, <1>10
  <2>7. /\ D * v \in Int /\ D * (v - q * m) \in Int /\ D * (q * m) \in Int /\ (c * D) * a \in Int
        /\ D * x \in Int /\ m * (mu * a) \in Int /\ s * a \in Int /\ m * (nu * x) \in Int
        /\ u * x \in Int /\ m * sum \in Int /\ m * t \in Int
    BY <1>1, <1>2, <1>3, <1>5, <1>6, <1>7, <1>8, <1>9, <1>10
  <2> HIDE DEF v
  <2> QED BY <2>1, <2>2, <2>3, <2>4, <2>5, <2>6, <2>7
<1>12. /\ s * a \in Nat /\ u * x \in Nat /\ m * t \in Nat /\ m * D \in Nat
       /\ s * a + u * x <= m * D /\ m * t < m * D
  <2>1. s * a <= m * m /\ u * x <= m * m
    BY <1>1, <1>6, <1>7, Products
  <2>2. m * m + m * m <= m * D
    <3>1. m * (2 * m) <= m * D
      BY <1>1, <1>5, Products
    <3>2. m * (2 * m) = m * m + m * m
      BY <1>1
    <3> QED BY <3>1, <3>2
  <2>3. m * t < m * D
    BY <1>1, <1>5, <1>9
  <2>4. s * a \in Nat /\ u * x \in Nat /\ m * t \in Nat /\ m * D \in Nat /\ m * m \in Nat
    BY <1>1, <1>5, <1>6, <1>7, <1>9
  <2> QED BY <2>1, <2>2, <2>3, <2>4
<1> HIDE DEF v
<1>13. 0 <= v - q * m /\ v - q * m < 2 * m
  <2> DEFINE w == v - q * m
  <2>1. w \in Int /\ 0 \in Int /\ 2 * m \in Int
    BY <1>1, <1>9, <1>10
  <2>2. D * 0 = 0 /\ D * (2 * m) = m * D + m * D
    BY <1>1, <1>5
  <2>3. D * w = s * a + u * x + m * t
    BY <1>11
  <2> HIDE DEF w
  <2>4. D * 0 <= D * w /\ D * w < D * (2 * m)
    BY <1>12, <2>2, <2>3
  <2>5. 0 <= w /\ w < 2 * m
    BY <1>5, <2>1, <2>4, Cancel
  <2> QED BY <2>5 DEF w
<1>14. ToInt(q) = q
  <2>1. m * q <= m * m
    BY <1>1, <1>9, <1>10, <1>13
  <2>2. q <= m
    BY <1>1, <1>9, <2>1, Cancel
  <2> QED BY <1>1, <1>9, <2>2, ToIntOf
<1>15. Settle(ToInt(v - q * m), m) = (v % m)
  <2>1. v \in Int /\ q \in Int /\ q * m <= v /\ v < q * m + 2 * m
    BY <1>1, <1>9, <1>10, <1>13
  <2> QED BY <2>1, Settled
<1>16. v - q * m = x + (a * c - q * m)
  <2>1. a * c \in Int /\ q * m \in Int
    BY <1>1, <1>9
  <2> QED BY <1>1, <2>1 DEF v
<1> QED BY <1>4, <1>14, <1>15, <1>16 DEF v

\* The products, one factor of them a constant, added to a residue or not.
THEOREM ProductsOfResidues == \A m \in Moduli : ProductsExact(m)
<1> SUFFICES ASSUME NEW m \in Moduli, NEW y \in 0 .. m - 1
             PROVE  /\ \A x \in 0 .. m - 1 :
                           /\ Mul(x, y, m) = ((x * y) % m)
                           /\ FusedMulAdd(x, y, m - 1, m) = ((x + y * (m - 1)) % m)
                    /\ \A x \in 0 .. 4 * m : MulConstant(x, y, m) = ((x * y) % m)
                    /\ \A x, a \in {1, m \div 2, m - 1} :
                           FusedMulConstantAdd(x, a, y, m) = ((x + a * y) % m)
  BY DEF ProductsExact
<1>1. m \in Nat \ {0} /\ m - 1 \in 0 .. m - 1
  BY ModulusOf
<1>2. ASSUME NEW x \in 0 .. m - 1
      PROVE  /\ Mul(x, y, m) = ((x * y) % m)
             /\ FusedMulAdd(x, y, m - 1, m) = ((x + y * (m - 1)) % m)
  BY <1>1, MulExact
<1>3. \A x \in 0 .. 4 * m : MulConstant(x, y, m) = ((x * y) % m)
  BY MulConstantExact
<1>4. ASSUME NEW x \in {1, m \div 2, m - 1}, NEW a \in {1, m \div 2, m - 1}
      PROVE  FusedMulConstantAdd(x, a, y, m) = ((x + a * y) % m)
  <2>1. x \in 0 .. m /\ a \in 0 .. m
    BY <1>1
  <2> QED BY <2>1, FusedMulConstantAddExact
<1> QED BY <1>2, <1>3, <1>4

(***************************************************************************)
(* Lanes: sums and constants                                               *)
(***************************************************************************)

\* What TLC's words do around zero.
LEMMA Wraps ==
    \A x \in Int :
        /\ 0 <= x /\ x < IntSize => ToInt(x) = x
        /\ 0 - IntSize <= x /\ x < 0 => ToInt(x) = x + IntSize
        /\ IntSize <= x /\ x < 2 * IntSize => ToInt(x) = x - IntSize
<1> SUFFICES ASSUME NEW x \in Int
             PROVE  /\ 0 <= x /\ x < IntSize => ToInt(x) = x
                    /\ 0 - IntSize <= x /\ x < 0 => ToInt(x) = x + IntSize
                    /\ IntSize <= x /\ x < 2 * IntSize => ToInt(x) = x - IntSize
  OBVIOUS
<1>1. IntSize \in Nat \ {0}
  BY Widths
<1>2. ASSUME 0 <= x, x < IntSize PROVE ToInt(x) = x
  BY <1>1, <1>2, ToIntOf
<1>3. ASSUME 0 - IntSize <= x, x < 0 PROVE ToInt(x) = x + IntSize
  <2>1. x + IntSize \in 0 .. IntSize - 1 /\ - 1 \in Int /\ x = IntSize * (- 1) + (x + IntSize)
    BY <1>1, <1>3
  <2> QED BY <1>1, <2>1, DivisionOf DEF ToInt
<1>4. ASSUME IntSize <= x, x < 2 * IntSize PROVE ToInt(x) = x - IntSize
  <2>1. x - IntSize \in 0 .. IntSize - 1 /\ 1 \in Int /\ x = IntSize * 1 + (x - IntSize)
    BY <1>1, <1>4
  <2> QED BY <1>1, <2>1, DivisionOf DEF ToInt
<1> QED BY <1>2, <1>3, <1>4

\* The conditional subtraction is the remainder.
LEMMA SettleResidue ==
    ASSUME NEW m \in Nat \ {0}, NEW x \in 0 .. 2 * m - 1
    PROVE  Settle(x, m) = (x % m) /\ Settle(x, m) \in 0 .. m - 1
<1>1. CASE x >= m
  <2>1. x - m \in 0 .. m - 1 /\ 1 \in Int /\ x = m * 1 + (x - m) /\ x \in Int
    BY <1>1
  <2> QED BY <1>1, <2>1, DivisionOf DEF Settle
<1>2. CASE x < m
  <2>1. x \in 0 .. m - 1 /\ 0 \in Int /\ x = m * 0 + x /\ x \in Int
    BY <1>2
  <2> QED BY <1>2, <2>1, DivisionOf DEF Settle
<1> QED BY <1>1, <1>2

\* The minimum of a word and of what a subtraction leaves is the conditional
\* subtraction.
LEMMA MinimumSettles ==
    ASSUME NEW p \in Nat \ {0}, NEW r \in 0 .. 2 * p - 1, 2 * p <= IntSize
    PROVE  (IF ToInt(r - p) < r THEN ToInt(r - p) ELSE r) = Settle(r, p)
<1>1. IntSize \in Nat \ {0} /\ r - p \in Int
  BY Widths
<1>2. CASE r >= p
  <2>1. ToInt(r - p) = r - p
    BY <1>1, <1>2, Wraps
  <2> QED BY <1>2, <2>1 DEF Settle
<1>3. CASE r < p
  <2>1. ToInt(r - p) = r - p + IntSize
    BY <1>1, <1>3, Wraps
  <2> QED BY <1>1, <1>3, <2>1 DEF Settle
<1> QED BY <1>2, <1>3

\* A sum of lanes, of either width, of words that together stay below half of
\* them: one conditional subtraction.
LEMMA BatchSum ==
    ASSUME NEW p \in Nat \ {0}, 2 * p <= IntSize, NEW u \in Nat, NEW v \in Nat,
           NEW wide \in BOOLEAN, u + v < IntSize, 2 * (u + v - p) < IntSize, ~ wide => u + v < 2 * p
    PROVE  BatchAddModAvx2(u, v, p, wide) = Settle(u + v, p)
<1> DEFINE sum == u + v
           less == ToInt(sum - p)
<1>1. IntSize \in Nat \ {0} /\ 2 * (IntSize \div 2) = IntSize /\ IntSize \div 2 \in Nat /\ sum - p \in Int
  BY Widths
<1>2. ToInt(sum) = sum
  BY <1>1, ToIntOf
<1>3. BatchAddModAvx2(u, v, p, wide) =
          IF wide THEN IF IsNegative(less) THEN ToInt(less + p) ELSE less
          ELSE IF less < sum THEN less ELSE sum
  BY <1>2 DEF BatchAddModAvx2
<1>4. CASE ~ wide
  <2>1. sum \in 0 .. 2 * p - 1
    BY <1>4
  <2> HIDE DEF sum
  <2>2. (IF less < sum THEN less ELSE sum) = Settle(sum, p)
    BY <2>1, MinimumSettles
  <2>3. BatchAddModAvx2(u, v, p, wide) = IF less < sum THEN less ELSE sum
    BY <1>3, <1>4
  <2> QED BY <2>2, <2>3 DEF sum
<1>5. CASE wide /\ sum >= p
  <2>1. less = sum - p /\ ~ IsNegative(less)
    BY <1>1, <1>5, Wraps DEF IsNegative
  <2> QED BY <1>3, <1>5, <2>1 DEF Settle
<1>6. CASE wide /\ sum < p
  <2>1. less = sum - p + IntSize /\ IsNegative(less)
    BY <1>1, <1>6, Wraps DEF IsNegative
  <2>2. less + p = sum + IntSize /\ ToInt(sum + IntSize) = sum
    BY <1>1, <1>6, <2>1, Wraps
  <2>a. sum \in Nat
    OBVIOUS
  <2> HIDE DEF sum, less
  <2>3. ToInt(less + p) = sum
    BY <2>2
  <2>4. BatchAddModAvx2(u, v, p, wide) = sum
    BY <1>3, <1>6, <2>1, <2>3
  <2>5. Settle(sum, p) = sum
    BY <1>6, <2>a DEF Settle
  <2> QED BY <2>4, <2>5 DEF sum
<1> QED BY <1>1, <1>4, <1>5, <1>6

\* The lanes of sums and differences of residues.
LEMMA BatchSumsExact ==
    ASSUME NEW m \in Moduli, NEW u \in 0 .. m - 1, NEW v \in 0 .. m - 1, NEW wide \in BOOLEAN
    PROVE  /\ BatchAddModAvx2(u, v, m, wide) = Add(u, v, m)
           /\ BatchSubModAvx2(u, v, m, wide) = Sub(u, v, m)
           /\ Add(u, v, m) \in 0 .. m - 1 /\ Sub(u, v, m) \in 0 .. m - 1
<1>1. m \in Nat \ {0} /\ 4 * m < IntSize /\ IntSize \in Nat \ {0}
  BY ModulusOf, Widths
<1>2. ASSUME NEW y \in 0 .. m
      PROVE  /\ BatchAddModAvx2(u, y, m, wide) = ((u + y) % m)
             /\ ((u + y) % m) \in 0 .. m - 1
  <2> DEFINE sum == u + y
  <2>1. BatchAddModAvx2(u, y, m, wide) = Settle(sum, m)
    BY <1>1, BatchSum
  <2>2. sum \in Int /\ 0 <= sum /\ sum < 2 * m
    BY <1>1
  <2> HIDE DEF sum
  <2>3. Settle(sum, m) = (sum % m) /\ Settle(sum, m) \in 0 .. m - 1
    BY <1>1, <2>2, SettleResidue
  <2> QED BY <2>1, <2>3 DEF sum
<1>3. Add(u, v, m) = ((u + v) % m) /\ Sub(u, v, m) = ((u - v) % m)
  <2>1. u \in 0 .. 3 * m /\ v \in 0 .. m
    BY <1>1
  <2> QED BY <2>1, Sums DEF SumsExact
<1>4. BatchSubModAvx2(u, v, m, wide) = BatchAddModAvx2(u, m - v, m, wide)
  <2>1. m - v \in 0 .. IntSize - 1
    BY <1>1
  <2> QED BY <2>1, ToIntOf DEF BatchSubModAvx2
<1>5. ((u + (m - v)) % m) = ((u - v) % m)
  <2>1. u - v \in Int /\ 1 \in Int /\ u + (m - v) = (u - v) + m * 1
    BY <1>1
  <2> QED BY <1>1, <2>1, SameResidue
<1>6. v \in 0 .. m /\ m - v \in 0 .. m
  BY <1>1
<1> QED BY <1>2, <1>3, <1>4, <1>5, <1>6

\* The lane of a product with a constant.
LEMMA BatchConstantExact ==
    ASSUME NEW m \in Moduli, NEW u \in 0 .. m - 1, NEW c \in 0 .. m - 1
    PROVE  /\ BatchMulConstantModAvx2(u, c, ConstantBarrett(c, m), m) = MulConstant(u, c, m)
           /\ MulConstant(u, c, m) = Mul(u, c, m)
<1>1. m \in Nat \ {0} /\ 4 * m < IntSize /\ IntSize \in Nat \ {0}
  BY ModulusOf, Widths
<1> DEFINE q == (ConstantBarrett(c, m) * u) \div IntSize
           r == ToInt(u * c - q * m)
<1>2. u \in 0 .. IntSize - 1
  BY <1>1
<1>3. q \in Nat /\ ToInt(q) = q /\ q * m <= c * u /\ c * u < q * m + 2 * m
  BY <1>2, ConstantQuotient
<1>4. MulConstant(u, c, m) = Settle(r, m)
  BY <1>3 DEF MulConstant
<1>5. r \in 0 .. 2 * m - 1
  <2> HIDE DEF q
  <2>1. u * c - q * m \in 0 .. 2 * m - 1 /\ u * c - q * m \in 0 .. IntSize - 1
    BY <1>1, <1>3
  <2> QED BY <2>1, ToIntOf
<1>6. (u * ConstantBarrett(c, m)) \div IntSize = q
  <2>1. 0 \in 0 .. IntSize - 1 /\ c * IntSize \in Nat
    BY <1>1
  <2>2. ConstantBarrett(c, m) = (c * IntSize) \div m
    BY <2>1, ConstantQuotient
  <2>3. ConstantBarrett(c, m) \in Int
    BY <1>1, <2>1, <2>2
  <2> QED BY <2>3
<1>7. BatchMulConstantModAvx2(u, c, ConstantBarrett(c, m), m) =
          IF ToInt(r - m) < r THEN ToInt(r - m) ELSE r
  BY <1>6 DEF BatchMulConstantModAvx2
<1> HIDE DEF r
<1>8. (IF ToInt(r - m) < r THEN ToInt(r - m) ELSE r) = Settle(r, m)
  BY <1>1, <1>5, MinimumSettles
<1>9. MulConstant(u, c, m) = Mul(u, c, m)
  <2>1. u \in 0 .. 4 * m
    BY <1>1
  <2> QED BY <2>1, MulConstantExact, MulExact
<1> QED BY <1>4, <1>7, <1>8, <1>9

(***************************************************************************)
(* Lanes: Barrett reduction with a shift before the multiplication         *)
(***************************************************************************)

\* The length of a modulus other than one, between two powers of two.
LEMMA LengthOf ==
    ASSUME NEW m \in Moduli \ {1}
    PROVE  /\ BarrettLength(m) \in 2 .. IntBits - 2
           /\ 2 ^ (BarrettLength(m) - 2) \in Nat \ {0}
           /\ 2 ^ (BarrettLength(m) - 1) = 2 * 2 ^ (BarrettLength(m) - 2)
           /\ 2 * 2 ^ (BarrettLength(m) - 2) < m /\ m < 4 * 2 ^ (BarrettLength(m) - 2)
           /\ 16 * 2 ^ (BarrettLength(m) - 2) <= IntSize
           /\ 2 ^ (BarrettLength(m) + IntBits - 1) = 2 * 2 ^ (BarrettLength(m) - 2) * IntSize
<1>1. m \in Nat /\ m >= 3 /\ m < 2 ^ (IntBits - 2) /\ (m % 2) = 1 /\ IntBits \in Nat /\ IntBits >= 3
  <2>1. m \in Moduli /\ m # 1
    OBVIOUS
  <2>2. m \in Nat \ {0} /\ m < 2 ^ (IntBits - 2) /\ (m % 2) = 1
    BY <2>1, ModulusOf
  <2> QED BY <2>1, <2>2, IntBitsAssumption
<1> DEFINE r == BitWidth(m)
<1>2. r \in 0 .. 3 * IntBits /\ m < 2 ^ r /\ (r = 0 \/ 2 ^ (r - 1) <= m)
  <2>1. 2 ^ (IntBits - 2) <= 2 ^ (3 * IntBits)
    <3>1. IntBits - 2 \in Nat /\ 3 * IntBits \in Nat /\ IntBits - 2 <= 3 * IntBits
      BY <1>1
    <3> QED BY <3>1, PowersGrow
  <2>2. 2 ^ (3 * IntBits) \in Nat /\ 2 ^ (IntBits - 2) \in Nat
    BY <1>1, PowersPositive
  <2>3. m < 2 ^ (3 * IntBits)
    BY <1>1, <2>1, <2>2
  <2> QED BY <1>1, <2>3, BitWidthOf
<1>3. BarrettLength(m) = r
  BY DEF BarrettLength
<1> HIDE DEF r
<1>4. r # 0 /\ r # 1
  <2>1. 2 ^ 1 = 2
    OBVIOUS
  <2>2. (r = 0 => 2 ^ r = 1) /\ (r = 1 => 2 ^ r = 2)
    BY <2>1, PowersAssumption, Zenon
  <2> QED BY <1>1, <1>2, <2>2
<1>5. /\ r \in 2 .. 3 * IntBits /\ r - 1 \in 1 .. 3 * IntBits /\ r - 2 \in 0 .. 3 * IntBits
      /\ r - 1 - 1 = r - 2
  BY <1>1, <1>2, <1>4
<1>6. 2 ^ r = 2 * 2 ^ (r - 1) /\ 2 ^ (r - 1) = 2 * 2 ^ (r - 1 - 1)
  <2>1. r \in 1 .. 3 * IntBits
    BY <1>5
  <2> QED BY <1>5, <2>1, PowersAssumption
<1> DEFINE h == 2 ^ (r - 2)
<1>7. h \in Nat \ {0} /\ 2 ^ r = 4 * h /\ 2 ^ (r - 1) = 2 * h
  <2>1. h \in Nat \ {0}
    BY <1>5, PowersPositive
  <2> QED BY <1>5, <1>6, <2>1
<1>8. r <= IntBits - 2
  <2> SUFFICES ASSUME r > IntBits - 2 PROVE FALSE
    BY <1>1, <1>5
  <2>1. IntBits - 2 \in Nat /\ r - 1 \in Nat /\ IntBits - 2 <= r - 1 /\ r - 1 <= 3 * IntBits
    BY <1>1, <1>5
  <2>2. 2 ^ (IntBits - 2) <= 2 ^ (r - 1)
    BY <2>1, PowersGrow
  <2>3. 2 ^ (IntBits - 2) \in Nat /\ 2 ^ (r - 1) \in Nat /\ 2 ^ (r - 1) <= m
    BY <1>1, <1>2, <1>4, <1>5, PowersPositive
  <2> QED BY <1>1, <2>2, <2>3
<1>9. 2 * h # m
  <2>1. ((2 * h) % 2) = 0
    BY <1>7
  <2> QED BY <1>1, <2>1
<1>10. 2 * h < m /\ m < 4 * h
  <2> HIDE DEF h
  <2>1. 2 * h <= m /\ m < 4 * h
    BY <1>2, <1>4, <1>7
  <2> QED BY <1>1, <1>7, <1>9, <2>1
<1>11. 16 * h <= IntSize
  <2>1. r \in Nat /\ IntBits - 2 \in Nat /\ r <= IntBits - 2 /\ IntBits - 2 <= 3 * IntBits
    BY <1>1, <1>5, <1>8
  <2>2. 2 ^ r <= 2 ^ (IntBits - 2)
    BY <2>1, PowersGrow
  <2> HIDE DEF h
  <2>3. 2 ^ (IntBits - 2) \in Nat /\ IntSize = 4 * 2 ^ (IntBits - 2)
    BY Widths
  <2> QED BY <1>7, <2>2, <2>3
<1>12. 2 ^ (r + IntBits - 1) = 2 * h * IntSize
  <2>1. r - 1 \in Nat /\ IntBits \in Nat /\ r - 1 + IntBits <= 3 * IntBits /\ r - 1 + IntBits = r + IntBits - 1
    BY <1>1, <1>5, <1>8
  <2>2. 2 ^ (r - 1 + IntBits) = 2 ^ (r - 1) * 2 ^ IntBits
    BY <2>1, PowersAdd
  <2> QED BY <1>7, <2>1, <2>2 DEF IntSize
<1>13. r \in 2 .. IntBits - 2
  BY <1>1, <1>5, <1>8
<1> QED BY <1>3, <1>7, <1>10, <1>11, <1>12, <1>13

\* What two divisions and a multiplication between them leave.
LEMMA ShortBarrettRest ==
    ASSUME NEW B \in Nat \ {0}, NEW E \in Nat \ {0}, NEW m \in Nat \ {0}, NEW x \in Nat,
           NEW b \in Nat, NEW beta \in Nat, NEW g \in Nat, NEW s \in 0 .. m - 1,
           NEW c \in Nat, NEW t \in 0 .. E - 1, 2 * x <= B * E,
           x = B * b + beta, B * E = m * g + s, b * g = E * c + t
    PROVE  c * m <= x /\ 2 * (x - c * m) < 2 * beta + 3 * m
<1>1. (B * E) * (x - c * m) = (B * E) * beta + s * (B * b) + (B * m) * t
  <2>1. (B * E) * (c * m) = (B * m) * (E * c)
    OBVIOUS
  <2>2. (B * m) * (E * c) = (B * m) * (b * g - t)
    <3>1. E * c = b * g - t
      OBVIOUS
    <3> QED BY <3>1
  <2>3. (B * m) * (b * g - t) = (B * b) * (m * g) - (B * m) * t
    OBVIOUS
  <2>4. (B * b) * (m * g) = (B * b) * (B * E - s)
    <3>1. m * g = B * E - s
      OBVIOUS
    <3> QED BY <3>1
  <2>5. (B * b) * (B * E - s) = (B * E) * (B * b) - s * (B * b)
    OBVIOUS
  <2>6. (B * E) * x = (B * E) * (B * b) + (B * E) * beta
    OBVIOUS
  <2>7. (B * E) * (x - c * m) = (B * E) * x - (B * E) * (c * m)
    OBVIOUS
  <2> QED BY <2>1, <2>2, <2>3, <2>4, <2>5, <2>6, <2>7
<1> DEFINE M == B * E
<1>6. /\ M * beta \in Nat /\ s * (B * b) \in Nat /\ (B * m) * t \in Nat
      /\ 2 * (s * (B * b)) <= m * M /\ (B * m) * t < m * M /\ m * M \in Nat
  <2>1. B * b \in Nat /\ B * b <= x
    OBVIOUS
  <2>2. s * (B * b) <= m * x
    BY <2>1, Products
  <2>3. m * (2 * x) <= m * M
    BY Products
  <2>4. m * (2 * x) = 2 * (m * x) /\ m * x \in Nat
    OBVIOUS
  <2>5. (B * m) * t < m * M
    <3>1. B * m \in Nat \ {0}
      OBVIOUS
    <3>2. (B * m) * t < (B * m) * E
      BY <3>1
    <3>3. (B * m) * E = m * M
      OBVIOUS
    <3> QED BY <3>2, <3>3
  <2>6. M * beta \in Nat /\ s * (B * b) \in Nat /\ (B * m) * t \in Nat /\ m * M \in Nat
    OBVIOUS
  <2> QED BY <2>2, <2>3, <2>4, <2>5, <2>6
<1>7. M \in Nat \ {0}
  OBVIOUS
<1> DEFINE w == x - c * m
           bound == 2 * beta + 3 * m
<1>8. M * w = M * beta + s * (B * b) + (B * m) * t
  BY <1>1
<1> HIDE DEF M
<1>9. w \in Int /\ bound \in Int /\ 2 * w \in Int /\ 0 \in Int
  OBVIOUS
<1>10. M * (2 * w) = 2 * (M * w) /\ M * bound = 2 * (M * beta) + 3 * (m * M) /\ M * 0 = 0
  BY <1>7, <1>9
<1> HIDE DEF w, bound
<1>11. M * 0 <= M * w /\ M * (2 * w) < M * bound
  BY <1>6, <1>8, <1>10
<1>12. 0 <= w /\ 2 * w < bound
  BY <1>7, <1>9, <1>11, Cancel
<1> QED BY <1>12 DEF w, bound

\* The number is divided by B before it is multiplied with the reciprocal, which
\* is kept to B E: half a modulus more than what the division drops.
LEMMA ShortBarrett ==
    ASSUME NEW B \in Nat \ {0}, NEW E \in Nat \ {0}, NEW m \in Nat \ {0}, NEW x \in Nat,
           2 * x <= B * E
    PROVE  LET g == (B * E) \div m
               b == x \div B
               c == (b * g) \div E
           IN  /\ g \in Nat /\ m * g <= B * E /\ b \in Nat /\ B * b <= x
               /\ c \in Nat /\ c * m <= x
               /\ 2 * (x - c * m) < 2 * (x % B) + 3 * m
<1> DEFINE g == (B * E) \div m
           b == x \div B
           c == (b * g) \div E
<1> DEFINE M == B * E
           s == (M % m)
           beta == (x % B)
           product == b * g
           t == (product % E)
<1>1. M \in Int /\ M >= 0
  OBVIOUS
<1>2. beta \in 0 .. B - 1 /\ b \in Nat /\ x = B * b + beta
  <2>1. x \in Int /\ x >= 0
    OBVIOUS
  <2>2. x \div B \in Nat /\ beta \in 0 .. B - 1 /\ x = B * (x \div B) + beta
    BY <2>1, Division
  <2> HIDE DEF beta
  <2> QED BY <2>2
<1> HIDE DEF beta, b
<1>3. g \in Nat /\ s \in 0 .. m - 1 /\ M = m * g + s
  <2> HIDE DEF M
  <2>1. M \div m \in Nat /\ s \in 0 .. m - 1 /\ M = m * (M \div m) + s
    BY <1>1, Division
  <2>2. g = M \div m
    BY DEF M
  <2> HIDE DEF s, g
  <2> QED BY <2>1, <2>2
<1> HIDE DEF s, g
<1>4. c \in Nat /\ t \in 0 .. E - 1 /\ b * g = E * c + t
  <2>1. product \in Int /\ product >= 0
    BY <1>2, <1>3
  <2>2. c = product \div E
    OBVIOUS
  <2> HIDE DEF product
  <2>3. product \div E \in Nat /\ t \in 0 .. E - 1 /\ product = E * (product \div E) + t
    BY <2>1, Division
  <2> HIDE DEF t
  <2>4. c \in Nat /\ t \in 0 .. E - 1 /\ product = E * c + t
    BY <2>2, <2>3
  <2> HIDE DEF c
  <2> QED BY <2>4 DEF product
<1> HIDE DEF t, product, c
<1>7. M \in Nat \ {0}
  OBVIOUS
<1>8. c * m <= x /\ 2 * (x - c * m) < 2 * beta + 3 * m
  <2>1. beta \in Nat /\ x = B * b + beta /\ B * E = m * g + s /\ b * g = E * c + t
    BY <1>2, <1>3, <1>4
  <2>2. c * m <= x /\ 2 * (x - c * m) < 2 * beta + 3 * m
    BY <1>2, <1>3, <1>4, <2>1, ShortBarrettRest
  <2> QED BY <1>2, <1>4, <2>2
<1> HIDE DEF M
<1>9. m * g <= M /\ B * b <= x
  BY <1>2, <1>3, <1>7
<1> QED BY <1>2, <1>3, <1>4, <1>8, <1>9, Zenon DEF M, beta, b, c, g

\* The sizes the proofs of the products share: h is a quarter of the power of
\* two above m.
LEMMA ProductSizes ==
    ASSUME NEW m \in Nat, NEW h \in Nat \ {0}, NEW N \in Nat, NEW x \in 0 .. (m - 1) * (m - 1),
           2 * h < m, m < 4 * h, 16 * h <= N
    PROVE  x \in Nat /\ x < m * m /\ 2 * x <= 2 * h * N /\ 4 * m < N
<1>1. (m - 1) * (m - 1) < m * m /\ m * m \in Nat
  <2>1. (m - 1) * (m - 1) = m * m - 2 * m + 1
    OBVIOUS
  <2> QED BY <2>1
<1>2. m * m <= (4 * h) * (4 * h)
  BY Products
<1>3. (2 * h) * (16 * h) <= (2 * h) * N
  BY Products
<1>4. (4 * h) * (4 * h) = 16 * (h * h) /\ (2 * h) * (16 * h) = 32 * (h * h) /\ h * h \in Nat
  OBVIOUS
<1>5. 2 * (m * m) <= 2 * h * N
  BY <1>1, <1>2, <1>3, <1>4
<1> QED BY <1>1, <1>5

\* The reciprocal of a modulus is a word, as are the quotients it gives.
LEMMA ReciprocalOf ==
    ASSUME NEW m \in Moduli \ {1}
    PROVE  /\ BarrettQuotient(m) = (2 * 2 ^ (BarrettLength(m) - 2) * IntSize) \div m
           /\ BarrettQuotient(m) \in Nat
           /\ ToInt(BarrettQuotient(m)) = BarrettQuotient(m)
<1> DEFINE h == 2 ^ (BarrettLength(m) - 2)
           M == 2 * h * IntSize
           s == (M % m)
<1>1. /\ h \in Nat \ {0} /\ 2 * h < m /\ m \in Nat \ {0} /\ IntSize \in Nat \ {0}
      /\ 2 ^ (BarrettLength(m) + IntBits - 1) = M
  BY LengthOf, Widths, ModulusOf
<1>2. BarrettQuotient(m) = M \div m
  BY <1>1 DEF BarrettQuotient
<1> HIDE DEF h
<1>3. M \in Int /\ M >= 0 /\ M < m * IntSize
  BY <1>1
<1> HIDE DEF M
<1>4. M \div m \in Nat /\ s \in 0 .. m - 1 /\ M = m * (M \div m) + s
  BY <1>1, <1>3, Division
<1> HIDE DEF s
<1> DEFINE g == M \div m
<1>5. g \in Nat /\ m * g <= M
  BY <1>1, <1>3, <1>4
<1> HIDE DEF g
<1>6. m * g < m * IntSize
  BY <1>1, <1>3, <1>5
<1>7. g < IntSize
  BY <1>1, <1>5, <1>6, Cancel
<1>8. ToInt(g) = g
  BY <1>1, <1>5, <1>7, ToIntOf
<1> QED BY <1>2, <1>5, <1>8 DEF g, M, h

\* The product of a narrow type.
LEMMA NarrowProductExact ==
    ASSUME NEW m \in Moduli \ {1}, NEW u \in 0 .. m - 1, NEW v \in 0 .. m - 1
    PROVE  NarrowMulModAvx2(u, v, m) = Mul(u, v, m)
<1> DEFINE h == 2 ^ (BarrettLength(m) - 2)
           x == u * v
           E == 2 * IntSize
           g == BarrettQuotient(m)
           b == x \div h
           c == (b * g) \div E
           r == x - c * m
<1>1. /\ h \in Nat \ {0} /\ 2 * h < m /\ m < 4 * h /\ 16 * h <= IntSize
      /\ m \in Nat \ {0} /\ m \in Moduli /\ IntSize \in Nat \ {0}
  BY LengthOf, Widths, ModulusOf
<1>2. x \in 0 .. (m - 1) * (m - 1) /\ Mul(u, v, m) = (x % m)
  BY <1>1, MulExact
<1>3. g \in Nat /\ ToInt(g) = g /\ g = (2 * h * IntSize) \div m
  BY ReciprocalOf
<1>4. 2 ^ (IntBits + 1) = E
  <2>1. IntBits \in Nat /\ IntBits + 1 \in 1 .. 3 * IntBits /\ IntBits + 1 - 1 = IntBits
    BY IntBitsAssumption
  <2> QED BY <2>1, PowersAssumption DEF IntSize
<1>5. NarrowMulModAvx2(u, v, m) =
          LET d == ToInt(x - ToInt(((b * g) % (IntSize * IntSize)) \div E) * m)
          IN  IF ToInt(d - m) < d THEN ToInt(d - m) ELSE d
  BY <1>3, <1>4 DEF NarrowMulModAvx2
<1> HIDE DEF h, x, g
<1>6. x \in Nat /\ x < m * m /\ 2 * x <= 2 * h * IntSize /\ 4 * m < IntSize
  BY <1>1, <1>2, ProductSizes
<1>7. h * E = 2 * h * IntSize /\ E \in Nat \ {0}
  BY <1>1
<1>8. b \in Int /\ g \in Int /\ c \in Int
  <2>1. b \in Int
    BY <1>1, <1>6
  <2> HIDE DEF b, E
  <2>2. b * g \in Int
    BY <1>3, <2>1
  <2> QED BY <1>3, <1>7, <2>1, <2>2
<1> HIDE DEF b, E
<1>9. /\ b \in Nat /\ h * b <= x /\ c \in Nat /\ c * m <= x
      /\ 2 * (x - c * m) < 2 * (x % h) + 3 * m
  <2>1. 2 * x <= h * E /\ g = (h * E) \div m /\ b = x \div h /\ c = (b * g) \div E
    BY <1>3, <1>6, <1>7 DEF b
  <2> DEFINE gg == (h * E) \div m
             bb == x \div h
             cc == (bb * gg) \div E
  <2>2. /\ bb \in Nat /\ h * bb <= x /\ cc \in Nat /\ cc * m <= x
        /\ 2 * (x - cc * m) < 2 * (x % h) + 3 * m
    BY <1>1, <1>6, <1>7, <2>1, ShortBarrett, Zenon
  <2>3. g = gg /\ b = bb /\ c = cc
    BY <2>1
  <2> HIDE DEF gg, bb, cc
  <2> QED BY <2>2, <2>3, Zenon
<1> HIDE DEF c
<1>10. (x % h) \in 0 .. h - 1
  <2>1. x \in Int
    BY <1>6
  <2> QED BY <1>1, <2>1, Division
<1>11. r \in 0 .. 2 * m - 1 /\ x = m * c + r
  <2>1. c * m \in Int /\ c * m = m * c
    BY <1>1, <1>8
  <2> QED BY <1>1, <1>6, <1>9, <1>10, <2>1
<1>12. (b * g) % (IntSize * IntSize) = b * g
  <2>1. b <= IntSize
    <3>1. m * m <= h * (4 * m)
      BY <1>1
    <3>2. h * b <= h * (4 * m)
      <4>1. h * b \in Int /\ m * m \in Int /\ h * (4 * m) \in Int
        BY <1>1, <1>8
      <4> QED BY <1>6, <1>9, <3>1, <4>1
    <3>3. b <= 4 * m
      BY <1>1, <1>8, <3>2, Cancel
    <3> QED BY <1>1, <1>6, <1>8, <3>3
  <2>2. g < IntSize
    BY <1>1, <1>3, ToIntOf
  <2>3. b * g < IntSize * IntSize
    <3>1. b * g <= IntSize * g
      BY <1>1, <1>3, <1>9, <2>1, Products
    <3>2. IntSize * g < IntSize * IntSize
      BY <1>1, <1>3, <2>2
    <3>3. b * g \in Int /\ IntSize * g \in Int /\ IntSize * IntSize \in Int
      BY <1>1, <1>3, <1>8
    <3> QED BY <3>1, <3>2, <3>3
  <2> DEFINE y == b * g
             d == IntSize * IntSize
  <2>4. y \in 0 .. d - 1 /\ d \in Nat \ {0} /\ y \in Int
    BY <1>1, <1>3, <1>9, <2>3
  <2> HIDE DEF y, d
  <2>5. 0 \in Int /\ y = d * 0 + y
    BY <2>4
  <2>6. (y % d) = y
    BY <2>4, <2>5, DivisionOf
  <2> QED BY <2>6 DEF y, d
<1>13. ToInt(c) = c
  <2>1. m * c < m * m
    BY <1>1, <1>6, <1>8, <1>9
  <2>2. c < m
    BY <1>1, <1>8, <2>1, Cancel
  <2> QED BY <1>1, <1>6, <1>9, <2>2, ToIntOf
<1>14. ToInt(x - c * m) = r
  BY <1>1, <1>6, <1>11, ToIntOf
<1>15. NarrowMulModAvx2(u, v, m) = IF ToInt(r - m) < r THEN ToInt(r - m) ELSE r
  <2>1. ToInt(((b * g) % (IntSize * IntSize)) \div E) = c
    BY <1>12, <1>13 DEF c
  <2> HIDE DEF r
  <2> QED BY <1>5, <1>14, <2>1
<1> HIDE DEF r
<1>16. NarrowMulModAvx2(u, v, m) = Settle(r, m)
  BY <1>1, <1>6, <1>11, <1>15, MinimumSettles
<1>17. (x % m) = (r % m)
  <2>1. x = r + m * c /\ r \in Int
    BY <1>1, <1>6, <1>8, <1>11
  <2>2. ((r + m * c) % m) = (r % m)
    BY <1>1, <1>8, <2>1, SameResidue, Zenon
  <2> QED BY <2>1, <2>2
<1> QED BY <1>1, <1>2, <1>11, <1>16, <1>17, SettleResidue

(***************************************************************************)
(* Words put together from halves                                          *)
(***************************************************************************)

\* A term of a sum of words may be reduced to a word or not.
LEMMA ToIntSums ==
    \A a, b \in Int : /\ ToInt(a + ToInt(b)) = ToInt(a + b)
                      /\ ToInt(ToInt(b) + a) = ToInt(a + b)
                      /\ ToInt(a - ToInt(b)) = ToInt(a - b)
                      /\ ToInt(ToInt(b) - a) = ToInt(b - a)
<1> SUFFICES ASSUME NEW a \in Int, NEW b \in Int
             PROVE  /\ ToInt(a + ToInt(b)) = ToInt(a + b)
                    /\ ToInt(ToInt(b) + a) = ToInt(a + b)
                    /\ ToInt(a - ToInt(b)) = ToInt(a - b)
                    /\ ToInt(ToInt(b) - a) = ToInt(b - a)
  OBVIOUS
<1> DEFINE k == b \div IntSize
           r == (b % IntSize)
<1>0. IntSize \in Nat \ {0}
  BY Widths
<1>1. k \in Int /\ r \in 0 .. IntSize - 1 /\ b = IntSize * k + r /\ IntSize \in Nat \ {0}
  BY <1>0, Division
<1>2. ToInt(b) = r
  BY DEF ToInt
<1> HIDE DEF k, r
<1>3. r \in Int /\ k \in Int /\ - k \in Int /\ IntSize \in Int
  BY <1>1
<1>4. ASSUME NEW x \in Int, NEW y \in Int, NEW j \in Int, y = x + IntSize * j
      PROVE  ToInt(y) = ToInt(x)
  BY <1>4, ToIntOf
<1>5. ToInt(a + b) = ToInt(a + r)
  <2>1. a + r \in Int /\ a + b \in Int /\ a + b = a + r + IntSize * k
    BY <1>1, <1>3
  <2> QED BY <1>3, <1>4, <2>1
<1>6. ToInt(a - b) = ToInt(a - r)
  <2>1. a - r \in Int /\ a - b \in Int /\ a - b = a - r + IntSize * (- k)
    BY <1>1, <1>3
  <2> QED BY <1>3, <1>4, <2>1
<1>7. ToInt(b - a) = ToInt(r - a)
  <2>1. r - a \in Int /\ b - a \in Int /\ b - a = r - a + IntSize * k
    BY <1>1, <1>3
  <2> QED BY <1>3, <1>4, <2>1
<1>8. r + a = a + r
  BY <1>3
<1> QED BY <1>2, <1>5, <1>6, <1>7, <1>8

\* The halves of a word.
LEMMA Halves ==
    /\ HalfSize \in Nat \ {0} /\ HalfSize * HalfSize = IntSize
    /\ \A x \in Nat : /\ Low(x) \in 0 .. HalfSize - 1 /\ High(x) \in Nat
                      /\ x = HalfSize * High(x) + Low(x)
                      /\ x < IntSize => High(x) \in 0 .. HalfSize - 1
<1> DEFINE w == IntBits \div 2
<1>1. /\ w \in Nat /\ w + w = IntBits /\ w + w <= 3 * IntBits /\ w <= 3 * IntBits
  <2>1. (IntBits % 2) = 0 /\ IntBits \in Nat
    BY BatchAssumption, IntBitsAssumption
  <2>2. IntBits = 2 * w /\ w \in Nat
    BY <2>1
  <2> HIDE DEF w
  <2> QED BY <2>1, <2>2
<1>2. HalfSize = 2 ^ w
  BY DEF HalfSize
<1> HIDE DEF w
<1>3. 2 ^ (w + w) = 2 ^ w * 2 ^ w
  BY <1>1, PowersAdd
<1>4. 2 ^ w \in Nat \ {0}
  BY <1>1, PowersPositive, IntBitsAssumption
<1>5. HalfSize \in Nat \ {0} /\ HalfSize * HalfSize = IntSize
  BY <1>1, <1>2, <1>3, <1>4 DEF IntSize
<1>6. ASSUME NEW x \in Nat
      PROVE  /\ Low(x) \in 0 .. HalfSize - 1 /\ High(x) \in Nat
             /\ x = HalfSize * High(x) + Low(x)
             /\ x < IntSize => High(x) \in 0 .. HalfSize - 1
  <2>1. x \in Int /\ x >= 0
    OBVIOUS
  <2>2. /\ (x % HalfSize) \in 0 .. HalfSize - 1 /\ x \div HalfSize \in Nat
        /\ x = HalfSize * (x \div HalfSize) + (x % HalfSize)
    BY <1>5, <2>1, Division
  <2>3. Low(x) \in 0 .. HalfSize - 1 /\ High(x) \in Nat /\ x = HalfSize * High(x) + Low(x)
    BY <2>2, Zenon DEF Low, High
  <2>4. ASSUME x < IntSize PROVE High(x) < HalfSize
    <3>1. HalfSize * High(x) < HalfSize * HalfSize
      <4>1. HalfSize * High(x) \in Int
        BY <1>5, <2>3
      <4> QED BY <1>5, <2>3, <2>4, <4>1
    <3> QED BY <1>5, <2>3, <3>1, Cancel
  <2> QED BY <1>5, <2>3, <2>4
<1> QED BY <1>5, <1>6

\* A product in terms of halves.
LEMMA ProductOfHalves ==
    ASSUME NEW H \in Int, NEW a \in Int, NEW b \in Int, NEW c \in Int, NEW d \in Int
    PROVE  (H * a + b) * (H * c + d) = (H * H) * (a * c) + H * (b * c) + H * (a * d) + b * d
OBVIOUS

\* Two products of halves, and what they carry, fit into a word.
LEMMA HalvesFit ==
    ASSUME NEW H \in Nat \ {0}, NEW a \in 0 .. H - 1, NEW b \in 0 .. H - 1, NEW c \in 0 .. H - 1
    PROVE  a * b \in Nat /\ a * b + c < H * H
<1>1. a * b <= (H - 1) * (H - 1)
  <2>1. a \in Nat /\ b \in Nat /\ H - 1 \in Nat /\ a <= H - 1 /\ b <= H - 1
    OBVIOUS
  <2> QED BY <2>1, Products
<1>2. (H - 1) * (H - 1) = H * H - 2 * H + 1 /\ H * H \in Int /\ a * b \in Nat
  OBVIOUS
<1> QED BY <1>1, <1>2

\* BatchMul64 is exact: the lower word and the upper word of the product.
LEMMA BatchMul64Exact ==
    ASSUME NEW x \in 0 .. IntSize - 1, NEW y \in 0 .. IntSize - 1
    PROVE  /\ BatchMul64(x, y).lo = ToInt(x * y)
           /\ BatchMul64(x, y).hi = (x * y) \div IntSize
           /\ BatchMulHi64(x, y) = (x * y) \div IntSize
           /\ (x * y) \div IntSize \in 0 .. IntSize - 1
<1> DEFINE H == HalfSize
           xl == Low(x)
           xh == High(x)
           yl == Low(y)
           yh == High(y)
           corner == xl * yl
           upper == xl * yh + High(corner)
           middle == xh * yl + Low(upper)
           hi == xh * yh + High(upper) + High(middle)
           rest == H * Low(middle) + Low(corner)
<1>1. H \in Nat \ {0} /\ H * H = IntSize /\ x \in Nat /\ y \in Nat /\ IntSize \in Nat \ {0}
  BY Halves, Widths
<1>2. /\ xl \in 0 .. H - 1 /\ xh \in 0 .. H - 1 /\ x = H * xh + xl
      /\ yl \in 0 .. H - 1 /\ yh \in 0 .. H - 1 /\ y = H * yh + yl
  BY <1>1, Halves
<1>3. BatchMul64(x, y) =
          LET up == ToInt(xl * yh + High(corner))
              mid == ToInt(xh * yl + Low(up))
          IN  [lo |-> ToInt(corner + ToInt(xl * yh * H) + ToInt(xh * yl * H)),
               hi |-> ToInt(xh * yh + High(up) + High(mid))]
  BY Zenon DEF BatchMul64
<1> HIDE DEF H, xl, xh, yl, yh
<1>4. corner \in Nat /\ corner < IntSize
  <2>1. 0 \in 0 .. H - 1
    BY <1>1
  <2> QED BY <1>1, <1>2, <2>1, HalvesFit
<1> HIDE DEF corner
<1>5. Low(corner) \in 0 .. H - 1 /\ High(corner) \in 0 .. H - 1 /\ corner = H * High(corner) + Low(corner)
  BY <1>4, Halves DEF H
<1>6. upper \in Nat /\ upper < IntSize
  <2>1. xl * yh \in Nat /\ xl * yh + High(corner) < H * H
    BY <1>1, <1>2, <1>5, HalvesFit
  <2> QED BY <1>1, <1>5, <2>1
<1>7. upper = xl * yh + High(corner)
  OBVIOUS
<1> HIDE DEF upper
<1>8. Low(upper) \in 0 .. H - 1 /\ High(upper) \in 0 .. H - 1 /\ upper = H * High(upper) + Low(upper)
  BY <1>6, Halves DEF H
<1>9. middle \in Nat /\ middle < IntSize
  <2>1. xh * yl \in Nat /\ xh * yl + Low(upper) < H * H
    BY <1>1, <1>2, <1>8, HalvesFit
  <2> QED BY <1>1, <1>8, <2>1
<1>10. middle = xh * yl + Low(upper)
  OBVIOUS
<1> HIDE DEF middle
<1>11. Low(middle) \in 0 .. H - 1 /\ High(middle) \in 0 .. H - 1 /\ middle = H * High(middle) + Low(middle)
  BY <1>9, Halves DEF H
<1>12. ToInt(upper) = upper /\ ToInt(middle) = middle
  BY <1>1, <1>6, <1>9, ToIntOf
<1>13. /\ BatchMul64(x, y).lo = ToInt(corner + ToInt(xl * yh * H) + ToInt(xh * yl * H))
       /\ BatchMul64(x, y).hi = ToInt(hi)
  BY <1>3, <1>7, <1>10, <1>12
<1>14. x * y = (H * H) * (xh * yh) + H * (xl * yh) + H * (xh * yl) + corner
  BY <1>1, <1>2, ProductOfHalves DEF corner
<1>15. rest \in 0 .. IntSize - 1
  <2>1. H * Low(middle) <= H * (H - 1)
    BY <1>1, <1>11
  <2>2. H * (H - 1) = H * H - H /\ H * Low(middle) \in Nat
    BY <1>1, <1>11
  <2> QED BY <1>1, <1>5, <1>11, <2>1, <2>2
<1>16. hi \in Nat
  <2>1. xh * yh \in Nat
    BY <1>2
  <2> QED BY <1>8, <1>11, <2>1
<1>17. x * y = IntSize * hi + rest
  <2>1. H * (xl * yh) = H * (H * High(upper)) + H * Low(upper) - H * High(corner)
    <3>1. xl * yh = H * High(upper) + Low(upper) - High(corner)
      BY <1>1, <1>2, <1>5, <1>7, <1>8
    <3>2. H * (H * High(upper) + Low(upper) - High(corner))
              = H * (H * High(upper)) + H * Low(upper) - H * High(corner)
      BY <1>1, <1>5, <1>8
    <3> QED BY <3>1, <3>2
  <2>2. H * (xh * yl) = H * (H * High(middle)) + H * Low(middle) - H * Low(upper)
    <3>1. xh * yl = H * High(middle) + Low(middle) - Low(upper)
      BY <1>1, <1>2, <1>8, <1>10, <1>11
    <3>2. H * (H * High(middle) + Low(middle) - Low(upper))
              = H * (H * High(middle)) + H * Low(middle) - H * Low(upper)
      BY <1>1, <1>8, <1>11
    <3> QED BY <3>1, <3>2
  <2>3. (H * H) * hi = (H * H) * (xh * yh) + H * (H * High(upper)) + H * (H * High(middle))
    BY <1>1, <1>2, <1>8, <1>11
  <2>4. /\ x * y \in Int /\ (H * H) * (xh * yh) \in Int /\ H * (xl * yh) \in Int /\ H * (xh * yl) \in Int
        /\ H * (H * High(upper)) \in Int /\ H * Low(upper) \in Int /\ H * High(corner) \in Int
        /\ H * (H * High(middle)) \in Int /\ H * Low(middle) \in Int /\ (H * H) * hi \in Int
    BY <1>1, <1>2, <1>5, <1>8, <1>11, <1>16
  <2> HIDE DEF hi
  <2> QED BY <1>1, <1>5, <1>14, <2>1, <2>2, <2>3, <2>4
<1> HIDE DEF hi, rest
<1>18. (x * y) \div IntSize = hi /\ ToInt(x * y) = rest
  <2> DEFINE product == x * y
  <2>1. product \in Int /\ hi \in Int /\ product = IntSize * hi + rest
    BY <1>1, <1>16, <1>17
  <2> HIDE DEF product
  <2>2. product \div IntSize = hi /\ (product % IntSize) = rest
    BY <1>1, <1>15, <2>1, DivisionOf
  <2> QED BY <2>2 DEF product, ToInt
<1>19. ToInt(hi) = hi /\ hi \in 0 .. IntSize - 1
  <2>1. x * y < IntSize * IntSize
    <3>1. x * y <= IntSize * y
      BY <1>1, Products
    <3>2. IntSize * y < IntSize * IntSize
      BY <1>1
    <3>3. x * y \in Int /\ IntSize * y \in Int /\ IntSize * IntSize \in Int
      BY <1>1
    <3> QED BY <3>1, <3>2, <3>3
  <2>2. IntSize * hi < IntSize * IntSize
    <3>1. x * y \in Int /\ IntSize * hi \in Int /\ IntSize * IntSize \in Int
      BY <1>1, <1>16
    <3> QED BY <1>1, <1>15, <1>17, <2>1, <3>1
  <2>3. hi < IntSize
    BY <1>1, <1>16, <2>2, Cancel
  <2> QED BY <1>1, <1>16, <2>3, ToIntOf
<1>20. ToInt(corner + ToInt(xl * yh * H) + ToInt(xh * yl * H)) = ToInt(x * y)
  <2> DEFINE p == xl * yh * H
             q == xh * yl * H
             z == xh * yh
  <2>1. p \in Int /\ q \in Int /\ z \in Int /\ x * y = corner + p + q + IntSize * z
    <3>1. /\ p = H * (xl * yh) /\ q = H * (xh * yl) /\ p \in Int /\ q \in Int /\ z \in Int
          /\ (H * H) * z = IntSize * z /\ IntSize * z \in Int
      BY <1>1, <1>2
    <3> HIDE DEF p, q
    <3> QED BY <1>4, <1>14, <3>1
  <2> HIDE DEF p, q, z
  <2>2. ToInt(corner + p + ToInt(q)) = ToInt(corner + p + q)
    <3>1. corner + p \in Int
      BY <1>4, <2>1
    <3> QED BY <2>1, <3>1, ToIntSums
  <2>3. ToInt(corner + ToInt(p) + ToInt(q)) = ToInt(corner + p + q)
    <3>1. ToInt(q) \in Int /\ ToInt(p) \in Int
      BY <1>1, <2>1, ToIntOf
    <3>2. corner + ToInt(q) \in Int /\ corner + ToInt(p) + ToInt(q) = (corner + ToInt(q)) + ToInt(p)
      BY <1>4, <3>1
    <3>3. ToInt((corner + ToInt(q)) + ToInt(p)) = ToInt((corner + ToInt(q)) + p)
      BY <2>1, <3>2, ToIntSums
    <3>4. (corner + ToInt(q)) + p = corner + p + ToInt(q)
      BY <1>4, <2>1, <3>1
    <3> QED BY <2>2, <3>2, <3>3, <3>4
  <2> DEFINE sum == corner + p + q
  <2>4. sum \in Int /\ x * y = sum + IntSize * z
    BY <1>4, <2>1
  <2> HIDE DEF sum
  <2>5. ToInt(sum + IntSize * z) = ToInt(sum)
    BY <2>1, <2>4, ToIntOf
  <2> QED BY <2>3, <2>4, <2>5 DEF sum, p, q
<1> QED BY <1>13, <1>18, <1>19, <1>20 DEF BatchMulHi64

\* BatchMulLo64 is exact modulo the size of a word.
LEMMA BatchMulLo64Exact ==
    ASSUME NEW x \in Nat, NEW y \in Nat
    PROVE  BatchMulLo64(x, y) = ToInt(x * y)
<1> DEFINE H == HalfSize
           xl == Low(x)
           xh == High(x)
           yl == Low(y)
           yh == High(y)
           a == xl * yh
           b == xh * yl
           mixed == Low(Low(a) + Low(b))
<1>1. H \in Nat \ {0} /\ H * H = IntSize /\ IntSize \in Nat \ {0}
  BY Halves, Widths
<1>2. /\ xl \in 0 .. H - 1 /\ xh \in Nat /\ x = H * xh + xl
      /\ yl \in 0 .. H - 1 /\ yh \in Nat /\ y = H * yh + yl
  BY Halves
<1>3. BatchMulLo64(x, y) = ToInt(xl * yl + mixed * H)
  BY Zenon DEF BatchMulLo64
<1> HIDE DEF H, xl, xh, yl, yh
<1>4. x * y = (H * H) * (xh * yh) + H * a + H * b + xl * yl
  BY <1>1, <1>2, ProductOfHalves
<1>5. a \in Nat /\ b \in Nat
  BY <1>2
<1> HIDE DEF a, b
<1>6. /\ Low(a) \in 0 .. H - 1 /\ High(a) \in Nat /\ a = H * High(a) + Low(a)
      /\ Low(b) \in 0 .. H - 1 /\ High(b) \in Nat /\ b = H * High(b) + Low(b)
  BY <1>5, Halves DEF H
<1> DEFINE both == Low(a) + Low(b)
<1>7. both \in Nat
  BY <1>6
<1>8. Low(both) \in 0 .. H - 1 /\ High(both) \in Nat /\ both = H * High(both) + Low(both)
  BY <1>7, Halves DEF H
<1> DEFINE k == High(a) + High(b) + High(both)
           z == xl * yl + mixed * H
           j == xh * yh + k
<1>9. k \in Nat /\ mixed \in Nat /\ a + b = mixed + H * k
  <2>1. H * k = H * High(a) + H * High(b) + H * High(both)
    BY <1>1, <1>6, <1>8
  <2>2. H * High(a) \in Int /\ H * High(b) \in Int /\ H * High(both) \in Int /\ k \in Nat
    BY <1>1, <1>6, <1>8
  <2>3. mixed = Low(both) /\ both = Low(a) + Low(b) /\ Low(a) \in Int /\ Low(b) \in Int
    BY <1>6
  <2> HIDE DEF mixed, k, both
  <2> QED BY <1>1, <1>6, <1>8, <2>1, <2>2, <2>3
<1> HIDE DEF mixed, k
<1>10. x * y = z + IntSize * j /\ z \in Int /\ j \in Int
  <2>1. H * a + H * b = H * (a + b)
    BY <1>1, <1>5
  <2>2. H * (a + b) = mixed * H + (H * H) * k
    <3>1. H * (mixed + H * k) = mixed * H + (H * H) * k
      BY <1>1, <1>9
    <3> QED BY <1>9, <3>1
  <2>3. (H * H) * j = (H * H) * (xh * yh) + (H * H) * k
    BY <1>1, <1>2, <1>9
  <2>4. /\ (H * H) * (xh * yh) \in Int /\ (H * H) * k \in Int /\ (H * H) * j \in Int /\ H * a \in Int
        /\ H * b \in Int /\ xl * yl \in Int /\ mixed * H \in Int /\ xh * yh \in Int
    BY <1>1, <1>2, <1>5, <1>9
  <2>5. x * y = z + (H * H) * j
    BY <1>4, <2>1, <2>2, <2>3, <2>4
  <2>6. z \in Int /\ j \in Int
    BY <1>9, <2>4
  <2> HIDE DEF z, j
  <2> QED BY <1>1, <2>5, <2>6, Zenon
<1> HIDE DEF z, j
<1>11. ToInt(z + IntSize * j) = ToInt(z)
  BY <1>10, ToIntOf
<1> QED BY <1>3, <1>10, <1>11 DEF z

\* The word of a product that begins at a bit: the product divided by a power.
LEMMA Shrdi64Exact ==
    ASSUME NEW x \in Nat, NEW shift \in 0 .. IntBits
    PROVE  Shrdi64(ToInt(x), x \div IntSize, shift) = ToInt(x \div 2 ^ shift)
<1> DEFINE P == 2 ^ shift
           Q == 2 ^ (IntBits - shift)
           hi == x \div IntSize
           lo == (x % IntSize)
           up == lo \div P
           rest == (lo % P)
<1>1. P \in Nat \ {0} /\ Q \in Nat \ {0} /\ P * Q = IntSize /\ IntSize \in Nat \ {0}
  <2>1. /\ shift \in Nat /\ IntBits - shift \in Nat /\ shift + (IntBits - shift) = IntBits
        /\ IntBits <= 3 * IntBits /\ shift <= 3 * IntBits /\ IntBits - shift <= 3 * IntBits
    BY IntBitsAssumption
  <2>2. 2 ^ (shift + (IntBits - shift)) = P * Q
    BY <2>1, PowersAdd
  <2>3. P \in Nat \ {0} /\ Q \in Nat \ {0}
    BY <2>1, PowersPositive, IntBitsAssumption
  <2> QED BY <2>1, <2>2, <2>3, Widths DEF IntSize
<1>2. hi \in Nat /\ lo \in 0 .. IntSize - 1 /\ x = IntSize * hi + lo
  <2>1. x \in Int /\ x >= 0
    OBVIOUS
  <2> QED BY <1>1, <2>1, Division
<1>3. Shrdi64(ToInt(x), x \div IntSize, shift) = ToInt(up + ToInt(hi * Q))
  BY DEF Shrdi64, ToInt
<1> HIDE DEF hi, lo, P, Q
<1>4. up \in Nat /\ rest \in 0 .. P - 1 /\ lo = P * up + rest
  <2>1. lo \in Int /\ lo >= 0
    BY <1>1, <1>2
  <2> QED BY <1>1, <2>1, Division
<1> HIDE DEF up, rest
<1>5. x = P * (up + hi * Q) + rest /\ up + hi * Q \in Int /\ hi * Q \in Int /\ x \in Int
  <2>1. P * (up + hi * Q) = P * up + (P * Q) * hi
    BY <1>1, <1>2, <1>4
  <2>2. hi * Q \in Int /\ P * up \in Int /\ (P * Q) * hi \in Int
    BY <1>1, <1>2, <1>4
  <2> QED BY <1>1, <1>2, <1>4, <2>1, <2>2
<1>6. x \div P = up + hi * Q
  <2> DEFINE q == up + hi * Q
  <2>1. q \in Int /\ x = P * q + rest /\ rest \in 0 .. P - 1
    BY <1>4, <1>5
  <2> HIDE DEF q
  <2>2. x \div P = q
    BY <1>1, <1>5, <2>1, DivisionOf
  <2> QED BY <2>2 DEF q
<1>7. ToInt(up + ToInt(hi * Q)) = ToInt(up + hi * Q)
  <2> DEFINE b == hi * Q
  <2>1. b \in Int /\ up \in Int
    BY <1>4, <1>5
  <2> HIDE DEF b
  <2>2. ToInt(up + ToInt(b)) = ToInt(up + b)
    BY <2>1, ToIntSums
  <2> QED BY <2>2 DEF b
<1> QED BY <1>3, <1>6, <1>7 DEF P

\* The product of 64-bit lanes: right modulo m, and at most half a modulus too
\* large.
LEMMA WideProduct ==
    ASSUME NEW m \in Moduli \ {1}, NEW u \in 0 .. m - 1, NEW v \in 0 .. m - 1
    PROVE  /\ BatchMulModAvx2(u, v, m) \in Nat
           /\ (BatchMulModAvx2(u, v, m) % m) = Mul(u, v, m)
           /\ 2 * BatchMulModAvx2(u, v, m) < 3 * m
<1> DEFINE h == 2 ^ (BarrettLength(m) - 2)
           B == 2 ^ (BarrettLength(m) - 1)
           x == u * v
           g == BarrettQuotient(m)
           b == x \div B
           c == (b * g) \div IntSize
           r == x - c * m
<1>1. /\ h \in Nat \ {0} /\ 2 * h < m /\ m < 4 * h /\ 16 * h <= IntSize /\ B = 2 * h
      /\ m \in Nat \ {0} /\ m \in Moduli /\ IntSize \in Nat \ {0}
      /\ BarrettLength(m) - 1 \in 0 .. IntBits /\ 4 * m < IntSize
  <2>1. BarrettLength(m) \in 2 .. IntBits - 2
    BY LengthOf
  <2>2. BarrettLength(m) - 1 \in 0 .. IntBits
    BY <2>1, IntBitsAssumption
  <2> QED BY <2>2, LengthOf, Widths, ModulusOf
<1>2. x \in 0 .. (m - 1) * (m - 1) /\ Mul(u, v, m) = (x % m)
  BY <1>1, MulExact
<1>3. g \in Nat /\ ToInt(g) = g /\ g = (2 * h * IntSize) \div m
  BY ReciprocalOf
<1>4. u \in 0 .. IntSize - 1 /\ v \in 0 .. IntSize - 1
  BY <1>1
<1>5. Shrdi64(BatchMul64(u, v).lo, BatchMul64(u, v).hi, BarrettLength(m) - 1) = ToInt(b)
  <2>1. BatchMul64(u, v).lo = ToInt(x) /\ BatchMul64(u, v).hi = x \div IntSize
    BY <1>4, BatchMul64Exact
  <2>2. x \in Nat
    OBVIOUS
  <2> HIDE DEF x
  <2>3. Shrdi64(ToInt(x), x \div IntSize, BarrettLength(m) - 1) = ToInt(b)
    BY <1>1, <2>2, Shrdi64Exact
  <2> QED BY <2>1, <2>3
<1>6. BatchMul64(u, v).lo = ToInt(x)
  BY <1>4, BatchMul64Exact
<1>7. BatchMulModAvx2(u, v, m) =
          LET rest == ToInt(ToInt(x) - BatchMulLo64(BatchMulHi64(ToInt(b), g), m))
          IN  IF ~ IsNegative(rest) /\ rest > m THEN ToInt(rest - m) ELSE rest
  BY <1>3, <1>5, <1>6, Zenon DEF BatchMulModAvx2
<1> HIDE DEF h, x, g, B
<1>8. x \in Nat /\ x < m * m /\ 2 * x <= 2 * h * IntSize
  BY <1>1, <1>2, ProductSizes
<1>9. B * IntSize = 2 * h * IntSize /\ B \in Nat \ {0}
  BY <1>1
<1>10. /\ b \in Nat /\ B * b <= x /\ c \in Nat /\ c * m <= x
       /\ 2 * (x - c * m) < 2 * (x % B) + 3 * m
  <2>1. 2 * x <= B * IntSize /\ g = (B * IntSize) \div m /\ b = x \div B /\ c = (b * g) \div IntSize
    BY <1>3, <1>8, <1>9 DEF b
  <2> HIDE DEF b, c
  <2> DEFINE gg == (B * IntSize) \div m
             bb == x \div B
             cc == (bb * gg) \div IntSize
  <2>2. /\ bb \in Nat /\ B * bb <= x /\ cc \in Nat /\ cc * m <= x
        /\ 2 * (x - cc * m) < 2 * (x % B) + 3 * m
    BY <1>1, <1>8, <1>9, <2>1, ShortBarrett, Zenon
  <2>3. g = gg /\ b = bb /\ c = cc
    BY <2>1
  <2> HIDE DEF gg, bb, cc
  <2> QED BY <2>2, <2>3, Zenon
<1> HIDE DEF b
<1>11. ToInt(b) = b /\ b \in 0 .. IntSize - 1 /\ g \in 0 .. IntSize - 1
  <2>1. m * m <= (2 * h) * (2 * m)
    BY <1>1
  <2>2. B * b <= B * (2 * m)
    <3>1. B * b \in Int /\ m * m \in Int /\ (2 * h) * (2 * m) \in Int /\ B * (2 * m) = (2 * h) * (2 * m)
      BY <1>1, <1>10
    <3> QED BY <1>8, <1>10, <2>1, <3>1
  <2>3. b <= 2 * m
    BY <1>1, <1>9, <1>10, <2>2, Cancel
  <2>4. b \in 0 .. IntSize - 1
    BY <1>1, <1>10, <2>3
  <2>5. g \in 0 .. IntSize - 1
    <3>1. g \in Int
      BY <1>3
    <3> QED BY <1>3, <3>1, ToIntOf
  <2> QED BY <2>4, <2>5, ToIntOf
<1>12. BatchMulHi64(ToInt(b), g) = c
  BY <1>11, BatchMul64Exact
<1> HIDE DEF c
<1>13. BatchMulLo64(c, m) = ToInt(c * m)
  BY <1>1, <1>10, BatchMulLo64Exact
<1>14. (x % B) \in 0 .. B - 1
  <2>1. x \in Int
    BY <1>8
  <2> QED BY <1>9, <2>1, Division
<1>15. r \in Nat /\ x = m * c + r /\ 2 * r < 4 * h + 3 * m /\ 2 * r < 5 * m
  <2>1. c * m \in Int /\ c * m = m * c
    BY <1>1, <1>10
  <2> QED BY <1>1, <1>8, <1>10, <1>14, <2>1
<1>16. 2 * r < IntSize
  BY <1>1, <1>15
<1>17. ToInt(ToInt(x) - ToInt(c * m)) = r
  <2> DEFINE y == c * m
  <2>1. x \in Int /\ y \in Int /\ r = x - y
    BY <1>1, <1>8, <1>10
  <2> HIDE DEF y, r
  <2>2. ToInt(ToInt(x) - ToInt(y)) = ToInt(x - y)
    <3>1. ToInt(y) \in Int
      BY <2>1, ToIntOf, Widths
    <3> QED BY <2>1, <3>1, ToIntSums
  <2>3. ToInt(r) = r
    BY <1>1, <1>15, <1>16, <2>1, Wraps
  <2> QED BY <2>1, <2>2, <2>3 DEF y
<1>18. BatchMulModAvx2(u, v, m) = IF ~ IsNegative(r) /\ r > m THEN ToInt(r - m) ELSE r
  <2> HIDE DEF r
  <2> QED BY <1>7, <1>12, <1>13, <1>17
<1> HIDE DEF r
<1>19. (x % m) = (r % m)
  <2>1. x = r + m * c /\ r \in Int /\ c \in Int
    BY <1>1, <1>8, <1>10, <1>15
  <2>2. ((r + m * c) % m) = (r % m)
    BY <1>1, <2>1, SameResidue, Zenon
  <2> QED BY <2>1, <2>2
<1>20. ~ IsNegative(r)
  BY <1>15, <1>16, Widths DEF IsNegative
<1>21. CASE r > m
  <2>1. ToInt(r - m) = r - m
    BY <1>1, <1>15, <1>16, <1>21, Wraps
  <2>2. BatchMulModAvx2(u, v, m) = r - m
    BY <1>18, <1>20, <1>21, <2>1
  <2>3. ((r - m) % m) = (r % m)
    <3>1. r - m \in Int /\ 1 \in Int /\ r = (r - m) + m * 1
      BY <1>1, <1>15
    <3>2. (((r - m) + m * 1) % m) = ((r - m) % m)
      BY <1>1, <3>1, SameResidue, Zenon
    <3> QED BY <3>1, <3>2
  <2> QED BY <1>1, <1>2, <1>15, <1>19, <1>21, <2>2, <2>3
<1>22. CASE ~ (r > m)
  <2>1. BatchMulModAvx2(u, v, m) = r
    BY <1>18, <1>22
  <2> QED BY <1>1, <1>2, <1>15, <1>19, <1>22, <2>1
<1> QED BY <1>21, <1>22

\* Remainders of sums and products of remainders.
LEMMA Residues2 ==
    ASSUME NEW p \in Nat \ {0}, NEW a \in Int, NEW b \in Int
    PROVE  /\ ((a + (b % p)) % p) = ((a + b) % p)
           /\ (((a % p) * b) % p) = ((a * b) % p)
           /\ ((b * (a % p)) % p) = ((a * b) % p)
           /\ ((a % p) % p) = (a % p)
<1>1. ASSUME NEW x \in Int
      PROVE  \E k \in Int : (x % p) = x + p * k
  <2>1. x \div p \in Int /\ x = p * (x \div p) + (x % p) /\ (x % p) \in 0 .. p - 1
    BY Division
  <2> DEFINE d == x \div p
             k == - d
             r == (x % p)
  <2> HIDE DEF r
  <2>2. k \in Int /\ r = x + p * k
    <3>1. d \in Int /\ r \in Int /\ x = p * d + r
      BY <2>1 DEF r
    <3> HIDE DEF d
    <3> QED BY <3>1
  <2> HIDE DEF k
  <2> QED BY <2>2 DEF r
<1>2. ASSUME NEW x \in Int, NEW y \in Int, NEW k \in Int, y = x + p * k
      PROVE  (y % p) = (x % p)
  BY <1>2, SameResidue
<1>3. ((a + (b % p)) % p) = ((a + b) % p)
  <2>1. PICK k \in Int : (b % p) = b + p * k
    BY <1>1
  <2>2. a + (b % p) \in Int /\ a + b \in Int /\ a + (b % p) = (a + b) + p * k
    BY <2>1
  <2> QED BY <1>2, <2>2, Zenon
<1>4. /\ (((a % p) * b) % p) = ((a * b) % p)
      /\ ((b * (a % p)) % p) = ((a * b) % p)
  <2>1. PICK k \in Int : (a % p) = a + p * k
    BY <1>1
  <2>2. /\ a * b \in Int /\ k * b \in Int
        /\ (a + p * k) * b = a * b + p * (k * b) /\ (a + p * k) * b \in Int
        /\ b * (a + p * k) = a * b + p * (k * b) /\ b * (a + p * k) \in Int
    OBVIOUS
  <2>3. (((a + p * k) * b) % p) = ((a * b) % p)
    <3> DEFINE x == a * b
               y == (a + p * k) * b
               j == k * b
    <3>1. x \in Int /\ y \in Int /\ j \in Int /\ y = x + p * j
      BY <2>2
    <3> HIDE DEF x, y, j
    <3>2. (y % p) = (x % p)
      BY <1>2, <3>1
    <3> QED BY <3>2 DEF x, y
  <2>4. ((b * (a + p * k)) % p) = ((a * b) % p)
    BY <2>2, <2>3
  <2> QED BY <2>1, <2>3, <2>4, Zenon
<1>5. ((a % p) % p) = (a % p)
  <2>1. PICK k \in Int : (a % p) = a + p * k
    BY <1>1
  <2>2. a + p * k \in Int
    OBVIOUS
  <2>3. ((a + p * k) % p) = (a % p)
    BY <1>2, <2>2, Zenon
  <2> QED BY <2>1, <2>3, Zenon
<1> QED BY <1>3, <1>4, <1>5

\* A register's sum of a residue and a product of the wide form.
LEMMA WideSum ==
    ASSUME NEW m \in Moduli \ {1}, NEW u \in 0 .. m - 1, NEW v \in 0 .. m - 1, NEW y \in 0 .. m - 1
    PROVE  LET sum == BatchAddModAvx2(y, BatchMulModAvx2(u, v, m), m, TRUE)
           IN  (sum % m) = FusedMulAdd(y, u, v, m) /\ sum < 2 * m
<1> DEFINE product == BatchMulModAvx2(u, v, m)
           all == y + product
           sum == BatchAddModAvx2(y, product, m, TRUE)
<1>1. m \in Nat \ {0} /\ m \in Moduli /\ 4 * m < IntSize /\ IntSize \in Nat \ {0}
  BY ModulusOf, Widths
<1>2. product \in Nat /\ (product % m) = ((u * v) % m) /\ 2 * product < 3 * m
  BY <1>1, WideProduct, MulExact
<1> HIDE DEF product
<1>3. sum = Settle(all, m)
  <2>1. /\ 2 * m <= IntSize /\ y \in Nat /\ product \in Nat /\ y + product < IntSize
        /\ 2 * (y + product - m) < IntSize
    BY <1>1, <1>2
  <2> QED BY <1>1, <2>1, BatchSum
<1>4. all \in Int
  BY <1>2
<1>5. FusedMulAdd(y, u, v, m) = ((y + u * v) % m)
  BY <1>1, MulExact
<1>6. (all % m) = ((y + u * v) % m)
  <2> DEFINE x == u * v
  <2>1. x \in Int /\ y \in Int /\ product \in Int /\ (product % m) = (x % m)
    BY <1>1, <1>2
  <2> HIDE DEF x
  <2>2. ((y + (product % m)) % m) = ((y + product) % m) /\ ((y + (x % m)) % m) = ((y + x) % m)
    BY <1>1, <2>1, Residues2
  <2> QED BY <2>1, <2>2 DEF x
<1>7. all \in Nat /\ 2 * all < 5 * m
  BY <1>1, <1>2
<1> HIDE DEF all, sum
<1>8. (Settle(all, m) % m) = (all % m) /\ Settle(all, m) < 2 * m
  <2>1. CASE all >= m
    <3>1. Settle(all, m) = all - m /\ all - m < 2 * m /\ all - m \in Int
      BY <1>1, <1>7, <2>1 DEF Settle
    <3>2. all = (all - m) + m * 1 /\ 1 \in Int
      BY <1>1, <1>4
    <3>3. (((all - m) + m * 1) % m) = ((all - m) % m)
      BY <1>1, <3>1, <3>2, SameResidue, Zenon
    <3> QED BY <3>1, <3>2, <3>3
  <2>2. CASE all < m
    BY <1>1, <1>7, <2>2 DEF Settle
  <2> QED BY <1>1, <1>4, <2>1, <2>2
<1>9. (sum % m) = FusedMulAdd(y, u, v, m) /\ sum < 2 * m
  BY <1>3, <1>5, <1>6, <1>8
<1> QED BY <1>9 DEF sum, product

\* A product left in three words, put together again.
LEMMA ThreeWords ==
    ASSUME NEW m \in Moduli \ {1}, NEW u \in 0 .. m - 1, NEW v \in 0 .. m - 1,
           NEW p \in Nat \ {0}, 2 * p < IntSize, IntSize < 4 * p
    PROVE  Assembled(BatchMulWithoutReduction(u, v, p), p) = ((u * v) % p)
<1> DEFINE H == HalfSize
           ul == Low(u)
           uh == High(u)
           vl == Low(v)
           vh == High(v)
           corner == ul * vl
           sum == ul * vh + uh * vl
           low == BatchReduceWith63BitModulus64(corner, p)
           mid == BatchAddModAvx2(ul * vh, uh * vl, p, TRUE)
           high == uh * vh
<1>1. m \in Nat \ {0} /\ 4 * m < IntSize /\ IntSize \in Nat \ {0} /\ 2 * (IntSize \div 2) = IntSize
  BY ModulusOf, Widths
<1>2. m < p
  BY <1>1
<1>3. u \in Nat /\ v \in Nat /\ u < IntSize /\ v < IntSize /\ H \in Nat \ {0} /\ H * H = IntSize
  BY <1>1, Halves
<1>4. /\ ul \in 0 .. H - 1 /\ uh \in 0 .. H - 1 /\ u = H * uh + ul
      /\ vl \in 0 .. H - 1 /\ vh \in 0 .. H - 1 /\ v = H * vh + vl
  BY <1>3, Halves
<1>5. BatchMulWithoutReduction(u, v, p) = [low |-> low, mid |-> mid, high |-> high]
  BY Zenon DEF BatchMulWithoutReduction
<1> HIDE DEF H, ul, uh, vl, vh
<1>6. corner \in 0 .. IntSize - 1 /\ high \in Nat
  <2>1. 0 \in 0 .. H - 1
    BY <1>3
  <2>2. corner \in Nat /\ corner + 0 < H * H
    BY <1>3, <1>4, <2>1, HalvesFit
  <2> QED BY <1>1, <1>3, <1>4, <2>2
<1> HIDE DEF corner
<1>7. low \in Nat /\ (low % p) = (corner % p)
  <2> DEFINE Reduced(y) == IF IsNegative(y) THEN ToInt(y - p) ELSE y
  <2>1. ASSUME NEW y \in 0 .. IntSize - 1
        PROVE  Reduced(y) \in 0 .. IntSize - 1 /\ (Reduced(y) % p) = (y % p)
    <3>1. CASE IsNegative(y)
      <4>1. y >= IntSize \div 2
        BY <3>1 DEF IsNegative
      <4>2. y - p \in 0 .. IntSize - 1 /\ 1 \in Int /\ y - p \in Int /\ y = (y - p) + p * 1
        BY <1>1, <1>2, <4>1
      <4>3. Reduced(y) = y - p
        BY <3>1, <4>2, ToIntOf
      <4>4. (((y - p) + p * 1) % p) = ((y - p) % p)
        BY <1>2, <4>2, SameResidue, Zenon
      <4> HIDE DEF Reduced
      <4> QED BY <4>2, <4>3, <4>4, Zenon
    <3>2. CASE ~ IsNegative(y)
      BY <3>2
    <3> QED BY <3>1, <3>2
  <2>2. low = Reduced(Reduced(Reduced(corner)))
    BY Zenon DEF BatchReduceWith63BitModulus64
  <2> HIDE DEF Reduced, low
  <2>3. low \in 0 .. IntSize - 1 /\ (low % p) = (corner % p)
    BY <1>6, <2>1, <2>2
  <2> QED BY <1>1, <2>3
<1>8. mid = (sum % p) /\ sum \in Nat
  <2>1. ul * vh \in Nat /\ uh * vl \in Nat /\ ul * vh <= v /\ uh * vl <= u
    <3>1. ul * vh <= H * vh /\ uh * vl <= uh * H
      BY <1>3, <1>4, Products
    <3>2. H * vh <= v /\ uh * H <= u
      BY <1>3, <1>4
    <3>3. ul * vh \in Nat /\ uh * vl \in Nat /\ H * vh \in Int /\ uh * H \in Int
      BY <1>3, <1>4
    <3> QED BY <1>3, <3>1, <3>2, <3>3
  <2> DEFINE a == ul * vh
             b == uh * vl
  <2>2. a \in Nat /\ b \in Nat /\ a + b < 2 * m
    BY <1>1, <2>1
  <2> HIDE DEF a, b
  <2>3. /\ 2 * p <= IntSize /\ a + b < IntSize /\ 2 * (a + b - p) < IntSize
        /\ a + b \in 0 .. 2 * p - 1
    BY <1>1, <1>2, <2>2
  <2>4. BatchAddModAvx2(a, b, p, TRUE) = Settle(a + b, p)
    BY <1>2, <2>2, <2>3, BatchSum
  <2>5. Settle(a + b, p) = ((a + b) % p)
    <3> DEFINE y == a + b
    <3>1. y \in 0 .. 2 * p - 1
      BY <2>3
    <3> HIDE DEF y
    <3>2. Settle(y, p) = (y % p)
      BY <3>1, SettleResidue
    <3> QED BY <3>2 DEF y
  <2>6. mid = BatchAddModAvx2(a, b, p, TRUE) /\ sum = a + b
    BY DEF a, b
  <2> HIDE DEF mid, sum
  <2>7. mid = (sum % p)
    BY <2>4, <2>5, <2>6, Zenon
  <2>8. a + b \in Nat
    BY <2>2
  <2>9. sum \in Nat
    BY <2>6, <2>8, Zenon
  <2> QED BY <2>7, <2>9, Zenon
<1>9. u * v = corner + sum * H + high * IntSize
  <2>1. u * v = (H * H) * (uh * vh) + H * (ul * vh) + H * (uh * vl) + ul * vl
    BY <1>3, <1>4, ProductOfHalves
  <2>2. H * (ul * vh) + H * (uh * vl) = sum * H
    BY <1>3, <1>4
  <2>3. (H * H) * (uh * vh) = high * IntSize
    BY <1>1, <1>3, <1>4
  <2>4. /\ H * (ul * vh) \in Int /\ H * (uh * vl) \in Int /\ (H * H) * (uh * vh) \in Int
        /\ sum * H \in Int /\ high * IntSize \in Int /\ corner \in Int
    BY <1>1, <1>3, <1>4, <1>6, <1>8
  <2>5. corner = ul * vl
    BY DEF corner
  <2> HIDE DEF sum, high
  <2> QED BY <2>1, <2>2, <2>3, <2>4, <2>5
<1>10. Assembled(BatchMulWithoutReduction(u, v, p), p)
           = ((low + ((mid * H) % p) + (((high % p) * IntSize) % p)) % p)
  <2> HIDE DEF low, mid, high
  <2> DEFINE words == BatchMulWithoutReduction(u, v, p)
  <2>1. words.low = low /\ words.mid = mid /\ words.high = high
    BY <1>5
  <2> HIDE DEF words
  <2>2. Assembled(words, p) = ((low + ((mid * H) % p) + (((high % p) * IntSize) % p)) % p)
    BY <2>1, Zenon DEF Assembled, H
  <2> QED BY <2>2 DEF words
<1> HIDE DEF low, mid, high, sum
<1> DEFINE a == sum * H
           b == high * IntSize
<1>11. a \in Int /\ b \in Int /\ low \in Int /\ corner \in Int /\ low + a \in Int
  BY <1>1, <1>3, <1>6, <1>7, <1>8
<1>12. ((mid * H) % p) = (a % p) /\ (((high % p) * IntSize) % p) = (b % p)
  <2>1. sum \in Int /\ H \in Int /\ high \in Int /\ IntSize \in Int
    BY <1>1, <1>3, <1>6, <1>8
  <2> QED BY <1>2, <1>8, <2>1, Residues2, Zenon
<1> HIDE DEF a, b
<1>13. ((low + (a % p) + (b % p)) % p) = ((corner + a + b) % p)
  <2>0. (low % p) = (corner % p) /\ corner \in Int /\ low \in Int /\ a \in Int /\ b \in Int
    BY <1>7, <1>11
  <2>1. (a % p) \in Int /\ low + (a % p) \in Int /\ low + b \in Int /\ a + b \in Int
    BY <2>0, Division
  <2>2. ((low + (a % p) + (b % p)) % p) = ((low + (a % p) + b) % p)
    BY <2>0, <2>1, Residues2, Zenon
  <2>3. low + (a % p) + b = (low + b) + (a % p)
    BY <2>0, <2>1
  <2>4. (((low + b) + (a % p)) % p) = (((low + b) + a) % p)
    BY <2>0, <2>1, Residues2, Zenon
  <2>5. (low + b) + a = (a + b) + low /\ (a + b) + corner = corner + a + b
    BY <2>0
  <2>6. (((a + b) + (low % p)) % p) = (((a + b) + low) % p)
    BY <2>0, <2>1, Residues2, Zenon
  <2>7. (((a + b) + (corner % p)) % p) = (((a + b) + corner) % p)
    BY <2>0, <2>1, Residues2, Zenon
  <2> QED BY <2>0, <2>2, <2>3, <2>4, <2>5, <2>6, <2>7, Zenon
<1> QED BY <1>9, <1>10, <1>12, <1>13, Zenon DEF a, b

(***************************************************************************)
(* Lanes: products in doubles                                              *)
(***************************************************************************)

\* What a factor has of room, a product has.
LEMMA Spread ==
    ASSUME NEW a \in Nat, NEW e \in Int, NEW f \in Int, NEW P \in Nat, - f <= P * e, P * e <= f
    PROVE  - (f * a) <= P * (e * a) /\ P * (e * a) <= f * a
<1>1. (P * e) * a <= f * a
  <2>1. (f - P * e) * a >= 0
    OBVIOUS
  <2>2. (f - P * e) * a = f * a - (P * e) * a
    OBVIOUS
  <2> QED BY <2>1, <2>2
<1>2. - (f * a) <= (P * e) * a
  <2>1. (f + P * e) * a >= 0
    OBVIOUS
  <2>2. (f + P * e) * a = f * a + (P * e) * a
    OBVIOUS
  <2> QED BY <2>1, <2>2
<1>3. P * (e * a) = (P * e) * a
  OBVIOUS
<1> QED BY <1>1, <1>2, <1>3

\* Three roundings, each of one part in P: of the product x to h, of the
\* reciprocal to J, of their product to G.  The quotient b is off by less than
\* one to either side of the true one.
LEMMA RoundedQuotient ==
    ASSUME NEW P \in Nat \ {0}, NEW p \in Nat \ {0}, NEW D \in Nat \ {0},
           NEW x \in Nat, NEW h \in Nat, NEW J \in Nat, NEW b \in Int, NEW t \in 0 .. D - 1,
           NEW e1 \in Int, NEW e2 \in Int, NEW e3 \in Int,
           x <= p * p, 8 * p <= P,
           h = x + e1, - x <= P * e1, P * e1 <= x,
           J * p = D + e2, - D <= P * e2, P * e2 <= D,
           D * b + t = h * J + e3, - (h * J) <= P * e3, P * e3 <= h * J
    PROVE  - p < x - b * p /\ x - b * p < 2 * p
<1> DEFINE E == e1 * D + e2 * h + e3 * p
           v == x - b * p
<1>1. D * v = p * t - E
  <2>1. D * v = D * x - p * (D * b)
    OBVIOUS
  <2>2. p * (D * b) = p * (h * J) + p * e3 - p * t
    <3>1. D * b = h * J + e3 - t
      OBVIOUS
    <3>2. p * (h * J + e3 - t) = p * (h * J) + p * e3 - p * t
      OBVIOUS
    <3> QED BY <3>1, <3>2
  <2>3. p * (h * J) = h * D + e2 * h
    <3>1. p * (h * J) = h * (J * p)
      OBVIOUS
    <3>2. h * (D + e2) = h * D + e2 * h
      OBVIOUS
    <3> QED BY <3>1, <3>2
  <2>4. h * D = D * x + e1 * D
    <3>1. (x + e1) * D = D * x + e1 * D
      OBVIOUS
    <3> QED BY <3>1
  <2>5. p * e3 = e3 * p /\ p * e3 \in Int
    OBVIOUS
  <2> HIDE DEF v
  <2>6. D * v \in Int /\ D * x \in Int /\ p * (D * b) \in Int /\ p * (h * J) \in Int /\ p * t \in Int /\ h * D \in Int /\ e2 * h \in Int /\ e1 * D \in Int
    <3>1. v \in Int
      BY DEF v
    <3> QED BY <3>1
  <2> QED BY <2>1, <2>2, <2>3, <2>4, <2>5, <2>6
<1>2. - (x * D) <= P * (e1 * D) /\ P * (e1 * D) <= x * D
  <2>1. D \in Nat
    OBVIOUS
  <2> QED BY <2>1, Spread
<1>3. - (D * h) <= P * (e2 * h) /\ P * (e2 * h) <= D * h
  BY Spread
<1>4. - ((h * J) * p) <= P * (e3 * p) /\ P * (e3 * p) <= (h * J) * p
  <2> DEFINE f == h * J
  <2>1. f \in Int /\ - f <= P * e3 /\ P * e3 <= f /\ p \in Nat /\ P \in Nat
    OBVIOUS
  <2> HIDE DEF f
  <2>2. - (f * p) <= P * (e3 * p) /\ P * (e3 * p) <= f * p
    BY <2>1, Spread
  <2> QED BY <2>2 DEF f
<1>5. D * h <= 2 * (x * D) /\ (h * J) * p <= 2 * (D * h) /\ D * h \in Nat /\ x * D \in Nat
  <2>1. P >= 1 /\ e1 <= x /\ e2 <= D
    <3>1. ASSUME NEW e \in Int, NEW f \in Nat, P * e <= f PROVE e <= f
      <4>1. e > 0 => P * e >= e
        OBVIOUS
      <4> QED BY <3>1, <4>1
    <3> QED BY <3>1
  <2>2. h <= 2 * x /\ D * h <= D * (2 * x)
    <3>1. h <= 2 * x
      BY <2>1
    <3> QED BY <3>1, Products
  <2>3. D * (2 * x) = 2 * (x * D)
    OBVIOUS
  <2>4. h * (J * p) <= h * (2 * D)
    <3>1. J * p <= 2 * D /\ J * p \in Nat
      BY <2>1
    <3> QED BY <3>1, Products
  <2>5. h * (J * p) = (h * J) * p /\ h * (2 * D) = 2 * (D * h)
    OBVIOUS
  <2>6. D * h \in Nat /\ x * D \in Nat
    OBVIOUS
  <2> QED BY <2>2, <2>3, <2>4, <2>5, <2>6
<1>6. - (7 * (x * D)) <= P * E /\ P * E <= 7 * (x * D)
  <2>1. P * E = P * (e1 * D) + P * (e2 * h) + P * (e3 * p)
    OBVIOUS
  <2>2. P * (e1 * D) \in Int /\ P * (e2 * h) \in Int /\ P * (e3 * p) \in Int /\ (h * J) * p \in Int
    OBVIOUS
  <2> HIDE DEF E
  <2> QED BY <1>2, <1>3, <1>4, <1>5, <2>1, <2>2
<1>7. 7 * (x * D) < P * (p * D)
  <2>1. x * D <= (p * p) * D /\ (8 * p) * (p * D) <= P * (p * D)
    <3>1. x * D <= (p * p) * D
      BY Products
    <3>2. (8 * p) * (p * D) <= P * (p * D)
      BY Products
    <3> QED BY <3>1, <3>2
  <2>2. (8 * p) * (p * D) = 8 * ((p * p) * D) /\ (p * p) * D \in Nat \ {0} /\ P * (p * D) \in Int
    OBVIOUS
  <2> QED BY <1>5, <2>1, <2>2
<1>8. - (p * D) < E /\ E < p * D
  <2> DEFINE f == p * D
  <2>1. E \in Int /\ f \in Int /\ - f \in Int /\ P * (- f) = - (P * f) /\ P * f \in Int /\ P * E \in Int
    OBVIOUS
  <2>2. 7 * (x * D) \in Int
    OBVIOUS
  <2>3. P * E < P * f /\ P * (- f) < P * E
    <3> HIDE DEF f, E
    <3>1. P * E < P * f
      BY <1>6, <1>7, <2>1, <2>2 DEF f
    <3>2. P * (- f) < P * E
      BY <1>6, <1>7, <2>1, <2>2 DEF f
    <3> QED BY <3>1, <3>2
  <2> HIDE DEF E, f
  <2>4. E < f /\ - f < E
    BY <2>1, <2>3, Cancel
  <2> QED BY <2>4 DEF f
<1>9. 0 <= p * t /\ p * t < p * D /\ p * t \in Int /\ p * D \in Int
  <2>1. p * t < p * D
    OBVIOUS
  <2> QED BY <2>1
<1>10. D * (- p) < D * v /\ D * v < D * (2 * p)
  <2>1. D * (- p) = - (p * D) /\ D * (2 * p) = p * D + p * D /\ E \in Int
    OBVIOUS
  <2> HIDE DEF E, v
  <2> QED BY <1>1, <1>8, <1>9, <2>1
<1>11. v \in Int /\ - p \in Int /\ 2 * p \in Int
  OBVIOUS
<1> HIDE DEF v
<1>12. - p < v /\ v < 2 * p
  BY <1>10, <1>11, Cancel
<1> QED BY <1>12 DEF v

\* The significand, and the width of what its products may have.
LEMMA FloatWidths ==
    /\ FloatBits \in Nat /\ FloatBits >= 4 /\ FloatBits <= IntBits
    /\ 2 ^ FloatBits \in Nat \ {0} /\ 2 ^ (FloatBits - 3) \in Nat \ {0}
    /\ 2 ^ FloatBits = 8 * 2 ^ (FloatBits - 3)
    /\ 2 ^ (3 * IntBits) \in Nat /\ 2 ^ FloatBits <= 2 ^ (3 * IntBits)
<1>1. FloatBits \in Nat /\ FloatBits >= 4 /\ FloatBits <= IntBits /\ IntBits \in Nat
  BY BatchAssumption, IntBitsAssumption
<1>2. /\ FloatBits - 3 \in Nat /\ 3 \in Nat /\ FloatBits - 3 + 3 = FloatBits /\ FloatBits <= 3 * IntBits
      /\ 3 * IntBits \in Nat /\ FloatBits \in 0 .. 3 * IntBits /\ FloatBits - 3 \in 0 .. 3 * IntBits
      /\ 3 * IntBits \in 0 .. 3 * IntBits /\ 3 * IntBits <= 3 * IntBits
  BY <1>1
<1>3. 2 ^ (FloatBits - 3 + 3) = 2 ^ (FloatBits - 3) * 2 ^ 3
  BY <1>2, PowersAdd
<1>4. 2 ^ 3 = 8
  OBVIOUS
<1>5. 2 ^ FloatBits \in Nat \ {0} /\ 2 ^ (FloatBits - 3) \in Nat \ {0} /\ 2 ^ (3 * IntBits) \in Nat
  BY <1>2, PowersPositive
<1>6. 2 ^ FloatBits <= 2 ^ (3 * IntBits)
  BY <1>1, <1>2, PowersGrow
<1>7. 2 ^ FloatBits = 8 * 2 ^ (FloatBits - 3)
  BY <1>2, <1>3, <1>4, <1>5
<1> QED BY <1>1, <1>5, <1>6, <1>7

\* The unit of a number is one up to the significand, and a power of two of at
\* most two parts in 2^FloatBits beyond.
LEMMA UnitOf ==
    ASSUME NEW x \in Nat, x < 2 ^ (3 * IntBits)
    PROVE  /\ Unit(x) \in Nat \ {0}
           /\ x < 2 ^ FloatBits => Unit(x) = 1
           /\ 2 ^ FloatBits <= x => 2 ^ FloatBits * Unit(x) <= 2 * x
<1> DEFINE P == 2 ^ FloatBits
           width == BitWidth(x)
           shift == IF width > FloatBits THEN width - FloatBits ELSE 0
<1>1. P \in Nat \ {0} /\ FloatBits \in Nat /\ IntBits \in Nat /\ FloatBits <= 3 * IntBits
  BY FloatWidths, IntBitsAssumption
<1>2. width \in 0 .. 3 * IntBits /\ x < 2 ^ width /\ (width = 0 \/ 2 ^ (width - 1) <= x)
  BY BitWidthOf
<1>3. Unit(x) = 2 ^ shift
  BY Zenon DEF Unit
<1> HIDE DEF width
<1>4. shift \in 0 .. 3 * IntBits
  BY <1>1, <1>2
<1>5. 2 ^ shift \in Nat \ {0}
  BY <1>4, PowersPositive
<1>6. ASSUME x < P
      PROVE  2 ^ shift = 1
  <2>1. width <= FloatBits
    <3> SUFFICES ASSUME width > FloatBits PROVE FALSE
      BY <1>1, <1>2
    <3>1. /\ FloatBits \in Nat /\ width - 1 \in Nat /\ FloatBits <= width - 1
          /\ width - 1 <= 3 * IntBits /\ width # 0 /\ width - 1 \in 0 .. 3 * IntBits
      BY <1>1, <1>2
    <3>2. P <= 2 ^ (width - 1)
      BY <3>1, PowersGrow
    <3>3. 2 ^ (width - 1) \in Nat
      BY <3>1, PowersPositive
    <3> QED BY <1>1, <1>2, <1>6, <3>1, <3>2, <3>3
  <2>2. shift = 0
    BY <1>1, <1>2, <2>1
  <2> HIDE DEF shift
  <2> QED BY <2>2, PowersAssumption, Zenon
<1>7. ASSUME P <= x
      PROVE  P * 2 ^ shift <= 2 * x
  <2>1. width > FloatBits
    <3> SUFFICES ASSUME width <= FloatBits PROVE FALSE
      BY <1>1, <1>2
    <3>1. width \in Nat /\ FloatBits \in Nat /\ width <= FloatBits /\ FloatBits <= 3 * IntBits
      BY <1>1, <1>2
    <3>2. 2 ^ width <= P
      BY <3>1, PowersGrow
    <3>3. 2 ^ width \in Nat
      BY <1>2, PowersPositive
    <3> QED BY <1>1, <1>2, <1>7, <3>2, <3>3
  <2>2. shift \in Nat /\ FloatBits + shift = width /\ FloatBits + shift <= 3 * IntBits
    BY <1>1, <1>2, <2>1
  <2> HIDE DEF shift
  <2>3. 2 ^ (FloatBits + shift) = P * 2 ^ shift
    BY <1>1, <2>2, PowersAdd
  <2>4. width \in 1 .. 3 * IntBits /\ width # 0 /\ width - 1 \in 0 .. 3 * IntBits
    BY <1>1, <1>2, <2>1
  <2>5. 2 ^ width = 2 * 2 ^ (width - 1) /\ 2 ^ (width - 1) \in Nat
    BY <2>4, PowersAssumption, PowersPositive
  <2>6. P * 2 ^ shift = 2 ^ width
    BY <2>2, <2>3
  <2> QED BY <1>2, <2>4, <2>5, <2>6
<1> HIDE DEF shift
<1> QED BY <1>3, <1>5, <1>6, <1>7

\* A number is rounded by at most one part in 2^FloatBits, and not at all up to
\* the significand.
LEMMA RoundedOf ==
    ASSUME NEW x \in Nat, x < 2 ^ (3 * IntBits)
    PROVE  /\ x < 2 ^ FloatBits => Rounded(x) = x
           /\ \E e \in Int : /\ Rounded(x) = x + e /\ x + e \in Nat
                             /\ - x <= 2 ^ FloatBits * e /\ 2 ^ FloatBits * e <= x
<1> DEFINE P == 2 ^ FloatBits
           unit == Unit(x)
           below == x \div unit
           rest == (x % unit)
           up == 2 * rest > unit \/ (2 * rest = unit /\ (below % 2) = 1)
           e == IF up THEN unit - rest ELSE - rest
           rounded == Rounded(x)
<1>1. P \in Nat \ {0}
  BY FloatWidths
<1>2. unit \in Nat \ {0} /\ (x < P => unit = 1) /\ (P <= x => P * unit <= 2 * x)
  BY UnitOf
<1>3. rounded = unit * (IF up THEN below + 1 ELSE below)
  BY DEF Rounded
<1> HIDE DEF unit, rounded
<1>4. below \in Nat /\ rest \in 0 .. unit - 1 /\ x = unit * below + rest
  <2>1. x \in Int /\ x >= 0
    OBVIOUS
  <2> QED BY <1>2, <2>1, Division
<1> HIDE DEF below, rest
<1>5. rounded = x + e /\ e \in Int /\ x + e \in Nat /\ - unit <= 2 * e /\ 2 * e <= unit
  <2>1. CASE up
    <3>1. 2 * rest >= unit
      BY <1>2, <1>4, <2>1
    <3>2. rounded = unit * (below + 1) /\ e = unit - rest
      BY <1>3, <2>1
    <3>3. unit * (below + 1) = unit * below + unit /\ unit * below \in Nat
      BY <1>2, <1>4
    <3> HIDE DEF e
    <3> QED BY <1>2, <1>4, <3>1, <3>2, <3>3
  <2>2. CASE ~ up
    <3>1. 2 * rest <= unit
      BY <1>2, <1>4, <2>2
    <3>2. rounded = unit * below /\ e = - rest
      BY <1>3, <2>2
    <3>3. unit * below \in Nat
      BY <1>2, <1>4
    <3> HIDE DEF e
    <3> QED BY <1>2, <1>4, <3>1, <3>2, <3>3
  <2> QED BY <2>1, <2>2
<1> HIDE DEF e, P
<1>6. ASSUME x < P
      PROVE  e = 0
  BY <1>2, <1>5, <1>6
<1>7. - x <= P * e /\ P * e <= x
  <2>1. CASE x < P
    BY <1>1, <1>6, <2>1
  <2>2. CASE ~ (x < P)
    <3>1. P * unit <= 2 * x
      BY <1>1, <1>2, <2>2
    <3>2. P * (unit - 2 * e) >= 0 /\ P * (unit - 2 * e) = P * unit - P * (2 * e)
      BY <1>1, <1>2, <1>5
    <3>3. P * (unit + 2 * e) >= 0 /\ P * (unit + 2 * e) = P * unit + P * (2 * e)
      BY <1>1, <1>2, <1>5
    <3>4. P * unit \in Int /\ P * (2 * e) \in Int /\ P * (2 * e) = 2 * (P * e) /\ P * e \in Int
      BY <1>1, <1>2, <1>5
    <3> QED BY <3>1, <3>2, <3>3, <3>4
  <2> QED BY <2>1, <2>2
<1>8. x < P => rounded = x
  BY <1>5, <1>6
<1> QED BY <1>5, <1>7, <1>8 DEF P, rounded

\* Integers of no more bits than the significand are doubles.
LEMMA ToDoubleSmall ==
    ASSUME NEW x \in Int, - (2 ^ FloatBits) < x, x < 2 ^ FloatBits
    PROVE  ToDouble(x) = x
<1> DEFINE P == 2 ^ FloatBits
           M == 2 ^ (3 * IntBits)
<1>1. P \in Nat /\ M \in Nat /\ P <= M /\ - P < x /\ x < P
  BY FloatWidths
<1>2. ASSUME NEW y \in Nat, y < P PROVE Rounded(y) = y
  <2>1. y < M
    BY <1>1, <1>2
  <2> QED BY <1>2, <2>1, RoundedOf
<1> HIDE DEF P
<1>3. CASE x < 0
  <2>1. - x \in Nat /\ - x < P
    BY <1>1, <1>3
  <2>2. Rounded(- x) = - x
    BY <1>2, <2>1
  <2>3. ToDouble(x) = - Rounded(- x)
    BY <1>3 DEF ToDouble
  <2> QED BY <2>2, <2>3
<1>4. CASE ~ (x < 0)
  <2>1. Rounded(x) = x
    BY <1>1, <1>2, <1>4
  <2> QED BY <1>4, <2>1 DEF ToDouble
<1> QED BY <1>3, <1>4

\* A natural number is rounded as its size.
LEMMA ToDoubleClose ==
    ASSUME NEW x \in Nat, x < 2 ^ (3 * IntBits)
    PROVE  \E e \in Int : /\ ToDouble(x) = x + e /\ x + e \in Nat
                          /\ - x <= 2 ^ FloatBits * e /\ 2 ^ FloatBits * e <= x
<1>1. ToDouble(x) = Rounded(x)
  BY DEF ToDouble
<1> QED BY <1>1, RoundedOf, Zenon

\* The reciprocal in doubles, rounded to the nearest.
LEMMA InverseOf ==
    ASSUME NEW p \in Moduli \ {1}, FloatModulus(p)
    PROVE  /\ 8 * p <= 2 ^ FloatBits
           /\ 2 ^ InverseScale(p) \in Nat \ {0}
           /\ 4 * p * 2 ^ InverseScale(p) <= 2 ^ (3 * IntBits)
           /\ InverseUnits(p) \in Nat
           /\ \E e \in Int : /\ InverseUnits(p) * p = 2 ^ InverseScale(p) + e
                             /\ - (2 ^ InverseScale(p)) <= 2 ^ FloatBits * e
                             /\ 2 ^ FloatBits * e <= 2 ^ InverseScale(p)
<1> DEFINE r == BarrettLength(p)
           h == 2 ^ (r - 2)
           P == 2 ^ FloatBits
           D == 2 ^ InverseScale(p)
           J == InverseUnits(p)
<1>1. /\ p \in Nat \ {0} /\ (p % 2) = 1 /\ h \in Nat \ {0} /\ 2 * h < p /\ p < 4 * h
      /\ 2 ^ (r - 1) = 2 * h /\ r \in 2 .. IntBits - 2
  <2>1. p \in Moduli
    OBVIOUS
  <2> QED BY <2>1, LengthOf, ModulusOf
<1>2. p < 2 ^ (FloatBits - 3) /\ P = 8 * 2 ^ (FloatBits - 3) /\ P \in Nat \ {0}
  BY FloatWidths DEF FloatModulus
<1>3. 8 * p <= P
  BY <1>1, <1>2, FloatWidths
<1>4. InverseScale(p) = FloatBits + r - 1
  BY DEF InverseScale, BarrettLength
<1> HIDE DEF r
<1>5. /\ FloatBits \in Nat /\ r - 1 \in Nat /\ FloatBits + (r - 1) = FloatBits + r - 1
      /\ FloatBits + (r - 1) <= 3 * IntBits /\ FloatBits + (r - 1) \in 0 .. 3 * IntBits
  BY <1>1, FloatWidths, IntBitsAssumption
<1>6. D = P * (2 * h) /\ D \in Nat \ {0}
  <2>1. 2 ^ (FloatBits + (r - 1)) = P * 2 ^ (r - 1)
    BY <1>5, PowersAdd
  <2>2. 2 ^ (FloatBits + (r - 1)) \in Nat \ {0}
    BY <1>5, PowersPositive
  <2> QED BY <1>1, <1>4, <1>5, <2>1, <2>2
<1>7. J = (D + p \div 2) \div p
  BY DEF InverseUnits
<1>8. 4 * p * D <= 2 ^ (3 * IntBits)
  <2> DEFINE N == IntSize
  <2>1. N \in Nat /\ 16 * h <= N /\ 4 * p <= N
    BY <1>1, LengthOf, ModulusOf, Widths DEF r
  <2>2. P \in Nat /\ P <= N
    <3>1. FloatBits \in Nat /\ IntBits \in Nat /\ FloatBits <= IntBits /\ IntBits <= 3 * IntBits
      BY FloatWidths, IntBitsAssumption
    <3>2. P <= 2 ^ IntBits
      BY <3>1, PowersGrow
    <3> QED BY <1>2, <3>2 DEF IntSize
  <2>3. 2 ^ (3 * IntBits) = N * (N * N)
    <3>1. /\ IntBits \in Nat /\ IntBits + IntBits \in Nat /\ IntBits + (IntBits + IntBits) <= 3 * IntBits
          /\ IntBits + IntBits <= 3 * IntBits /\ IntBits + (IntBits + IntBits) = 3 * IntBits
      BY IntBitsAssumption
    <3>2. 2 ^ (IntBits + (IntBits + IntBits)) = 2 ^ IntBits * 2 ^ (IntBits + IntBits)
      BY <3>1, PowersAdd
    <3>3. 2 ^ (IntBits + IntBits) = 2 ^ IntBits * 2 ^ IntBits
      BY <3>1, PowersAdd
    <3> QED BY <3>1, <3>2, <3>3 DEF IntSize
  <2> HIDE DEF N, P, D, h
  <2>4. P * (2 * h) <= N * N
    BY <1>1, <2>1, <2>2, Products
  <2>5. (4 * p) * D <= N * (N * N)
    BY <1>1, <1>6, <2>1, <2>4, Products
  <2> QED BY <1>1, <1>6, <2>3, <2>5
<1> HIDE DEF D, J, h, P
<1> DEFINE half == p \div 2
           y == D + half
           rest == (y % p)
           e == half - rest
<1>9. half \in Nat /\ p = 2 * half + 1
  BY <1>1
<1> HIDE DEF half
<1>10. J \in Nat /\ rest \in 0 .. p - 1 /\ y = p * J + rest
  <2>1. y \in Int /\ y >= 0
    BY <1>6, <1>9
  <2>2. J = y \div p
    BY <1>7 DEF half
  <2> HIDE DEF y
  <2>3. y \div p \in Nat /\ rest \in 0 .. p - 1 /\ y = p * (y \div p) + rest
    BY <1>1, <2>1, Division
  <2> QED BY <2>2, <2>3
<1>11. y = D + half /\ y \in Int
  BY <1>6, <1>9
<1> HIDE DEF y, rest
<1>12. J * p = D + e /\ e \in Int /\ - half <= e /\ e <= half
  <2>1. J * p = p * J /\ J * p \in Int
    BY <1>1, <1>10
  <2> QED BY <1>1, <1>6, <1>9, <1>10, <1>11, <2>1
<1> HIDE DEF e
<1>13. - D <= P * e /\ P * e <= D
  <2>1. P * half <= P * (2 * h)
    BY <1>1, <1>2, <1>9, Products
  <2>2. P * (half - e) >= 0 /\ P * (half - e) = P * half - P * e
    BY <1>2, <1>9, <1>12
  <2>3. P * (half + e) >= 0 /\ P * (half + e) = P * half + P * e
    BY <1>2, <1>9, <1>12
  <2>4. P * half \in Int /\ P * e \in Int
    BY <1>2, <1>9, <1>12
  <2> QED BY <1>6, <2>1, <2>2, <2>3, <2>4
<1> QED BY <1>3, <1>6, <1>8, <1>10, <1>12, <1>13 DEF D, J, P

\* The sizes of the rounded product and of its product with the reciprocal.
LEMMA RoundedSizes ==
    ASSUME NEW P \in Nat \ {0}, NEW p \in Nat \ {0}, NEW D \in Nat \ {0},
           NEW x \in Nat, NEW J \in Nat, NEW e1 \in Int, NEW e2 \in Int,
           x < p * p, 8 * p <= P, - x <= P * e1, P * e1 <= x, x + e1 \in Nat,
           J * p = D + e2, P * e2 <= D
    PROVE  /\ - p < e1 /\ e1 < p
           /\ (x + e1) * J \in Nat /\ (x + e1) * J < 4 * p * D
<1>1. P >= 1 /\ p * p \in Nat
  OBVIOUS
<1>2. ASSUME NEW e \in Int, P * e <= x PROVE e < p
  <2>1. CASE e < 0
    BY <2>1
  <2>2. CASE e >= 0
    <3>1. p * e <= P * e
      BY <2>2, Products
    <3>2. p * e < p * p /\ p \in Int
      BY <1>1, <1>2, <3>1
    <3> QED BY <3>2, Cancel
  <2> QED BY <2>1, <2>2
<1>3. e1 < p /\ - p < e1
  <2>1. P * (- e1) <= x /\ - e1 \in Int
    OBVIOUS
  <2>2. - e1 < p
    BY <1>2, <2>1
  <2> QED BY <1>2, <2>2
<1>4. x + e1 <= 2 * x /\ J * p <= 2 * D
  <2>1. ASSUME NEW e \in Int, NEW f \in Nat, P * e <= f PROVE e <= f
    <3>1. e > 0 => P * e >= e
      OBVIOUS
    <3> QED BY <2>1, <3>1
  <2> QED BY <2>1
<1> DEFINE h == x + e1
<1>5. h \in Nat /\ h <= 2 * x /\ J * p \in Nat
  BY <1>4
<1> HIDE DEF h
<1>6. h * (J * p) <= (2 * x) * (2 * D)
  BY <1>4, <1>5, Products
<1>7. (2 * x) * (2 * D) = (4 * D) * x /\ (4 * D) * x < (4 * D) * (p * p)
  <2>1. ASSUME NEW a \in Nat \ {0}, NEW y \in Nat, x < y PROVE a * x < a * y
    BY <2>1
  <2> QED BY <1>1, <2>1
<1>8. h * (J * p) = p * (h * J) /\ (4 * D) * (p * p) = p * (4 * p * D) /\ h * J \in Nat
  BY <1>5
<1>9. p * (h * J) < p * (4 * p * D)
  <2>1. p * (h * J) \in Int /\ p * (4 * p * D) \in Int /\ (4 * D) * x \in Int
    BY <1>8
  <2> QED BY <1>6, <1>7, <1>8, <2>1
<1>10. h * J < 4 * p * D
  <2>1. h * J \in Int /\ 4 * p * D \in Int
    BY <1>8
  <2> HIDE DEF h
  <2> QED BY <1>9, <2>1, Cancel
<1> QED BY <1>3, <1>8, <1>10 DEF h

\* The two corrections of a remainder that is off by at most p to either side.
LEMMA Corrected ==
    ASSUME NEW p \in Nat \ {0}, NEW x \in Nat, NEW b \in Int, NEW v \in Int,
           v = x - b * p, - p < v, v < 2 * p
    PROVE  LET below == IF v - p < 0 THEN v ELSE v - p
           IN  /\ - p < below /\ below < p
               /\ (IF below < 0 THEN below + p ELSE below) = (x % p)
               /\ (x % p) \in 0 .. p - 1
<1> DEFINE k == IF v < 0 THEN b - 1 ELSE IF v < p THEN b ELSE b + 1
           r == IF v < 0 THEN v + p ELSE IF v < p THEN v ELSE v - p
<1>1. k \in Int /\ r \in 0 .. p - 1
  OBVIOUS
<1>2. x = p * k + r
  <2>1. p * (b - 1) = b * p - p /\ p * (b + 1) = b * p + p /\ p * b = b * p /\ b * p \in Int
    OBVIOUS
  <2> QED BY <2>1
<1> HIDE DEF k
<1>3. (x % p) = r
  <2> HIDE DEF r
  <2> QED BY <1>1, <1>2, DivisionOf
<1> QED BY <1>1, <1>3

\* The product in doubles, with its three roundings and its two corrections, is
\* the exact residue for every modulus below 2^(FloatBits - 3).
LEMMA Uint50Exact ==
    ASSUME NEW m \in Moduli \ {1}, FloatModulus(m), NEW u \in 0 .. m - 1, NEW v \in 0 .. m - 1
    PROVE  BatchMulModAvx2Uint50(u, v, m) = Mul(u, v, m)
<1> DEFINE P == 2 ^ FloatBits
           D == 2 ^ InverseScale(m)
           J == InverseUnits(m)
           M == 2 ^ (3 * IntBits)
           x == u * v
           h == ToDouble(x)
           G == ToDouble(h * J)
           b == G \div D
           rest == x - b * m
<1>1. m \in Moduli /\ m \in Nat \ {0} /\ 4 * m < IntSize /\ IntSize \in Nat
  BY ModulusOf, Widths
<1>2. x \in Nat /\ x < m * m /\ x <= m * m /\ Mul(u, v, m) = (x % m)
  <2>1. x \in 0 .. (m - 1) * (m - 1) /\ Mul(u, v, m) = (x % m)
    BY <1>1, MulExact
  <2>2. (m - 1) * (m - 1) = m * m - 2 * m + 1 /\ m * m \in Int
    BY <1>1
  <2> HIDE DEF x
  <2> QED BY <1>1, <2>1, <2>2
<1>3. P \in Nat \ {0} /\ M \in Nat /\ 8 * m <= P
  BY FloatWidths, InverseOf
<1>4. D \in Nat \ {0} /\ 4 * m * D <= M /\ J \in Nat
  BY InverseOf
<1>5. PICK e2 \in Int : J * m = D + e2 /\ - D <= P * e2 /\ P * e2 <= D
  BY InverseOf
<1>6. x < M
  <2>1. m * m <= m * D
    <3>1. m <= D
      <4>1. InverseScale(m) = FloatBits + BarrettLength(m) - 1
        BY DEF InverseScale, BarrettLength
      <4>2. /\ FloatBits \in Nat /\ FloatBits <= InverseScale(m) /\ InverseScale(m) \in Nat
            /\ InverseScale(m) <= 3 * IntBits
        BY <4>1, LengthOf, FloatWidths, IntBitsAssumption
      <4>3. P <= D
        BY <4>2, PowersGrow
      <4> QED BY <1>1, <1>3, <1>4, <4>3
    <3> QED BY <1>1, <1>4, <3>1, Products
  <2>2. m * D \in Nat /\ 4 * m * D = 4 * (m * D) /\ m * m \in Nat
    BY <1>1, <1>4
  <2> HIDE DEF x, M, D
  <2> QED BY <1>2, <1>3, <1>4, <2>1, <2>2
<1> HIDE DEF x, D, J, P, M
<1>7. PICK e1 \in Int : h = x + e1 /\ x + e1 \in Nat /\ - x <= P * e1 /\ P * e1 <= x
  BY <1>2, <1>6, ToDoubleClose DEF P, M
<1> HIDE DEF h
<1>8. /\ - m < e1 /\ e1 < m
      /\ h * J \in Nat /\ h * J < 4 * m * D
  BY <1>1, <1>2, <1>3, <1>4, <1>5, <1>7, RoundedSizes
<1>9. h * J < M
  <2>1. h * J \in Int /\ 4 * m * D \in Int
    BY <1>1, <1>4, <1>8
  <2> QED BY <1>3, <1>4, <1>8, <2>1
<1>10. PICK e3 \in Int : /\ G = h * J + e3 /\ G \in Nat
                         /\ - (h * J) <= P * e3 /\ P * e3 <= h * J
  <2> DEFINE y == h * J
  <2>1. y \in Nat /\ y < M
    BY <1>8, <1>9
  <2> HIDE DEF y
  <2>2. \E e \in Int : /\ ToDouble(y) = y + e /\ y + e \in Nat
                       /\ - y <= P * e /\ P * e <= y
    BY <2>1, ToDoubleClose DEF P, M
  <2>3. PICK e \in Int : /\ ToDouble(y) = y + e /\ y + e \in Nat
                         /\ - y <= P * e /\ P * e <= y
    BY <2>2
  <2> WITNESS e \in Int
  <2> QED BY <2>3 DEF y
<1> HIDE DEF G
<1>11. b \in Int /\ (G % D) \in 0 .. D - 1 /\ D * b + (G % D) = h * J + e3
  <2>1. G \in Int
    BY <1>10
  <2>2. b \in Int /\ (G % D) \in 0 .. D - 1 /\ G = D * b + (G % D)
    BY <1>4, <2>1, Division
  <2> HIDE DEF b
  <2> QED BY <1>10, <2>2
<1> HIDE DEF b
<1>12. - m < rest /\ rest < 2 * m
  <2> DEFINE t == (G % D)
  <2>1. t \in 0 .. D - 1 /\ D * b + t = h * J + e3
    BY <1>11
  <2> HIDE DEF t
  <2>2. h \in Nat
    BY <1>7
  <2>3. - m < x - b * m /\ x - b * m < 2 * m
    BY <1>1, <1>2, <1>3, <1>4, <1>5, <1>7, <1>10, <1>11, <2>1, <2>2, RoundedQuotient
  <2> QED BY <2>3
<1>13. b * m \in Int /\ rest \in Int /\ rest = x - b * m
  BY <1>1, <1>2, <1>11
<1> HIDE DEF rest
<1> DEFINE below == IF rest - m < 0 THEN rest ELSE rest - m
<1>14. /\ - m < below /\ below < m
       /\ (IF below < 0 THEN below + m ELSE below) = (x % m)
       /\ (x % m) \in 0 .. m - 1
  <2>1. m \in Nat \ {0} /\ x \in Nat /\ b \in Int /\ rest \in Int
    BY <1>1, <1>2, <1>11, <1>13
  <2> QED BY <1>12, <1>13, <2>1, Corrected, Zenon
<1>15. ASSUME NEW y \in Int, - (8 * m) < y, y < 8 * m
       PROVE  ToDouble(y) = y
  <2>1. - P < y /\ y < P
    BY <1>1, <1>3, <1>15
  <2> QED BY <2>1, ToDoubleSmall DEF P
<1>16. ToDouble(x - h) = x - h /\ ToDouble(h - b * m) = h - b * m
  <2>1. x - h = - e1 /\ h - b * m = rest + e1
    BY <1>2, <1>7, <1>13
  <2>2. x - h \in Int /\ - (8 * m) < x - h /\ x - h < 8 * m
    BY <1>1, <1>8, <2>1
  <2>3. h - b * m \in Int /\ - (8 * m) < h - b * m /\ h - b * m < 8 * m
    BY <1>1, <1>8, <1>12, <1>13, <2>1
  <2> HIDE DEF below
  <2> QED BY <1>15, <2>2, <2>3
<1>17. ToDouble((h - b * m) + (x - h)) = rest
  <2>1. (h - b * m) + (x - h) = rest
    BY <1>2, <1>7, <1>13
  <2>2. rest \in Int /\ - (8 * m) < rest /\ rest < 8 * m
    BY <1>1, <1>12, <1>13
  <2> QED BY <1>15, <2>1, <2>2
<1>18. ToDouble(rest - m) = rest - m /\ ToDouble(below + m) = below + m
  <2>1. rest - m \in Int /\ - (8 * m) < rest - m /\ rest - m < 8 * m
    BY <1>1, <1>12, <1>13
  <2>2. below + m \in Int /\ - (8 * m) < below + m /\ below + m < 8 * m
    BY <1>1, <1>13, <1>14
  <2> HIDE DEF below
  <2> QED BY <1>15, <2>1, <2>2
<1> DEFINE d == ToDouble(ToDouble(h - b * m) + ToDouble(x - h))
           t == ToDouble(d - m)
           under == IF t < 0 THEN d ELSE t
<1>19. BatchMulModAvx2Uint50(u, v, m) = ToInt(IF under < 0 THEN ToDouble(under + m) ELSE under)
  BY Zenon DEF BatchMulModAvx2Uint50, h, x, b, G, J, D
<1>20. d = rest
  BY <1>16, <1>17
<1>21. under = below
  BY <1>18, <1>20
<1> HIDE DEF below, under
<1>22. (IF under < 0 THEN ToDouble(under + m) ELSE under) = (x % m)
  BY <1>14, <1>18, <1>21
<1>23. ToInt(x % m) = (x % m)
  <2>1. (x % m) \in 0 .. IntSize - 1
    BY <1>1, <1>14
  <2> QED BY <2>1, ToIntOf
<1> QED BY <1>2, <1>19, <1>22, <1>23
(***************************************************************************)
(* Inverses: Fermat's theorem                                              *)
(***************************************************************************)

\* No number but 1 and p divides p.
Prime(p) == \A k \in 2 .. p - 1 : p % k # 0

\* f[0] .. f[n] are the powers of x modulo p.
ArePowers(f, n, x, p) ==
    /\ f \in [0 .. n -> 0 .. p - 1]
    /\ f[0] = 1
    /\ \A k \in 1 .. n : f[k] = ((x * f[k - 1]) % p)

\* A residue is its own, and a multiple has 0.
LEMMA SmallResidue ==
    ASSUME NEW p \in Nat \ {0}, NEW a \in 0 .. p - 1
    PROVE  (a % p) = a
<1>1. a \in Int /\ a = p * 0 + a
  OBVIOUS
<1> QED BY <1>1, DivisionOf

LEMMA Multiple ==
    ASSUME NEW p \in Nat \ {0}, NEW w \in Int, NEW k \in Int, w = p * k
    PROVE  (w % p) = 0
<1>1. w = p * k + 0 /\ 0 \in 0 .. p - 1
  OBVIOUS
<1> QED BY <1>1, DivisionOf

\* A product of residues of a prime is a multiple of it only if one of them is
\* 0: the least factor that made it one would leave a smaller one.
LEMMA NoZeroDivisors ==
    ASSUME NEW p \in Nat \ {0, 1}, Prime(p), NEW a \in 1 .. p - 1, NEW y \in 1 .. p - 1
    PROVE  ((a * y) % p) # 0
<1> DEFINE T == {k \in 1 .. p - 1 : ((k * y) % p) = 0}
<1>1. SUFFICES ASSUME ((a * y) % p) = 0 PROVE FALSE
  OBVIOUS
<1>2. PICK k \in T : \A l \in T : k <= l
  <2>1. T \subseteq Nat /\ a \in T
    <3>1. T \subseteq Nat
      OBVIOUS
    <3>2. a \in T
      BY <1>1, Zenon
    <3> QED BY <3>1, <3>2
  <2> HIDE DEF T
  <2> QED BY <2>1, Least
<1>3. k \in 1 .. p - 1 /\ ((k * y) % p) = 0 /\ p \in Nat \ {0} /\ k \in Nat \ {0}
  BY <1>2
<1>4. k # 1
  <2> SUFFICES ASSUME k = 1 PROVE FALSE
    OBVIOUS
  <2>1. k * y = y /\ y \in Int /\ y \in 0 .. p - 1
    OBVIOUS
  <2>2. (y % p) = y
    BY <1>3, <2>1, SmallResidue
  <2> QED BY <1>3, <2>1, <2>2
<1> DEFINE q == p \div k
           r == (p % k)
<1>5. q \in Int /\ r \in 0 .. k - 1 /\ p = k * q + r
  <2>1. p \in Int
    OBVIOUS
  <2> QED BY <1>3, <2>1, Division
<1>6. r # 0
  <2>1. k \in 2 .. p - 1
    BY <1>3, <1>4
  <2> QED BY <2>1 DEF Prime
<1> HIDE DEF q, r
<1>7. ((r * y) % p) = 0
  <2>1. k * y = p * ((k * y) \div p) + ((k * y) % p) /\ (k * y) \div p \in Int
    <3> DEFINE z == k * y
    <3>1. z \in Int
      OBVIOUS
    <3> HIDE DEF z
    <3>2. z = p * (z \div p) + (z % p) /\ z \div p \in Int
      BY <1>3, <3>1, Division
    <3> QED BY <3>2 DEF z
  <2> DEFINE w == (k * y) \div p
  <2>2. w \in Int /\ k * y = p * w
    BY <1>3, <2>1
  <2> HIDE DEF w
  <2>3. r * y = p * (y - q * w)
    <3>1. r = p - k * q
      BY <1>3, <1>5
    <3>2. (p - k * q) * y = p * y - q * (k * y)
      BY <1>3, <1>5
    <3>3. q * (p * w) = p * (q * w) /\ p * (y - q * w) = p * y - p * (q * w)
      BY <1>3, <1>5, <2>2
    <3> QED BY <2>2, <3>1, <3>2, <3>3
  <2> DEFINE z == r * y
             v == y - q * w
  <2>4. z \in Int /\ v \in Int /\ z = p * v
    BY <1>5, <2>2, <2>3
  <2> HIDE DEF z, v
  <2>5. (z % p) = 0
    BY <1>3, <2>4, Multiple
  <2> QED BY <2>5 DEF z
<1>8. r \in T /\ r < k
  BY <1>3, <1>5, <1>6, <1>7
<1> QED BY <1>2, <1>3, <1>5, <1>8

\* A factor may be cancelled modulo a prime.
LEMMA CancelFactor ==
    ASSUME NEW p \in Nat \ {0, 1}, Prime(p), NEW a \in 1 .. p - 1,
           NEW b \in 0 .. p - 1, NEW c \in 0 .. p - 1, ((a * b) % p) = ((a * c) % p)
    PROVE  b = c
<1>1. ASSUME NEW s \in 0 .. p - 1, NEW t \in 0 .. p - 1, s < t, ((a * s) % p) = ((a * t) % p)
      PROVE  FALSE
  <2> DEFINE u == a * s
             v == a * t
             k == v \div p - u \div p
             y == t - s
             w == a * y
  <2>1. u \in Int /\ v \in Int /\ y \in 1 .. p - 1 /\ w = v - u /\ w \in Int
    BY <1>1
  <2>2. p \in Nat \ {0} /\ (u % p) = (v % p)
    BY <1>1
  <2> HIDE DEF u, v, w
  <2>3. u = p * (u \div p) + (u % p) /\ v = p * (v \div p) + (v % p) /\ u \div p \in Int /\ v \div p \in Int
        /\ (u % p) \in Int
    <3>1. u = p * (u \div p) + (u % p) /\ u \div p \in Int /\ (u % p) \in 0 .. p - 1
      BY <2>1, <2>2, Division
    <3>2. v = p * (v \div p) + (v % p) /\ v \div p \in Int
      BY <2>1, <2>2, Division
    <3> QED BY <2>2, <3>1, <3>2
  <2>4. p * k = p * (v \div p) - p * (u \div p)
    BY <2>2, <2>3
  <2>5. w = p * k /\ k \in Int
    <3>1. p * (v \div p) \in Int /\ p * (u \div p) \in Int
      BY <2>2, <2>3
    <3> QED BY <2>1, <2>2, <2>3, <2>4, <3>1
  <2> HIDE DEF k
  <2>6. (w % p) = 0
    BY <2>1, <2>2, <2>5, Multiple
  <2> QED BY <2>1, <2>6, NoZeroDivisors DEF w
<1> QED BY <1>1

\* The powers exist.
LEMMA PowersExist ==
    ASSUME NEW p \in Nat \ {0, 1}, NEW x \in 0 .. p - 1, NEW n \in Nat
    PROVE  \E f : ArePowers(f, n, x, p)
<1> DEFINE T == {k \in Nat : \E f : ArePowers(f, k, x, p)}
<1>1. 0 \in T
  <2> DEFINE f == [k \in 0 .. 0 |-> 1]
  <2>1. f \in [0 .. 0 -> 0 .. p - 1] /\ f[0] = 1 /\ \A k \in 1 .. 0 : FALSE
    OBVIOUS
  <2>2. ArePowers(f, 0, x, p)
    BY <2>1 DEF ArePowers
  <2> QED BY <2>2
<1>2. ASSUME NEW k \in Nat, k \in T
      PROVE  k + 1 \in T
  <2>1. PICK f : ArePowers(f, k, x, p)
    BY <1>2
  <2> DEFINE next == (x * f[k]) % p
             g == [l \in 0 .. k + 1 |-> IF l = k + 1 THEN next ELSE f[l]]
  <2>2. f \in [0 .. k -> 0 .. p - 1] /\ f[0] = 1 /\ \A l \in 1 .. k : f[l] = ((x * f[l - 1]) % p)
    BY <2>1 DEF ArePowers
  <2>3. next \in 0 .. p - 1
    <3> DEFINE z == x * f[k]
    <3>1. z \in Int /\ p \in Nat \ {0}
      <4>1. f[k] \in 0 .. p - 1
        BY <2>2
      <4> QED BY <4>1
    <3> HIDE DEF z
    <3>2. (z % p) \in 0 .. p - 1
      BY <3>1, Division
    <3> QED BY <3>2 DEF z
  <2>4. g[k + 1] = next /\ \A l \in 0 .. k : g[l] = f[l]
    OBVIOUS
  <2>5. g \in [0 .. k + 1 -> 0 .. p - 1]
    BY <2>2, <2>3
  <2> HIDE DEF g
  <2>6. ASSUME NEW l \in 1 .. k + 1
        PROVE  g[l] = ((x * g[l - 1]) % p)
    <3>1. CASE l = k + 1
      <4>1. g[l - 1] = f[k]
        BY <2>4, <3>1
      <4> QED BY <2>4, <3>1, <4>1
    <3>2. CASE l # k + 1
      <4>1. l \in 1 .. k /\ l - 1 \in 0 .. k /\ l \in 0 .. k
        BY <3>2
      <4> QED BY <2>2, <2>4, <4>1
    <3> QED BY <3>1, <3>2
  <2>7. g[0] = 1
    BY <2>2, <2>4
  <2>8. ArePowers(g, k + 1, x, p)
    BY <2>5, <2>6, <2>7 DEF ArePowers
  <2> QED BY <2>8
<1> HIDE DEF T
<1>3. \A k \in Nat : k \in T
  BY <1>1, <1>2, NatInd
<1> QED BY <1>3 DEF T

\* Exponents add up.
LEMMA PowersMultiply ==
    ASSUME NEW p \in Nat \ {0, 1}, NEW x \in 0 .. p - 1, NEW n \in Nat, NEW f,
           ArePowers(f, n, x, p), NEW a \in Nat, NEW b \in Nat, a + b <= n
    PROVE  f[a + b] = ((f[a] * f[b]) % p)
<1> DEFINE T == {k \in Nat : a + k <= n => f[a + k] = ((f[a] * f[k]) % p)}
<1>1. f \in [0 .. n -> 0 .. p - 1] /\ f[0] = 1 /\ \A k \in 1 .. n : f[k] = ((x * f[k - 1]) % p)
  BY DEF ArePowers
<1>2. p \in Nat \ {0} /\ a \in 0 .. n
  OBVIOUS
<1>3. f[a] \in 0 .. p - 1
  BY <1>1, <1>2
<1>4. 0 \in T
  <2>1. a + 0 = a /\ f[a] * f[0] = f[a]
    BY <1>1, <1>3
  <2>2. (f[a] % p) = f[a]
    BY <1>2, <1>3, SmallResidue
  <2> QED BY <2>1, <2>2
<1>5. ASSUME NEW k \in Nat, k \in T
      PROVE  k + 1 \in T
  <2> SUFFICES ASSUME a + (k + 1) <= n
               PROVE  f[a + (k + 1)] = ((f[a] * f[k + 1]) % p)
    OBVIOUS
  <2>1. /\ a + (k + 1) \in 1 .. n /\ (a + (k + 1)) - 1 = a + k /\ k + 1 \in 1 .. n
        /\ (k + 1) - 1 = k /\ k \in 0 .. n /\ a + k <= n
    OBVIOUS
  <2> DEFINE s == f[a]
             t == f[k]
  <2>2. f[a + k] = ((s * t) % p)
    BY <1>5, <2>1
  <2>3. f[a + (k + 1)] = ((x * ((s * t) % p)) % p)
    BY <1>1, <2>1, <2>2
  <2>4. f[k + 1] = ((x * t) % p)
    BY <1>1, <2>1
  <2>5. s \in Int /\ t \in Int /\ x \in Int
    BY <1>1, <1>3, <2>1
  <2> HIDE DEF s, t
  <2>6. ((x * ((s * t) % p)) % p) = ((s * ((x * t) % p)) % p)
    <3>1. s * t \in Int /\ x * t \in Int /\ (s * t) * x = (x * t) * s
      BY <2>5
    <3>2. ((x * ((s * t) % p)) % p) = (((s * t) * x) % p)
      BY <1>2, <2>5, <3>1, Residues2, Zenon
    <3>3. ((s * ((x * t) % p)) % p) = (((x * t) * s) % p)
      BY <1>2, <2>5, <3>1, Residues2, Zenon
    <3> QED BY <3>1, <3>2, <3>3
  <2> QED BY <2>3, <2>4, <2>6 DEF s
<1> HIDE DEF T
<1>6. \A k \in Nat : k \in T
  BY <1>4, <1>5, NatInd
<1> QED BY <1>6 DEF T

\* No power of a residue other than 0 is 0, and one of them is 1.
LEMMA OrderExists ==
    ASSUME NEW p \in Nat \ {0, 1}, Prime(p), NEW x \in 1 .. p - 1, NEW n \in Nat, NEW f,
           ArePowers(f, n, x, p), p - 1 <= n
    PROVE  /\ \A k \in 0 .. n : f[k] \in 1 .. p - 1
           /\ \E d \in 1 .. p - 1 : f[d] = 1 /\ \A k \in 1 .. d - 1 : f[k] # 1
<1>1. f \in [0 .. n -> 0 .. p - 1] /\ f[0] = 1 /\ \A k \in 1 .. n : f[k] = ((x * f[k - 1]) % p)
  BY DEF ArePowers
<1>2. \A k \in 0 .. n : f[k] \in 1 .. p - 1
  <2> DEFINE T == {k \in Nat : k <= n => f[k] \in 1 .. p - 1}
  <2>1. 0 \in T
    BY <1>1
  <2>2. ASSUME NEW k \in Nat, k \in T PROVE k + 1 \in T
    <3> SUFFICES ASSUME k + 1 <= n PROVE f[k + 1] \in 1 .. p - 1
      OBVIOUS
    <3>1. f[k] \in 1 .. p - 1 /\ k + 1 \in 1 .. n /\ (k + 1) - 1 = k /\ k + 1 \in 0 .. n
      BY <2>2
    <3>2. ((x * f[k]) % p) # 0
      BY <3>1, NoZeroDivisors
    <3>3. f[k + 1] = ((x * f[k]) % p) /\ f[k + 1] \in 0 .. p - 1
      BY <1>1, <3>1
    <3> QED BY <3>2, <3>3
  <2> HIDE DEF T
  <2>3. \A k \in Nat : k \in T
    BY <2>1, <2>2, NatInd
  <2>4. \A k \in 0 .. n : k \in Nat /\ k <= n
    OBVIOUS
  <2> QED BY <2>3, <2>4 DEF T
<1>3. \E d \in 1 .. p - 1 : f[d] = 1
  <2> DEFINE S == 0 .. p - 1
             R == 1 .. p - 1
             g == [k \in S |-> f[k]]
  <2>1. IsFiniteSet(S) /\ Cardinality(S) = p
    <3>1. IsFiniteSet(S) /\ Cardinality(S) = IF 0 > p - 1 THEN 0 ELSE p - 1 - 0 + 1
      <4>1. 0 \in Int /\ p - 1 \in Int
        OBVIOUS
      <4> QED BY <4>1, FS_Interval
    <3> HIDE DEF S
    <3> QED BY <3>1
  <2>2. IsFiniteSet(R) /\ Cardinality(R) = p - 1
    <3>1. IsFiniteSet(R) /\ Cardinality(R) = IF 1 > p - 1 THEN 0 ELSE p - 1 - 1 + 1
      <4>1. 1 \in Int /\ p - 1 \in Int
        OBVIOUS
      <4> QED BY <4>1, FS_Interval
    <3> HIDE DEF R
    <3> QED BY <3>1
  <2>3. g \in [S -> R] /\ \A k \in S : g[k] = f[k]
    BY <1>2
  <2>4. \E i, j \in S : i # j /\ g[i] = g[j]
    <3>1. Cardinality(R) < Cardinality(S)
      BY <2>1, <2>2
    <3> HIDE DEF S, R, g
    <3> QED BY <2>1, <2>2, <2>3, <3>1, FS_PigeonHole
  <2>5. PICK i \in S, j \in S : i # j /\ g[i] = g[j]
    BY <2>4
  <2> HIDE DEF g
  <2>6. ASSUME NEW k \in S, NEW l \in S, k < l, f[k] = f[l]
        PROVE  \E d \in 1 .. p - 1 : f[d] = 1
    <3> DEFINE d == l - k
    <3>1. /\ d \in 1 .. p - 1 /\ k \in Nat /\ d \in Nat /\ k + d <= n /\ k + d = l
          /\ k \in 0 .. n /\ d \in 0 .. n /\ x \in 0 .. p - 1
      BY <2>6
    <3> HIDE DEF d
    <3>2. f[k + d] = ((f[k] * f[d]) % p)
      BY <3>1, PowersMultiply
    <3> DEFINE a == f[k]
               b == f[d]
    <3>3. a \in 1 .. p - 1 /\ b \in 0 .. p - 1 /\ 1 \in 0 .. p - 1
      <4>1. a \in 1 .. p - 1 /\ f[d] \in 1 .. p - 1
        BY <1>2, <3>1
      <4> QED BY <4>1
    <3>4. a = ((a * b) % p)
      BY <2>6, <3>1, <3>2
    <3> HIDE DEF a, b
    <3>5. ((a * 1) % p) = a
      <4>1. a * 1 = a /\ p \in Nat \ {0} /\ a \in 0 .. p - 1
        BY <3>3
      <4>2. (a % p) = a
        BY <4>1, SmallResidue
      <4> QED BY <4>1, <4>2
    <3>6. b = 1
      <4>1. ((a * b) % p) = ((a * 1) % p)
        BY <3>4, <3>5
      <4> QED BY <3>3, <4>1, CancelFactor, Zenon
    <3> QED BY <3>1, <3>6 DEF b
  <2>7. f[i] = f[j]
    BY <2>3, <2>5
  <2>8. CASE i < j
    BY <2>6, <2>7, <2>8
  <2>9. CASE j < i
    BY <2>6, <2>7, <2>9
  <2> QED BY <2>5, <2>8, <2>9
<1>4. \E d \in 1 .. p - 1 : f[d] = 1 /\ \A k \in 1 .. d - 1 : f[k] # 1
  <2> DEFINE D == {d \in 1 .. p - 1 : f[d] = 1}
  <2>1. D \subseteq Nat /\ D # {}
    BY <1>3
  <2>2. PICK d \in D : \A k \in D : d <= k
    <3> HIDE DEF D
    <3> QED BY <2>1, Least
  <2>3. ASSUME NEW k \in 1 .. d - 1 PROVE f[k] # 1
    <3>1. k \in 1 .. p - 1 /\ k < d
      OBVIOUS
    <3> QED BY <2>2, <3>1
  <2> QED BY <2>2, <2>3
<1> QED BY <1>2, <1>4

\* The first d powers times a.
Orbit(a, f, d, p) == {((a * f[k - 1]) % p) : k \in 1 .. d}

\* The multiples of a by the powers of x: d of them, if d is the least exponent
\* that gives 1.
LEMMA OrbitSize ==
    ASSUME NEW p \in Nat \ {0, 1}, Prime(p), NEW x \in 1 .. p - 1, NEW n \in Nat, NEW f,
           ArePowers(f, n, x, p), NEW d \in 1 .. n, f[d] = 1, \A k \in 1 .. d - 1 : f[k] # 1,
           \A k \in 0 .. n : f[k] \in 1 .. p - 1, NEW a \in 1 .. p - 1
    PROVE  Cardinality(Orbit(a, f, d, p)) = d
<1> DEFINE O == Orbit(a, f, d, p)
           h == [k \in 1 .. d |-> ((a * f[k - 1]) % p)]
<1>1. ASSUME NEW i \in 0 .. d - 1, NEW j \in 0 .. d - 1, i < j,
             ((a * f[i]) % p) = ((a * f[j]) % p)
      PROVE  FALSE
  <2> DEFINE s == f[i]
             t == f[j]
             k == j - i
             r == f[k]
  <2>1. s \in 1 .. p - 1 /\ t \in 1 .. p - 1 /\ s \in 0 .. p - 1 /\ t \in 0 .. p - 1
    <3>1. i \in 0 .. n /\ j \in 0 .. n
      OBVIOUS
    <3> QED BY <3>1
  <2>2. s = t
    <3> HIDE DEF s, t
    <3>1. ((a * s) % p) = ((a * t) % p)
      BY <1>1 DEF s, t
    <3> QED BY <2>1, <3>1, CancelFactor
  <2>3. /\ k \in 1 .. d - 1 /\ k \in 0 .. n /\ i \in Nat /\ k \in Nat /\ i + k = j /\ i + k <= n
        /\ x \in 0 .. p - 1
    BY <1>1
  <2> HIDE DEF k
  <2>4. t = ((s * r) % p)
    <3>1. f[i + k] = ((f[i] * f[k]) % p)
      BY <2>3, PowersMultiply
    <3> QED BY <2>3, <3>1
  <2>5. r \in 0 .. p - 1 /\ 1 \in 0 .. p - 1 /\ r # 1
    BY <2>3
  <2> HIDE DEF s, t, r
  <2>6. ((s * 1) % p) = s
    <3>1. s * 1 = s /\ p \in Nat \ {0}
      BY <2>1
    <3>2. (s % p) = s
      BY <2>1, <3>1, SmallResidue
    <3> QED BY <3>1, <3>2
  <2>7. ((s * r) % p) = ((s * 1) % p)
    BY <2>2, <2>4, <2>6
  <2>8. r = 1
    BY <2>1, <2>5, <2>7, CancelFactor, Zenon
  <2> QED BY <2>5, <2>8
<1>2. ASSUME NEW k \in 1 .. d, NEW l \in 1 .. d, h[k] = h[l] PROVE k = l
  <2>1. k - 1 \in 0 .. d - 1 /\ l - 1 \in 0 .. d - 1 /\ k \in Int /\ l \in Int
    OBVIOUS
  <2>2. ((a * f[k - 1]) % p) = ((a * f[l - 1]) % p)
    BY <1>2
  <2>3. ~ (k - 1 < l - 1) /\ ~ (l - 1 < k - 1)
    BY <1>1, <2>1, <2>2
  <2> QED BY <2>1, <2>3
<1>3. h \in [1 .. d -> O] /\ \A o \in O : \E k \in 1 .. d : h[k] = o
  BY Zenon DEF Orbit
<1> HIDE DEF h, O
<1>4. h \in Bijection(1 .. d, O)
  BY <1>2, <1>3, Zenon DEF Bijection, Injection, IsInjective, Surjection
<1>5. ExistsBijection(1 .. d, O) /\ d \in Nat
  BY <1>4 DEF ExistsBijection
<1>6. Cardinality(O) = d
  BY <1>5, FS_CountingElements
<1> QED BY <1>6 DEF O

\* A set of residues that x maps into itself has a multiple of d elements: it
\* holds whole orbits, one of which can be taken away.
LEMMA ClosedSets ==
    ASSUME NEW p \in Nat \ {0, 1}, Prime(p), NEW x \in 1 .. p - 1, NEW n \in Nat, NEW f,
           ArePowers(f, n, x, p), NEW d \in 1 .. n, f[d] = 1, \A k \in 1 .. d - 1 : f[k] # 1,
           \A k \in 0 .. n : f[k] \in 1 .. p - 1
    PROVE  \A S \in SUBSET (1 .. p - 1) :
               (\A s \in S : ((x * s) % p) \in S) => \E q \in Nat : Cardinality(S) = d * q
<1> DEFINE R == 1 .. p - 1
           Closed(S) == \A s \in S : ((x * s) % p) \in S
           T == {k \in Nat : \A S \in SUBSET R :
                                 Closed(S) /\ Cardinality(S) <= k => \E q \in Nat : Cardinality(S) = d * q}
<1>1. f \in [0 .. n -> 0 .. p - 1] /\ f[0] = 1 /\ \A k \in 1 .. n : f[k] = ((x * f[k - 1]) % p)
  BY DEF ArePowers
<1>0. ASSUME NEW a \in 1 .. p - 1 PROVE Cardinality(Orbit(a, f, d, p)) = d
  <2> HIDE DEF R, T
  <2> QED BY OrbitSize
<1>2. \A S \in SUBSET R : IsFiniteSet(S) /\ Cardinality(S) \in Nat
  <2>1. 1 \in Int /\ p - 1 \in Int
    OBVIOUS
  <2>2. IsFiniteSet(R)
    BY <2>1, FS_Interval
  <2> HIDE DEF R
  <2> QED BY <2>2, FS_Subset, FS_CardinalityType
<1>3. Cardinality({}) = 0 /\ \A S \in SUBSET R : Cardinality(S) = 0 => S = {}
  <2> HIDE DEF R
  <2> QED BY <1>2, FS_EmptySet
<1>4. Cardinality({}) = d * 0
  <2>1. d * 0 = 0
    OBVIOUS
  <2> QED BY <1>3, <2>1
<1>5. 0 \in T
  <2>1. ASSUME NEW S \in SUBSET R, Cardinality(S) <= 0 PROVE S = {}
    <3>1. Cardinality(S) \in Nat
      BY <1>2
    <3> HIDE DEF R
    <3> QED BY <1>3, <2>1, <3>1
  <2> QED BY <1>4, <2>1
<1>6. ASSUME NEW k \in Nat, k \in T
      PROVE  k + 1 \in T
  <2> SUFFICES ASSUME NEW S \in SUBSET R, Closed(S), Cardinality(S) <= k + 1
               PROVE  \E q \in Nat : Cardinality(S) = d * q
    OBVIOUS
  <2>1. CASE S = {}
    BY <1>4, <2>1
  <2>2. CASE S # {}
    <3>1. PICK a \in S : TRUE
      BY <2>2
    <3>2. a \in 1 .. p - 1
      OBVIOUS
    <3> DEFINE O == Orbit(a, f, d, p)
               W == S \ O
    <3>3. Cardinality(O) = d
      BY <1>0, <3>2
    <3>4. O \subseteq S
      <4> DEFINE V == {j \in Nat : j <= n => ((a * f[j]) % p) \in S}
      <4>1. 0 \in V
        <5>1. a * f[0] = a /\ p \in Nat \ {0} /\ a \in 0 .. p - 1
          BY <1>1, <3>2
        <5>2. (a % p) = a
          BY <5>1, SmallResidue
        <5> QED BY <3>1, <5>1, <5>2
      <4>2. ASSUME NEW j \in Nat, j \in V PROVE j + 1 \in V
        <5> SUFFICES ASSUME j + 1 <= n PROVE ((a * f[j + 1]) % p) \in S
          OBVIOUS
        <5> DEFINE t == f[j]
        <5>1. j + 1 \in 1 .. n /\ (j + 1) - 1 = j /\ j \in 0 .. n /\ j <= n
          OBVIOUS
        <5>2. ((a * t) % p) \in S
          BY <4>2, <5>1
        <5>3. f[j + 1] = ((x * t) % p)
          BY <1>1, <5>1
        <5>4. t \in Int /\ a \in Int /\ x \in Int /\ p \in Nat \ {0}
          BY <1>1, <3>2, <5>1
        <5> HIDE DEF t
        <5>5. ((a * ((x * t) % p)) % p) = ((x * ((a * t) % p)) % p)
          <6>1. a * t \in Int /\ x * t \in Int /\ (a * t) * x = (x * t) * a
            BY <5>4
          <6>2. ((x * ((a * t) % p)) % p) = (((a * t) * x) % p)
            BY <5>4, <6>1, Residues2, Zenon
          <6>3. ((a * ((x * t) % p)) % p) = (((x * t) * a) % p)
            BY <5>4, <6>1, Residues2, Zenon
          <6> QED BY <6>1, <6>2, <6>3
        <5> QED BY <5>2, <5>3, <5>5
      <4> HIDE DEF V
      <4>3. \A j \in Nat : j \in V
        BY <4>1, <4>2, NatInd
      <4>4. ASSUME NEW j \in 1 .. d PROVE ((a * f[j - 1]) % p) \in S
        <5>1. j - 1 \in Nat /\ j - 1 <= n
          OBVIOUS
        <5> QED BY <4>3, <5>1 DEF V
      <4> QED BY <4>4 DEF Orbit
    <3>5. Closed(W)
      <4> SUFFICES ASSUME NEW s \in W, ((x * s) % p) \in O PROVE FALSE
        OBVIOUS
      <4>1. s \in S /\ s \notin O /\ s \in 0 .. p - 1
        OBVIOUS
      <4>2. PICK i \in 1 .. d : ((x * s) % p) = ((a * f[i - 1]) % p)
        BY DEF Orbit
      <4>3. PICK j \in 1 .. d : ((x * s) % p) = ((a * f[j]) % p)
        <5>1. CASE i = 1
          <6>1. f[i - 1] = f[d] /\ d \in 1 .. d
            BY <1>1, <5>1
          <6> QED BY <4>2, <6>1
        <5>2. CASE i # 1
          <6>1. i - 1 \in 1 .. d
            BY <5>2
          <6> QED BY <4>2, <6>1
        <5> QED BY <5>1, <5>2
      <4> DEFINE t == f[j - 1]
                 u == ((a * t) % p)
      <4>4. f[j] = ((x * t) % p) /\ t \in Int
        <5>1. j \in 1 .. n /\ j - 1 \in 0 .. n
          OBVIOUS
        <5>2. f[j] = ((x * f[j - 1]) % p)
          BY <1>1, <5>1
        <5>3. f[j - 1] \in Int
          BY <1>1, <5>1
        <5> QED BY <5>2, <5>3
      <4>5. u \in O
        BY DEF Orbit
      <4>6. u \in 0 .. p - 1
        BY <3>4, <4>5
      <4> HIDE DEF O, W, t
      <4>7. t \in Int /\ a \in Int /\ x \in Int /\ p \in Nat \ {0}
        BY <3>2, <4>4
      <4>8. ((a * ((x * t) % p)) % p) = ((x * u) % p)
        <5>1. a * t \in Int /\ x * t \in Int /\ (a * t) * x = (x * t) * a
          BY <4>7
        <5>2. ((x * ((a * t) % p)) % p) = (((a * t) * x) % p)
          BY <4>7, <5>1, Residues2, Zenon
        <5>3. ((a * ((x * t) % p)) % p) = (((x * t) * a) % p)
          BY <4>7, <5>1, Residues2, Zenon
        <5> QED BY <5>1, <5>2, <5>3
      <4>9. ((x * s) % p) = ((x * u) % p)
        BY <4>3, <4>4, <4>8
      <4> HIDE DEF u
      <4>10. s = u
        BY <4>1, <4>6, <4>9, CancelFactor
      <4> QED BY <4>1, <4>5, <4>10
    <3> HIDE DEF O, W
    <3>6. W \in SUBSET R /\ Cardinality(W) = Cardinality(S) - d /\ Cardinality(W) \in Nat
      <4>1. W \in SUBSET R /\ S \cap O = O
        BY <3>4 DEF W
      <4> HIDE DEF R
      <4>2. Cardinality(W) = Cardinality(S) - Cardinality(S \cap O)
        BY <1>2, FS_Difference DEF W
      <4> QED BY <1>2, <3>3, <4>1, <4>2
    <3>7. Cardinality(W) <= k
      <4>1. Cardinality(S) \in Nat
        BY <1>2
      <4> QED BY <3>6, <4>1
    <3>8. PICK q \in Nat : Cardinality(W) = d * q
      BY <1>6, <3>5, <3>6, <3>7
    <3>9. Cardinality(S) = d * (q + 1) /\ q + 1 \in Nat
      <4>1. Cardinality(S) \in Nat
        BY <1>2
      <4>2. d * (q + 1) = d * q + d /\ d * q \in Nat
        OBVIOUS
      <4> DEFINE size == Cardinality(S)
                 product == d * q
      <4>3. product = size - d /\ size \in Nat /\ product \in Nat /\ d \in Int
        BY <3>6, <3>8, <4>1, <4>2
      <4> HIDE DEF size, product
      <4>4. size = product + d
        BY <4>3
      <4> QED BY <4>2, <4>4 DEF size, product
    <3> QED BY <3>9
  <2> QED BY <2>1, <2>2
<1> HIDE DEF T
<1>7. \A k \in Nat : k \in T
  BY <1>5, <1>6, NatInd
<1>8. ASSUME NEW S \in SUBSET R, Closed(S)
      PROVE  \E q \in Nat : Cardinality(S) = d * q
  <2>1. Cardinality(S) \in Nat /\ Cardinality(S) <= Cardinality(S)
    <3>1. Cardinality(S) \in Nat
      BY <1>2
    <3> QED BY <3>1
  <2>2. Cardinality(S) \in T
    BY <1>7, <2>1
  <2> QED BY <1>8, <2>1, <2>2 DEF T
<1> QED BY <1>8

\* Fermat: x^(p - 1) is 1 modulo a prime.
LEMMA Fermat ==
    ASSUME NEW p \in Nat \ {0, 1}, Prime(p), NEW x \in 1 .. p - 1, NEW n \in Nat, NEW f,
           ArePowers(f, n, x, p), p - 1 <= n
    PROVE  f[p - 1] = 1
<1>1. \A k \in 0 .. n : f[k] \in 1 .. p - 1
  BY OrderExists
<1>2. PICK d \in 1 .. p - 1 : f[d] = 1 /\ \A k \in 1 .. d - 1 : f[k] # 1
  BY OrderExists
<1> DEFINE R == 1 .. p - 1
<1>3. Cardinality(R) = p - 1
  <2>1. 1 \in Int /\ p - 1 \in Int
    OBVIOUS
  <2>2. Cardinality(R) = IF 1 > p - 1 THEN 0 ELSE p - 1 - 1 + 1
    BY <2>1, FS_Interval
  <2> HIDE DEF R
  <2> QED BY <2>2
<1>4. ASSUME NEW s \in R PROVE ((x * s) % p) \in R
  <2> DEFINE z == x * s
  <2>1. (z % p) # 0
    BY NoZeroDivisors
  <2>2. z \in Int /\ p \in Nat \ {0}
    OBVIOUS
  <2> HIDE DEF z
  <2>3. (z % p) \in 0 .. p - 1
    BY <2>2, Division
  <2>4. (z % p) \in R
    BY <2>1, <2>3
  <2> QED BY <2>4 DEF z
<1>5. PICK q \in Nat : p - 1 = d * q
  <2>1. d \in 1 .. n /\ R \in SUBSET (1 .. p - 1)
    OBVIOUS
  <2>2. \E q \in Nat : Cardinality(R) = d * q
    <3>1. \A S \in SUBSET (1 .. p - 1) :
              (\A s \in S : ((x * s) % p) \in S) => \E q \in Nat : Cardinality(S) = d * q
      BY <1>1, <1>2, <2>1, ClosedSets
    <3> QED BY <1>4, <2>1, <3>1
  <2> QED BY <1>3, <2>2
<1> DEFINE T == {k \in Nat : d * k <= n => f[d * k] = 1}
<1>6. 0 \in T
  <2>1. d * 0 = 0 /\ f[0] = 1
    BY DEF ArePowers
  <2> QED BY <2>1
<1>7. ASSUME NEW k \in Nat, k \in T
      PROVE  k + 1 \in T
  <2> SUFFICES ASSUME d * (k + 1) <= n PROVE f[d * (k + 1)] = 1
    OBVIOUS
  <2> DEFINE a == d * k
  <2>1. a \in Nat /\ d * (k + 1) = a + d /\ a + d <= n /\ d \in Nat /\ a <= n /\ x \in 0 .. p - 1
    OBVIOUS
  <2>2. f[a] = 1
    BY <1>7, <2>1
  <2> HIDE DEF a
  <2>3. f[a + d] = ((f[a] * f[d]) % p)
    BY <2>1, PowersMultiply
  <2>4. f[a] * f[d] = 1 /\ 1 \in 0 .. p - 1 /\ p \in Nat \ {0}
    BY <1>2, <2>2
  <2>5. (1 % p) = 1
    BY <2>4, SmallResidue, Zenon
  <2> QED BY <2>1, <2>3, <2>4, <2>5
<1> HIDE DEF T
<1>8. \A k \in Nat : k \in T
  BY <1>6, <1>7, NatInd
<1>9. q \in T /\ d * q <= n
  BY <1>5, <1>8
<1> QED BY <1>5, <1>9 DEF T

\* Square and multiply raises to the exponent: after k bits the base is the
\* power 2^k, and the result that of the lower k bits of the exponent.
LEMMA ModExpOf ==
    ASSUME NEW m \in Moduli, m > 1, NEW x \in 0 .. m - 1, NEW exponent \in 0 .. IntSize - 1,
           NEW f, ArePowers(f, IntSize, x, m)
    PROVE  ModExp(x, exponent, m) = f[exponent]
<1> DEFINE Step(before, k) ==
               [result |-> IF (exponent \div 2 ^ (k - 1)) % 2 = 1
                           THEN Mul(before.result, before.base, m)
                           ELSE before.result,
                base |-> Mul(before.base, before.base, m)]
           Body(g, n) == [k \in 0 .. n |-> IF k = 0 THEN [result |-> 1, base |-> x]
                                           ELSE Step(g[k - 1], k)]
<1>1. m \in Nat \ {0, 1} /\ m \in Nat \ {0} /\ IntBits \in Nat /\ IntSize \in Nat /\ x \in Int
  BY ModulusOf, Widths, IntBitsAssumption
<1>2. f \in [0 .. IntSize -> 0 .. m - 1] /\ f[0] = 1 /\ \A k \in 1 .. IntSize : f[k] = ((x * f[k - 1]) % m)
  BY DEF ArePowers
<1>3. \E g : g = Body(g, IntBits)
  <2> DEFINE T == {n \in Nat : \E g : g = Body(g, n)}
  <2> HIDE DEF Step
  <2>1. 0 \in T
    <3> DEFINE g == [k \in 0 .. 0 |-> [result |-> 1, base |-> x]]
    <3>1. g = Body(g, 0)
      <4>1. \A k \in 0 .. 0 : k = 0
        OBVIOUS
      <4> QED BY <4>1
    <3> QED BY <3>1
  <2>2. ASSUME NEW n \in Nat, n \in T PROVE n + 1 \in T
    <3>1. PICK g : g = Body(g, n)
      BY <2>2
    <3> DEFINE h == [k \in 0 .. n + 1 |-> IF k = n + 1 THEN Step(g[n], n + 1) ELSE g[k]]
    <3>2. /\ \A k \in 0 .. n + 1 : h[k] = IF k = n + 1 THEN Step(g[n], n + 1) ELSE g[k]
          /\ DOMAIN h = 0 .. n + 1
      OBVIOUS
    <3>3. \A k \in 0 .. n : g[k] = IF k = 0 THEN [result |-> 1, base |-> x] ELSE Step(g[k - 1], k)
      BY <3>1
    <3>4. ASSUME NEW k \in 0 .. n + 1
          PROVE  h[k] = IF k = 0 THEN [result |-> 1, base |-> x] ELSE Step(h[k - 1], k)
      <4>1. CASE k = n + 1
        <5>1. h[k] = Step(g[n], n + 1) /\ k - 1 = n /\ k # 0 /\ h[k - 1] = g[n]
          BY <3>2, <4>1
        <5> QED BY <4>1, <5>1
      <4>2. CASE k # n + 1
        <5>1. k \in 0 .. n /\ h[k] = g[k]
          BY <3>2, <4>2
        <5>2. k # 0 => h[k - 1] = g[k - 1]
          BY <3>2, <5>1
        <5> QED BY <3>3, <5>1, <5>2
      <4> QED BY <4>1, <4>2
    <3>5. h = Body(h, n + 1)
      <4>1. h = [k \in 0 .. n + 1 |-> h[k]]
        OBVIOUS
      <4> HIDE DEF h
      <4>2. [k \in 0 .. n + 1 |-> h[k]] = Body(h, n + 1)
        BY <3>4, Zenon
      <4> HIDE DEF Body
      <4> QED BY <4>1, <4>2
    <3>6. n + 1 \in Nat
      OBVIOUS
    <3> HIDE DEF h, Body
    <3> QED BY <3>5, <3>6
  <2> HIDE DEF T
  <2>3. \A n \in Nat : n \in T
    BY <2>1, <2>2, NatInd
  <2> QED BY <1>1, <2>3 DEF T
<1> DEFINE after == CHOOSE g : g = Body(g, IntBits)
<1>4. after = Body(after, IntBits)
  <2> HIDE DEF Body
  <2> QED BY <1>3
<1>5. ModExp(x, exponent, m) = after[IntBits].result
  BY Zenon DEF ModExp
<1> HIDE DEF after
<1>6. /\ after[0] = [result |-> 1, base |-> x]
      /\ \A k \in 1 .. IntBits : after[k] = Step(after[k - 1], k)
  <2>1. ASSUME NEW k \in 0 .. IntBits
        PROVE  after[k] = IF k = 0 THEN [result |-> 1, base |-> x] ELSE Step(after[k - 1], k)
    <3> HIDE DEF Step
    <3> QED BY <1>4, Zenon
  <2>2. 0 \in 0 .. IntBits /\ \A k \in 1 .. IntBits : k \in 0 .. IntBits /\ k # 0
    BY <1>1
  <2> HIDE DEF Step
  <2> QED BY <2>1, <2>2, Zenon
<1>7. ASSUME NEW a \in Nat, NEW b \in Nat, a + b <= IntSize
      PROVE  Mul(f[a], f[b], m) = f[a + b]
  <2>1. f[a] \in 0 .. m - 1 /\ f[b] \in 0 .. m - 1
    <3>1. a \in 0 .. IntSize /\ b \in 0 .. IntSize
      BY <1>1, <1>7
    <3> QED BY <1>2, <3>1
  <2>2. Mul(f[a], f[b], m) = ((f[a] * f[b]) % m)
    BY <2>1, MulExact
  <2>3. f[a + b] = ((f[a] * f[b]) % m)
    BY <1>1, <1>7, PowersMultiply
  <2> QED BY <2>2, <2>3
<1> DEFINE Good(k) == /\ after[k].base = f[2 ^ k]
                      /\ after[k].result = f[exponent % 2 ^ k]
           T == {k \in Nat : k <= IntBits => Good(k)}
<1>8. 0 \in T
  <2>1. 2 ^ 0 = 1
    BY PowersAssumption
  <2>2. 0 \in 0 .. 3 * IntBits
    BY <1>1
  <2>3. (exponent % 1) = 0
    <3>1. exponent \in Int /\ 1 \in Nat \ {0} /\ exponent = 1 * exponent
      OBVIOUS
    <3> QED BY <3>1, Multiple, Zenon
  <2>4. f[1] = x
    <3>1. 1 \in 1 .. IntSize
      BY <1>1, Widths
    <3>2. f[1] = ((x * f[0]) % m) /\ x * f[0] = x
      BY <1>1, <1>2, <3>1
    <3>3. (x % m) = x
      BY <1>1, SmallResidue
    <3> QED BY <3>2, <3>3
  <2>5. after[0].base = x /\ after[0].result = 1
    BY <1>6
  <2>6. after[0].base = f[2 ^ 0]
    BY <2>1, <2>4, <2>5, Zenon
  <2>7. after[0].result = f[exponent % 2 ^ 0]
    <3>1. (exponent % 2 ^ 0) = 0
      BY <2>1, <2>3, Zenon
    <3> QED BY <1>2, <2>5, <3>1, Zenon
  <2> QED BY <2>6, <2>7, Zenon
<1>9. ASSUME NEW k \in Nat, k \in T
      PROVE  k + 1 \in T
  <2> SUFFICES ASSUME k + 1 <= IntBits PROVE Good(k + 1)
    OBVIOUS
  <2> DEFINE P == 2 ^ k
             low == (exponent % P)
             rest == exponent \div P
             bit == (rest % 2)
             half == rest \div 2
  <2>1. /\ k \in 0 .. 3 * IntBits /\ k + 1 \in 1 .. 3 * IntBits /\ (k + 1) - 1 = k
        /\ k + 1 \in 1 .. IntBits /\ k <= IntBits /\ k + 1 \in 0 .. 3 * IntBits
    BY <1>1
  <2>2. P \in Nat \ {0} /\ 2 ^ (k + 1) = 2 * P /\ 2 ^ (k + 1) \in Nat \ {0}
    BY <2>1, PowersPositive, PowersAssumption
  <2>3. 2 * P <= IntSize
    <3>1. k + 1 \in Nat /\ IntBits \in Nat /\ k + 1 <= IntBits /\ IntBits <= 3 * IntBits
      BY <1>1
    <3>2. 2 ^ (k + 1) <= 2 ^ IntBits
      BY <3>1, PowersGrow
    <3> QED BY <2>2, <3>2 DEF IntSize
  <2>4. after[k].base = f[P] /\ after[k].result = f[low]
    BY <1>9, <2>1
  <2>5. after[k + 1] = Step(after[k], k + 1)
    BY <1>6, <2>1
  <2>6. /\ after[k + 1].base = Mul(f[P], f[P], m)
        /\ after[k + 1].result = IF bit = 1 THEN Mul(f[low], f[P], m) ELSE f[low]
    <3> DEFINE before == after[k]
               next == Step(before, k + 1)
    <3>1. /\ next.base = Mul(before.base, before.base, m)
          /\ next.result = IF (exponent \div 2 ^ ((k + 1) - 1)) % 2 = 1
                           THEN Mul(before.result, before.base, m) ELSE before.result
      BY Zenon
    <3> HIDE DEF before
    <3>2. ((exponent \div 2 ^ ((k + 1) - 1)) % 2) = bit
      BY <2>1, Zenon
    <3> HIDE DEF next, bit, low, P
    <3> QED BY <2>4, <2>5, <3>1, <3>2, Zenon DEF before, next
  <2> HIDE DEF P, Step
  <2>7. low \in 0 .. P - 1 /\ rest \in Nat /\ exponent = P * rest + low
    <3>1. exponent \in Int /\ exponent >= 0
      BY <1>1
    <3> QED BY <2>2, <3>1, Division
  <2> HIDE DEF low, rest
  <2>8. bit \in 0 .. 1 /\ half \in Nat /\ rest = 2 * half + bit
    <3>1. rest \in Int /\ rest >= 0 /\ 2 \in Nat \ {0}
      BY <2>7
    <3>2. rest = 2 * (rest \div 2) + (rest % 2) /\ (rest % 2) \in 0 .. 2 - 1 /\ rest \div 2 \in Nat
      BY <3>1, Division, Zenon
    <3> QED BY <3>2
  <2> HIDE DEF bit, half
  <2>9. (exponent % (2 * P)) = P * bit + low
    <3> DEFINE r == P * bit + low
               D == 2 * P
    <3>1. r \in 0 .. D - 1
      <4>1. CASE bit = 0
        <5>1. P * bit = 0
          BY <2>2, <4>1
        <5> QED BY <2>2, <2>7, <5>1
      <4>2. CASE bit = 1
        <5>1. P * bit = P
          BY <2>2, <4>2
        <5> QED BY <2>2, <2>7, <5>1
      <4> QED BY <2>8, <4>1, <4>2
    <3>2. exponent = D * half + r
      <4>1. P * (2 * half + bit) = (2 * P) * half + P * bit
        BY <2>2, <2>8
      <4>2. P * bit \in Int /\ (2 * P) * half \in Int
        BY <2>2, <2>8
      <4> QED BY <2>2, <2>7, <2>8, <4>1, <4>2
    <3>3. D \in Nat \ {0} /\ half \in Int /\ exponent \in Int
      BY <2>2, <2>8
    <3> HIDE DEF r, D
    <3>4. (exponent % D) = r
      BY <3>1, <3>2, <3>3, DivisionOf
    <3> QED BY <3>4 DEF r, D
  <2>10. after[k + 1].base = f[2 ^ (k + 1)]
    <3>1. P \in Nat /\ P + P <= IntSize /\ P + P = 2 * P
      BY <2>2, <2>3
    <3>2. Mul(f[P], f[P], m) = f[P + P]
      BY <1>7, <3>1
    <3> QED BY <2>2, <2>6, <3>1, <3>2
  <2>11. after[k + 1].result = f[exponent % 2 ^ (k + 1)]
    <3>1. CASE bit = 1
      <4>1. low \in Nat /\ P \in Nat /\ low + P <= IntSize /\ P * bit + low = low + P
        <5>1. P * bit = P
          BY <2>2, <3>1
        <5> QED BY <1>1, <2>2, <2>3, <2>7, <5>1
      <4>2. Mul(f[low], f[P], m) = f[low + P]
        BY <1>7, <4>1
      <4>3. (exponent % 2 ^ (k + 1)) = low + P
        BY <2>2, <2>9, <4>1
      <4> QED BY <2>6, <3>1, <4>2, <4>3, Zenon
    <3>2. CASE bit = 0
      <4>1. P * bit + low = low
        BY <2>2, <2>7, <3>2
      <4>2. (exponent % 2 ^ (k + 1)) = low
        BY <2>2, <2>9, <4>1
      <4>3. after[k + 1].result = f[low]
        BY <2>6, <3>2
      <4> QED BY <4>2, <4>3
    <3> QED BY <2>8, <3>1, <3>2
  <2> QED BY <2>10, <2>11
<1> HIDE DEF T
<1>10. \A k \in Nat : k \in T
  BY <1>8, <1>9, NatInd
<1>11. after[IntBits].result = f[exponent % 2 ^ IntBits]
  <2>1. IntBits \in T /\ IntBits <= IntBits
    BY <1>1, <1>10
  <2> QED BY <2>1 DEF T
<1>12. (exponent % 2 ^ IntBits) = exponent
  <2>1. (exponent % IntSize) = exponent
    <3>1. IntSize \in Nat \ {0}
      BY <1>1, Widths
    <3> QED BY <3>1, SmallResidue
  <2> QED BY <2>1 DEF IntSize
<1> QED BY <1>5, <1>11, <1>12

\* The inverse by exponentiation inverts modulo every prime.
LEMMA Inverses == \A m \in Moduli : InversesExact(m)
<1> SUFFICES ASSUME NEW m \in Moduli, m > 2, \A k \in 2 .. m - 1 : m % k # 0, NEW x \in 1 .. m - 1
             PROVE  Mul(x, MultiplicativeInverse(x, m), m) = 1
  BY Zenon DEF InversesExact
<1>1. m \in Nat \ {0, 1} /\ m \in Nat \ {0} /\ 4 * m < IntSize /\ IntSize \in Nat /\ m > 1
  BY ModulusOf, Widths
<1>2. Prime(m)
  BY DEF Prime
<1>3. x \in 0 .. m - 1 /\ m - 1 <= IntSize /\ m - 2 \in 0 .. IntSize - 1
  BY <1>1
<1>4. PICK f : ArePowers(f, IntSize, x, m)
  BY <1>1, <1>3, PowersExist
<1>5. MultiplicativeInverse(x, m) = f[m - 2]
  <2>1. ModExp(x, m - 2, m) = f[m - 2]
    BY <1>1, <1>3, <1>4, ModExpOf
  <2> QED BY <2>1 DEF MultiplicativeInverse
<1>6. f[m - 1] = 1
  BY <1>1, <1>2, <1>3, <1>4, Fermat
<1>7. f[m - 1] = ((x * f[m - 2]) % m) /\ f[m - 2] \in 0 .. m - 1
  <2>1. m - 1 \in 1 .. IntSize /\ (m - 1) - 1 = m - 2 /\ m - 2 \in 0 .. IntSize
    BY <1>1, <1>3
  <2> QED BY <1>4, <2>1 DEF ArePowers
<1>8. Mul(x, f[m - 2], m) = ((x * f[m - 2]) % m)
  BY <1>3, <1>7, MulExact
<1> QED BY <1>5, <1>6, <1>7, <1>8

(***************************************************************************)
(* The invariants                                                          *)
(***************************************************************************)

Cases == {[op |-> "none"]} \cup ModulusCases \cup LaneCases \cup VectorCases

\* A behaviour evaluates one of the cases.
LEMMA CasesInvariant == Spec => [](case \in Cases)
<1>1. Init => case \in Cases
  BY DEF Init, Cases
<1>2. case \in Cases /\ [Next]_case => (case \in Cases)'
  BY Zenon DEF Next, Cases
<1> QED BY <1>1, <1>2, PTL DEF Spec

\* What a case of lanes consists of.
LEMMA LaneCase ==
    ASSUME case \in Cases, case.op = "lanes"
    PROVE  case.m \in BatchModuli /\ case.u \in 0 .. case.m - 1
<1>1. case \in LaneCases
  BY DEF Cases, ModulusCases, VectorCases
<1>2. PICK m \in BatchModuli : case \in [op : {"lanes"}, m : {m}, u : 0 .. m - 1]
  BY <1>1 DEF LaneCases
<1> QED BY <1>2

\* Every formula for the lanes of a register gives what the operation on single
\* numbers gives, for words, doubles and moduli of every size.
THEOREM Lanes == Spec => []LanesExact
<1>1. case \in Cases => LanesExact
  <2> SUFFICES ASSUME case \in Cases, case.op = "lanes", NEW v \in 0 .. case.m - 1
               PROVE  LET m == case.m
                          u == case.u
                      IN  /\ \A wide \in BOOLEAN :
                                 /\ BatchAddModAvx2(u, v, m, wide) = Add(u, v, m)
                                 /\ BatchSubModAvx2(u, v, m, wide) = Sub(u, v, m)
                          /\ FloatModulus(m) => BatchMulModAvx2Uint50(u, v, m) = Mul(u, v, m)
                          /\ NarrowMulModAvx2(u, v, m) = Mul(u, v, m)
                          /\ BatchMulConstantModAvx2(u, v, ConstantBarrett(v, m), m)
                                 = MulConstant(u, v, m)
    BY Zenon DEF LanesExact
  <2> DEFINE m == case.m
             u == case.u
  <2>1. m \in BatchModuli /\ u \in 0 .. m - 1 /\ v \in 0 .. m - 1
    BY LaneCase
  <2>2. m \in Moduli \ {1} /\ m \in Moduli
    BY <2>1, BatchCasesAssumption
  <2> HIDE DEF m, u
  <2>3. \A wide \in BOOLEAN : /\ BatchAddModAvx2(u, v, m, wide) = Add(u, v, m)
                              /\ BatchSubModAvx2(u, v, m, wide) = Sub(u, v, m)
    BY <2>1, <2>2, BatchSumsExact
  <2>4. FloatModulus(m) => BatchMulModAvx2Uint50(u, v, m) = Mul(u, v, m)
    BY <2>1, <2>2, Uint50Exact
  <2>5. NarrowMulModAvx2(u, v, m) = Mul(u, v, m)
    BY <2>1, <2>2, NarrowProductExact
  <2>6. BatchMulConstantModAvx2(u, v, ConstantBarrett(v, m), m) = MulConstant(u, v, m)
    BY <2>1, <2>2, BatchConstantExact
  <2> QED BY <2>3, <2>4, <2>5, <2>6, Zenon DEF m, u
<1> QED BY <1>1, CasesInvariant, PTL

\* The products of 64-bit lanes for the larger moduli, and the sums they are
\* used in, are right modulo p and stay below 2p for every modulus; a product
\* left in three words is right for the modulus the run takes, and by
\* ThreeWords for every one between a quarter and half of the words.
THEOREM WideProducts == Spec => []WideProductsCongruent
<1>1. case \in Cases => WideProductsCongruent
  <2> SUFFICES ASSUME case \in Cases, case.op = "lanes", NEW v \in 0 .. case.m - 1
               PROVE  LET m == case.m
                          u == case.u
                          top == m + IntSize \div 4
                      IN  /\ LET product == BatchMulModAvx2(u, v, m)
                                 sum == BatchAddModAvx2(v, product, m, TRUE)
                             IN  /\ product % m = Mul(u, v, m) /\ product < 2 * m
                                 /\ sum % m = FusedMulAdd(v, u, v, m) /\ sum < 2 * m
                          /\ Assembled(BatchMulWithoutReduction(u, v, top), top) = (u * v) % top
    BY Zenon DEF WideProductsCongruent
  <2> DEFINE m == case.m
             u == case.u
             top == m + IntSize \div 4
             product == BatchMulModAvx2(u, v, m)
             sum == BatchAddModAvx2(v, product, m, TRUE)
  <2>1. m \in BatchModuli /\ u \in 0 .. m - 1 /\ v \in 0 .. m - 1
    BY LaneCase
  <2>2. m \in Moduli \ {1} /\ m \in Moduli
    BY <2>1, BatchCasesAssumption
  <2> HIDE DEF m, u
  <2>3. m \in Nat \ {0} /\ 4 * m < IntSize
    BY <2>2, ModulusOf
  <2>4. (product % m) = Mul(u, v, m) /\ product < 2 * m
    <3>1. product \in Nat /\ (product % m) = Mul(u, v, m) /\ 2 * product < 3 * m
      BY <2>1, <2>2, WideProduct
    <3> HIDE DEF product
    <3> QED BY <2>3, <3>1
  <2>5. (sum % m) = FusedMulAdd(v, u, v, m) /\ sum < 2 * m
    BY <2>1, <2>2, WideSum
  <2>6. top \in Nat \ {0} /\ 2 * top < IntSize /\ IntSize < 4 * top
    BY <2>3, Widths
  <2> HIDE DEF top
  <2>7. Assembled(BatchMulWithoutReduction(u, v, top), top) = ((u * v) % top)
    BY <2>1, <2>2, <2>6, ThreeWords
  <2> QED BY <2>4, <2>5, <2>7, Zenon DEF m, u, top
<1> QED BY <1>1, CasesInvariant, PTL

\* A vector's length.
LEMMA Sizes ==
    ASSUME NEW len \in Nat, NEW vec, DOMAIN vec = 0 .. len - 1
    PROVE  Size(vec) = len
<1>1. Cardinality(0 .. len - 1) = IF 0 > len - 1 THEN 0 ELSE len - 1 - 0 + 1
  <2>1. len - 1 \in Int /\ 0 \in Int
    OBVIOUS
  <2> QED BY <2>1, FS_Interval
<1> QED BY <1>1 DEF Size

\* The operations on single numbers, and those on a lane.
LEMMA OneAndLane ==
    ASSUME NEW m \in Moduli \ {1}, NEW op \in Operations, NEW wide \in BOOLEAN,
           NEW x \in 0 .. m - 1, NEW y \in 0 .. m - 1, NEW z \in 0 .. m - 1
    PROVE  /\ One(op, x, y, z, m) \in 0 .. m - 1
           /\ op \in {"add", "sub"} \/ FloatModulus(m)
                  => Lane(op, x, y, z, m, wide) = One(op, x, y, z, m)
           /\ (Lane(op, x, y, z, m, wide) % m) = One(op, x, y, z, m)
           /\ (One(op, x, y, z, m) % m) = One(op, x, y, z, m)
<1> DEFINE one == One(op, x, y, z, m)
           lane == Lane(op, x, y, z, m, wide)
<1>1. m \in Moduli /\ m \in Nat \ {0}
  BY ModulusOf
<1>2. ASSUME NEW r \in 0 .. m - 1 PROVE (r % m) = r
  <2>1. r \in Int /\ r = m * 0 + r
    BY <1>1
  <2> QED BY <1>1, <2>1, DivisionOf
<1>3. CASE op = "add"
  <2>1. one = Add(x, y, m) /\ lane = BatchAddModAvx2(x, y, m, wide)
    BY <1>3 DEF One, Lane
  <2>2. lane = one /\ one \in 0 .. m - 1
    BY <1>1, <2>1, BatchSumsExact
  <2> QED BY <1>2, <2>2
<1>4. CASE op = "sub"
  <2>1. one = Sub(x, y, m) /\ lane = BatchSubModAvx2(x, y, m, wide)
    BY <1>4 DEF One, Lane
  <2>2. lane = one /\ one \in 0 .. m - 1
    BY <1>1, <2>1, BatchSumsExact
  <2> QED BY <1>2, <2>2
<1>5. CASE op = "mul"
  <2>1. one = Mul(x, y, m) /\ lane = LaneProduct(x, y, m)
    BY <1>5 DEF One, Lane
  <2>2. one \in 0 .. m - 1
    BY <1>1, <2>1, MulExact
  <2>3. FloatModulus(m) => lane = one
    BY <2>1, Uint50Exact DEF LaneProduct
  <2>4. ~ FloatModulus(m) => (lane % m) = one
    <3> SUFFICES ASSUME ~ FloatModulus(m) PROVE (lane % m) = one
      OBVIOUS
    <3>1. lane = BatchMulModAvx2(x, y, m)
      BY <2>1 DEF LaneProduct
    <3>2. (BatchMulModAvx2(x, y, m) % m) = Mul(x, y, m)
      BY WideProduct
    <3> QED BY <2>1, <3>1, <3>2
  <2> QED BY <1>2, <1>5, <2>2, <2>3, <2>4
<1>6. CASE op = "fma"
  <2> DEFINE product == LaneProduct(y, z, m)
             sum == BatchAddModAvx2(x, product, m, TRUE)
  <2>1. one = FusedMulAdd(x, y, z, m) /\ lane = sum
    BY <1>6 DEF One, Lane
  <2>2. one = ((x + y * z) % m) /\ one \in 0 .. m - 1 /\ y * z \in Int
    <3>1. one = ((x + y * z) % m)
      BY <1>1, <2>1, MulExact
    <3>2. x + y * z \in Int
      OBVIOUS
    <3>3. ((x + y * z) % m) \in 0 .. m - 1
      BY <1>1, <3>2, Division
    <3> QED BY <3>1, <3>3
  <2>3. ASSUME FloatModulus(m) PROVE lane = one
    <3>1. product = Mul(y, z, m)
      BY <2>3, Uint50Exact DEF LaneProduct
    <3>2. product = ((y * z) % m) /\ product \in 0 .. m - 1
      BY <1>1, <3>1, MulExact
    <3>3. sum = Add(x, product, m) /\ Add(x, product, m) = ((x + product) % m)
      <4> HIDE DEF product
      <4>1. sum = Add(x, product, m)
        <5>1. TRUE \in BOOLEAN
          OBVIOUS
        <5> DEFINE yes == TRUE
        <5>2. yes \in BOOLEAN
          OBVIOUS
        <5> HIDE DEF yes
        <5>3. BatchAddModAvx2(x, product, m, yes) = Add(x, product, m)
          BY <1>1, <3>2, <5>2, BatchSumsExact
        <5> QED BY <5>3 DEF yes
      <4>2. product \in 0 .. m /\ x \in 0 .. 3 * m
        BY <1>1, <3>2
      <4> QED BY <1>1, <4>1, <4>2, Sums DEF SumsExact
    <3>4. ((x + ((y * z) % m)) % m) = ((x + y * z) % m)
      <4>1. x \in Int /\ y * z \in Int
        BY <2>2
      <4> QED BY <1>1, <4>1, Residues2, Zenon
    <3> HIDE DEF product
    <3> QED BY <2>1, <2>2, <3>2, <3>3, <3>4
  <2>4. ASSUME ~ FloatModulus(m) PROVE (lane % m) = one
    <3>1. product = BatchMulModAvx2(y, z, m)
      BY <2>4 DEF LaneProduct
    <3>2. (BatchAddModAvx2(x, BatchMulModAvx2(y, z, m), m, TRUE) % m) = FusedMulAdd(x, y, z, m)
      BY WideSum
    <3> QED BY <2>1, <3>1, <3>2
  <2> QED BY <1>2, <1>6, <2>2, <2>3, <2>4
<1> QED BY <1>3, <1>4, <1>5, <1>6 DEF Operations

\* The result is not refused and has at every place what the operation on
\* single numbers returns, of wide products by Barrett reduction up to m.
Served(b, op, xs, ys, zs, m, wide, places) ==
    /\ ~ b.refused
    /\ \A i \in places :
           LET one == One(op, xs[i], ys[i], zs[i], m)
           IN  /\ op \in {"add", "sub"} \/ FloatModulus(m) \/ ~ wide => b.vec[i] = one
               /\ (b.vec[i] % m) = one

\* A vector operation is the operation on single numbers at every place, with
\* and without whole registers.
LEMMA Vectors ==
    ASSUME NEW m \in Moduli \ {1}, NEW op \in Operations, NEW wide \in BOOLEAN,
           NEW avx2 \in BOOLEAN, NEW len \in Nat,
           NEW xs \in [0 .. len - 1 -> 0 .. m - 1], NEW ys \in [0 .. len - 1 -> 0 .. m - 1],
           NEW zs \in [0 .. len - 1 -> 0 .. m - 1]
    PROVE  Served(Batch(op, xs, ys, zs, m, wide, avx2), op, xs, ys, zs, m, wide, 0 .. len - 1)
<1> DEFINE first == MaximumBatch(op, xs, ys, zs, m, wide, avx2)
           b == Batch(op, xs, ys, zs, m, wide, avx2)
           rest == [i \in DOMAIN xs |-> IF i < first.done THEN first.vec[i]
                                        ELSE One(op, first.vec[i], ys[i], zs[i], m)]
<1>1. Size(xs) = Size(ys) /\ Size(xs) = Size(zs)
  <2>1. DOMAIN xs = DOMAIN ys /\ DOMAIN xs = DOMAIN zs
    OBVIOUS
  <2> QED BY <2>1, Zenon DEF Size
<1>2. b = [refused |-> FALSE, vec |-> rest]
  BY <1>1, Zenon DEF Batch
<1>3. b.refused = FALSE /\ b.vec = rest
  BY <1>2
<1> HIDE DEF b
<1>4. ASSUME NEW i \in 0 .. len - 1
      PROVE  \/ rest[i] = One(op, xs[i], ys[i], zs[i], m)
             \/ /\ rest[i] = Lane(op, xs[i], ys[i], zs[i], m, wide)
                /\ wide \/ op \in {"add", "sub"}
  <2> DEFINE done == IF avx2 /\ (wide \/ op \in {"add", "sub"})
                     THEN (Size(xs) \div BatchSize) * BatchSize ELSE 0
             vec == [j \in DOMAIN xs |->
                        IF j < done THEN Lane(op, xs[j], ys[j], zs[j], m, wide) ELSE xs[j]]
  <2>1. first = [vec |-> vec, done |-> done]
    BY Zenon DEF MaximumBatch
  <2>2. first.done = done /\ first.vec = vec
    BY <2>1
  <2> HIDE DEF first
  <2>3. i \in DOMAIN xs
    OBVIOUS
  <2>4. rest[i] = IF i < done THEN vec[i] ELSE One(op, vec[i], ys[i], zs[i], m)
    BY <2>2, <2>3
  <2>5. vec[i] = IF i < done THEN Lane(op, xs[i], ys[i], zs[i], m, wide) ELSE xs[i]
    BY <2>3
  <2>6. i < done => wide \/ op \in {"add", "sub"}
    <3> SUFFICES ASSUME ~ (wide \/ op \in {"add", "sub"}) PROVE ~ (i < done)
      OBVIOUS
    <3>1. done = 0
      OBVIOUS
    <3> HIDE DEF done
    <3> QED BY <3>1
  <2> HIDE DEF rest, vec, done
  <2> QED BY <2>4, <2>5, <2>6
<1> HIDE DEF rest
<1>5. ASSUME NEW i \in 0 .. len - 1
      PROVE  LET one == One(op, xs[i], ys[i], zs[i], m)
             IN  /\ op \in {"add", "sub"} \/ FloatModulus(m) \/ ~ wide => b.vec[i] = one
                 /\ (b.vec[i] % m) = one
  <2> DEFINE x == xs[i]
             y == ys[i]
             z == zs[i]
             one == One(op, x, y, z, m)
             lane == Lane(op, x, y, z, m, wide)
  <2>1. x \in 0 .. m - 1 /\ y \in 0 .. m - 1 /\ z \in 0 .. m - 1
    OBVIOUS
  <2> HIDE DEF x, y, z
  <2>2. /\ op \in {"add", "sub"} \/ FloatModulus(m) => lane = one
        /\ (lane % m) = one /\ (one % m) = one
    BY <2>1, OneAndLane
  <2>3. rest[i] = one \/ (rest[i] = lane /\ (wide \/ op \in {"add", "sub"}))
    BY <1>4 DEF x, y, z
  <2> HIDE DEF one, lane
  <2>4. /\ op \in {"add", "sub"} \/ FloatModulus(m) \/ ~ wide => rest[i] = one
        /\ (rest[i] % m) = one
    BY <2>2, <2>3
  <2> QED BY <1>3, <2>4, Zenon DEF one, x, y, z
<1> QED BY <1>3, <1>5, Zenon DEF b, Served

\* The vectors of a case are vectors of residues.
LEMMA ResiduesOf ==
    ASSUME NEW m \in Moduli \ {1}, NEW k \in Int, NEW len \in Nat
    PROVE  Residues(k, len, m) \in [0 .. len - 1 -> 0 .. m - 1]
<1>1. m \in Nat \ {0}
  <2>1. m \in Moduli
    OBVIOUS
  <2> QED BY <2>1, ModulusOf
<1>2. ASSUME NEW i \in 0 .. len - 1
      PROVE  (((k + i) * (k + 3 * i) * 131 + 17 * i) % m) \in 0 .. m - 1
  <2> DEFINE a == (k + i) * (k + 3 * i) * 131 + 17 * i
  <2>1. a \in Int
    OBVIOUS
  <2> HIDE DEF a
  <2>2. (a % m) \in 0 .. m - 1
    BY <1>1, <2>1, Division
  <2> QED BY <2>2 DEF a
<1> QED BY <1>2, Zenon DEF Residues

\* What a case of vectors consists of.
LEMMA VectorCase ==
    ASSUME case \in Cases, case.op = "vectors"
    PROVE  case.m \in BatchModuli /\ case.len \in Nat /\ case.wide \in BOOLEAN /\ case.avx2 \in BOOLEAN
<1>1. case \in VectorCases
  BY DEF Cases, ModulusCases, LaneCases
<1> QED BY <1>1, BatchCasesAssumption DEF VectorCases

\* A vector operation returns at every place what the operation on single
\* numbers returns there, for vectors and registers of every length, with and
\* without AVX2, and refuses vectors of different lengths.
THEOREM Places == Spec => []BatchesAgree
<1>1. case \in Cases => BatchesAgree
  <2> SUFFICES ASSUME case \in Cases, case.op = "vectors" PROVE BatchesAgree
    BY Zenon DEF BatchesAgree
  <2> DEFINE m == case.m
             len == case.len
             wide == case.wide
             avx2 == case.avx2
             xs == Residues(5, len, m)
             ys == Residues(11, len, m)
             zs == Residues(2, len, m)
  <2>1. m \in BatchModuli /\ len \in Nat /\ wide \in BOOLEAN /\ avx2 \in BOOLEAN
    BY VectorCase
  <2>2. m \in Moduli \ {1} /\ m \in Moduli /\ m \in Nat \ {0}
    BY <2>1, BatchCasesAssumption, ModulusOf
  <2> HIDE DEF m, len, wide, avx2
  <2> DEFINE Right(op, b, i, y) ==
                 LET one == One(op, xs[i], y, zs[i], m)
                 IN  IF op \in {"add", "sub"} \/ FloatModulus(m) \/ ~wide
                     THEN b.vec[i] = one ELSE b.vec[i] % m = one
  <2>3. /\ xs \in [0 .. len - 1 -> 0 .. m - 1] /\ ys \in [0 .. len - 1 -> 0 .. m - 1]
        /\ zs \in [0 .. len - 1 -> 0 .. m - 1]
        /\ DOMAIN xs = 0 .. len - 1 /\ DOMAIN ys = 0 .. len - 1 /\ DOMAIN zs = 0 .. len - 1
    <3>1. 5 \in Int /\ 11 \in Int /\ 2 \in Int /\ m \in Moduli \ {1} /\ len \in Nat
      BY <2>1, <2>2
    <3>2. xs \in [0 .. len - 1 -> 0 .. m - 1]
      BY <3>1, ResiduesOf, Zenon
    <3>3. ys \in [0 .. len - 1 -> 0 .. m - 1]
      BY <3>1, ResiduesOf, Zenon
    <3>4. zs \in [0 .. len - 1 -> 0 .. m - 1]
      BY <3>1, ResiduesOf, Zenon
    <3> HIDE DEF xs, ys, zs
    <3> QED BY <3>2, <3>3, <3>4
  <2> HIDE DEF xs, ys, zs
  <2>4. ASSUME NEW op \in Operations
        PROVE  LET b == Batch(op, xs, ys, zs, m, wide, avx2)
               IN  ~ b.refused /\ \A i \in DOMAIN xs : Right(op, b, i, ys[i])
    <3> DEFINE b == Batch(op, xs, ys, zs, m, wide, avx2)
    <3>1. Served(b, op, xs, ys, zs, m, wide, 0 .. len - 1)
      BY <2>1, <2>2, <2>3, Vectors
    <3> QED BY <2>3, <3>1, Zenon DEF Served
  <2>5. ASSUME NEW op \in Operations
        PROVE  Batch(op, xs, Residues(1, len + 1, m), zs, m, wide, avx2).refused
    <3> DEFINE longer == Residues(1, len + 1, m)
    <3>1. Size(xs) = len
      BY <2>1, <2>3, Sizes
    <3>2. len + 1 \in Nat /\ longer \in [0 .. (len + 1) - 1 -> 0 .. m - 1]
      <4>1. 1 \in Int /\ len + 1 \in Nat /\ m \in Moduli \ {1}
        BY <2>1, <2>2
      <4>2. longer \in [0 .. (len + 1) - 1 -> 0 .. m - 1]
        BY <4>1, ResiduesOf, Zenon
      <4> QED BY <4>1, <4>2
    <3>3. DOMAIN longer = 0 .. (len + 1) - 1
      BY <3>2
    <3> HIDE DEF longer
    <3>4. Size(longer) = len + 1
      BY <3>2, <3>3, Sizes
    <3>5. Size(xs) # Size(longer)
      BY <2>1, <3>1, <3>4
    <3>6. Batch(op, xs, longer, zs, m, wide, avx2) = [refused |-> TRUE]
      BY <3>5, Zenon DEF Batch
    <3> QED BY <3>6 DEF longer
  <2>6. ASSUME NEW op \in {"add", "sub", "mul"}
        PROVE  LET b == BatchWithScalar(op, xs, m - 1, m, wide, avx2)
               IN  ~ b.refused /\ \A i \in DOMAIN xs : Right(op, b, i, m - 1)
    <3> DEFINE cs == [i \in DOMAIN xs |-> m - 1]
               vector == avx2 /\ op # "mul"
               b == Batch(op, xs, cs, cs, m, wide, vector)
    <3>1. BatchWithScalar(op, xs, m - 1, m, wide, avx2) = b
      BY Zenon DEF BatchWithScalar
    <3>2. cs \in [0 .. len - 1 -> 0 .. m - 1] /\ vector \in BOOLEAN /\ op \in Operations
      BY <2>2, <2>3 DEF Operations
    <3>3. \A i \in 0 .. len - 1 : cs[i] = m - 1
      BY <2>3
    <3> HIDE DEF cs, vector
    <3>4. Served(b, op, xs, cs, cs, m, wide, 0 .. len - 1)
      BY <2>1, <2>2, <2>3, <3>2, Vectors
    <3>5. ASSUME NEW i \in 0 .. len - 1
          PROVE  One(op, xs[i], cs[i], cs[i], m) = One(op, xs[i], m - 1, zs[i], m)
      <4>1. op # "fma"
        OBVIOUS
      <4> QED BY <3>3, <4>1 DEF One
    <3> HIDE DEF b
    <3> QED BY <2>3, <3>1, <3>4, <3>5, Zenon DEF Served
  <2>7. BatchMulConstant(xs, ys, m).vec = [i \in DOMAIN xs |-> Mul(xs[i], ys[i], m)]
    <3>1. Size(xs) = Size(ys)
      BY <2>3, Zenon DEF Size
    <3>2. BatchMulConstant(xs, ys, m)
              = [refused |-> FALSE, vec |-> [i \in DOMAIN xs |-> MulConstant(xs[i], ys[i], m)]]
      BY <3>1, Zenon DEF BatchMulConstant
    <3>3. ASSUME NEW i \in DOMAIN xs
          PROVE  MulConstant(xs[i], ys[i], m) = Mul(xs[i], ys[i], m)
      <4>1. xs[i] \in 0 .. m - 1 /\ ys[i] \in 0 .. m - 1
        BY <2>3
      <4> QED BY <2>2, <4>1, BatchConstantExact
    <3> QED BY <3>2, <3>3
  <2>8. BatchFusedMulConstantAdd(xs, ys, zs, m).vec
            = [i \in DOMAIN xs |-> FusedMulAdd(xs[i], ys[i], zs[i], m)]
    <3>1. Size(xs) = Size(ys) /\ Size(xs) = Size(zs)
      BY <2>3, Zenon DEF Size
    <3>2. BatchFusedMulConstantAdd(xs, ys, zs, m)
              = [refused |-> FALSE,
                 vec |-> [i \in DOMAIN xs |-> FusedMulConstantAdd(xs[i], ys[i], zs[i], m)]]
      BY <3>1, Zenon DEF BatchFusedMulConstantAdd
    <3>3. ASSUME NEW i \in DOMAIN xs
          PROVE  FusedMulConstantAdd(xs[i], ys[i], zs[i], m) = FusedMulAdd(xs[i], ys[i], zs[i], m)
      <4>1. xs[i] \in 0 .. m - 1 /\ ys[i] \in 0 .. m - 1 /\ zs[i] \in 0 .. m - 1
        BY <2>3
      <4>2. xs[i] \in 0 .. m /\ ys[i] \in 0 .. m
        BY <2>2, <4>1
      <4>3. FusedMulConstantAdd(xs[i], ys[i], zs[i], m) = ((xs[i] + ys[i] * zs[i]) % m)
        BY <2>2, <4>1, <4>2, FusedMulConstantAddExact
      <4>4. FusedMulAdd(xs[i], ys[i], zs[i], m) = ((xs[i] + ys[i] * zs[i]) % m)
        BY <2>2, <4>1, MulExact
      <4> QED BY <4>3, <4>4
    <3> QED BY <3>2, <3>3
  <2> QED BY <2>4, <2>5, <2>6, <2>7, <2>8, Zenon
             DEF BatchesAgree, m, len, wide, avx2, xs, ys, zs
<1> QED BY <1>1, CasesInvariant, PTL

\* Barrett reduction is exact for every modulus and operand the comments of
\* modular_int.h admit, and exponentiation inverts modulo every prime, for words
\* of every width.
THEOREM SingleNumbers == Spec => []ModularIntExact
<1>1. case \in Cases => ModularIntExact
  <2> SUFFICES ASSUME case \in Cases, case.op = "modulus"
               PROVE  SumsExact(case.m) /\ ProductsExact(case.m) /\ InversesExact(case.m)
    BY Zenon DEF ModularIntExact
  <2>1. case.m \in Moduli
    <3>1. case \in ModulusCases
      BY DEF Cases, LaneCases, VectorCases
    <3> QED BY <3>1 DEF ModulusCases
  <2> QED BY <2>1, Sums, ProductsOfResidues, Inverses, Zenon
<1> QED BY <1>1, CasesInvariant, PTL
=============================================================================
