------------------------- MODULE ModularArithmetic -------------------------
(***************************************************************************)
(* ModularInt, the integers modulo an odd number that the interpolation of *)
(* the database computes with (modular_int.h, modular_int.cc).  An Int has *)
(* IntBits bits and a BigInt twice as many; both wrap silently, and every  *)
(* division by the modulus is replaced by a multiplication with a          *)
(* precomputed reciprocal, a shift and at most one subtraction.            *)
(***************************************************************************)
EXTENDS Integers

CONSTANT IntBits \* the width of the C++ type Int

ASSUME IntBitsAssumption == IntBits \in Nat /\ IntBits >= 3

\* What a power of two is, which TLC computes and the provers do not know.
ASSUME PowersAssumption == 2 ^ 0 = 1 /\ \A k \in 1 .. 3 * IntBits : 2 ^ k = 2 * 2 ^ (k - 1)

IntSize == 2 ^ IntBits

\* The value of an expression of type Int.
ToInt(x) == x % IntSize

\* The moduli ModularIntParams::Create accepts.
Moduli == { m \in 1 .. (2 ^ (IntBits - 2)) - 1 : m % 2 = 1 }

BarrettNumerator(m) == IntSize \div m

BarrettNumeratorBig(m) == (2 ^ (2 * IntBits - 1)) \div m

\* The one conditional subtraction left after a Barrett quotient; exact when
\* the remainder it is given lies in [0, 2m).
Settle(x, m) == IF x >= m THEN x - m ELSE x

\* The correction by one modulus forgotten.
SlipBarrettReduce(x, m) ==
    ToInt(x - ToInt((BarrettNumerator(m) * x) \div IntSize) * m)

BarrettReduce(x, m) ==
    LET quotient == ToInt((BarrettNumerator(m) * x) \div IntSize)
    IN  Settle(ToInt(x - quotient * m), m)

BarrettReduceBig(x, m) ==
    LET quotient == ToInt((BarrettNumeratorBig(m) * x) \div 2 ^ (2 * IntBits - 1))
    IN  Settle(ToInt(ToInt(x) - quotient * m), m)

Add(x, y, m) == BarrettReduce(ToInt(x + y), m)

Sub(x, y, m) == BarrettReduce(ToInt(x + (m - y)), m)

Negate(x, m) == IF x = 0 THEN 0 ELSE m - x

Mul(x, y, m) == BarrettReduceBig(x * y, m)

FusedMulAdd(x, a, b, m) == BarrettReduceBig(x + a * b, m)

\* The second half of GetConstant: the reciprocal kept with a constant factor.
ConstantBarrett(c, m) == ToInt((c * IntSize) \div m)

MulConstant(x, c, m) ==
    LET quotient == ToInt((ConstantBarrett(c, m) * x) \div IntSize)
    IN  Settle(ToInt(x * c - quotient * m), m)

FusedMulConstantAdd(x, a, c, m) ==
    LET quotient == ToInt((ConstantBarrett(c, m) * a + BarrettNumerator(m) * x) \div IntSize)
    IN  Settle(ToInt(x + a * c - quotient * m), m)

\* Square and multiply over the bits of the exponent, lowest first.
ModExp(x, exponent, m) ==
    LET after[k \in 0 .. IntBits] ==
            IF k = 0 THEN [result |-> 1, base |-> x]
            ELSE LET before == after[k - 1]
                 IN  [result |-> IF (exponent \div 2 ^ (k - 1)) % 2 = 1
                                 THEN Mul(before.result, before.base, m)
                                 ELSE before.result,
                      base |-> Mul(before.base, before.base, m)]
    IN  after[IntBits].result

\* Fermat's inverse, which only a prime modulus has.
MultiplicativeInverse(x, m) == ModExp(x, m - 2, m)

-----------------------------------------------------------------------------
(* What the comments of modular_int.h promise of these operations          *)

\* Every operation returns the residue in [0, m) over the whole range of lazy
\* operands its comment admits: any Int for the reduction, sums up to 4m for
\* the addition, [0, 3m] for the left operand of a subtraction.
SumsExact(m) ==
    /\ \A x \in 0 .. IntSize - 1 : BarrettReduce(x, m) = x % m
    /\ \A y \in 0 .. m : \A x \in 0 .. 3 * m :
           /\ Add(x, y, m) = (x + y) % m
           /\ Sub(x, y, m) = (x - y) % m

\* The products, where the left operand of MulConstant ranges over [0, 4m].
ProductsExact(m) ==
    \A y \in 0 .. m - 1 :
        /\ \A x \in 0 .. m - 1 : /\ Mul(x, y, m) = (x * y) % m
                                 /\ FusedMulAdd(x, y, m - 1, m) = (x + y * (m - 1)) % m
        /\ \A x \in 0 .. 4 * m : MulConstant(x, y, m) = (x * y) % m
        /\ \A x, a \in {1, m \div 2, m - 1} :
               FusedMulConstantAdd(x, a, y, m) = (x + a * y) % m

\* Fermat's inverse inverts whenever the modulus is a prime.
InversesExact(m) ==
    (m > 2 /\ \A k \in 2 .. m - 1 : m % k # 0) =>
        \A x \in 1 .. m - 1 : Mul(x, MultiplicativeInverse(x, m), m) = 1
=============================================================================
