--------------------------- MODULE BatchArithmetic ---------------------------
(***************************************************************************)
(* ModularInt on vectors (modular_int.cc), as a build with AVX2 does it    *)
(* (batch_operations_avx2.h, batch_modular_int_avx2_impl.h): whole         *)
(* registers of BatchSize numbers at a time by formulas of their own, and  *)
(* what is left of the vector number by number.                            *)
(*                                                                         *)
(* A register is modelled lane by lane.  A word has IntBits bits, 64 in    *)
(* the wide formulas and 16 or 32 in the narrow ones, and a double has     *)
(* FloatBits bits of significand, 53 in the code.                          *)
(***************************************************************************)
EXTENDS ModularArithmetic, FiniteSets

CONSTANTS
    FloatBits, \* the significand of a double
    BatchSize  \* the numbers of a register

ASSUME BatchAssumption ==
    /\ IntBits % 2 = 0
    /\ FloatBits \in 4 .. IntBits
    /\ BatchSize \in Nat \ {0}

HalfSize == 2 ^ (IntBits \div 2)

Low(x) == x % HalfSize

High(x) == x \div HalfSize

\* The sign bit, which the comparison of signed lanes looks at.
IsNegative(x) == x >= IntSize \div 2

BitWidth(x) == CHOOSE n \in 0 .. 3 * IntBits : 2 ^ n > x /\ (n = 0 \/ 2 ^ (n - 1) <= x)

-----------------------------------------------------------------------------
(* Sums.  wide says whether the type has 64 bits.                          *)

\* Narrow lanes have an unsigned minimum, wide ones only a signed comparison.
BatchAddModAvx2(u, v, p, wide) ==
    LET sum == ToInt(u + v)
        less == ToInt(sum - p)
    IN  IF wide
        THEN IF IsNegative(less) THEN ToInt(less + p) ELSE less
        ELSE IF less < sum THEN less ELSE sum

BatchSubModAvx2(u, v, p, wide) == BatchAddModAvx2(u, ToInt(p - v), p, wide)

-----------------------------------------------------------------------------
(* Products of words, put together from products of half words             *)

\* The carry out of the middle lost.
SlipBatchMul64(x, y) ==
    LET upper == ToInt(Low(x) * High(y) + High(Low(x) * Low(y)))
    IN  [lo |-> ToInt(x * y), hi |-> ToInt(High(x) * High(y) + High(upper))]

BatchMul64(x, y) ==
    LET corner == Low(x) * Low(y)
        upper == ToInt(Low(x) * High(y) + High(corner))
        middle == ToInt(High(x) * Low(y) + Low(upper))
    IN  [lo |-> ToInt(corner + ToInt(Low(x) * High(y) * HalfSize)
                             + ToInt(High(x) * Low(y) * HalfSize)),
         hi |-> ToInt(High(x) * High(y) + High(upper) + High(middle))]

\* BatchMulHi64 repeats the upper half of BatchMul64; BatchMulLo64 adds the two
\* mixed products within half a word.
BatchMulHi64(x, y) == BatchMul64(x, y).hi

BatchMulLo64(x, y) ==
    LET mixed == Low(Low(Low(x) * High(y)) + Low(High(x) * Low(y)))
    IN  ToInt(Low(x) * Low(y) + mixed * HalfSize)

\* The word that begins at the given bit of y x, of which x is the lower word.
Shrdi64(x, y, shift) == ToInt(x \div 2 ^ shift + ToInt(y * 2 ^ (IntBits - shift)))

-----------------------------------------------------------------------------
(* Modular products by Barrett reduction                                   *)

\* r is the length of p.
BarrettLength(p) == BitWidth(p)

BarrettQuotient(p) == (2 ^ (BarrettLength(p) + IntBits - 1)) \div p

\* The product of a narrow type, kept in twice its width until it is shifted.
NarrowMulModAvx2(u, v, p) ==
    LET b == (u * v) \div 2 ^ (BarrettLength(p) - 2)
        c == ToInt(((b * ToInt(BarrettQuotient(p))) % (IntSize * IntSize)) \div 2 ^ (IntBits + 1))
        d == ToInt(u * v - c * p)
    IN  IF ToInt(d - p) < d THEN ToInt(d - p) ELSE d

\* The product of 64-bit lanes for moduli beyond the doubles: a shift by r - 1,
\* and one subtraction if what is left, as a signed number, exceeds p.
BatchMulModAvx2(u, v, p) ==
    LET uv == BatchMul64(u, v)
        b == Shrdi64(uv.lo, uv.hi, BarrettLength(p) - 1)
        c == BatchMulHi64(b, ToInt(BarrettQuotient(p)))
        rest == ToInt(uv.lo - BatchMulLo64(c, p))
    IN  IF ~IsNegative(rest) /\ rest > p THEN ToInt(rest - p) ELSE rest

\* The product with a constant that comes with its own reciprocal.
BatchMulConstantModAvx2(u, constant, barrett, p) ==
    LET rest == ToInt(u * constant - ((u * barrett) \div IntSize) * p)
    IN  IF ToInt(rest - p) < rest THEN ToInt(rest - p) ELSE rest

\* "x mod p, assuming p is a 63 bit modulus": subtracted while x looks negative.
BatchReduceWith63BitModulus64(x, p) ==
    LET Reduced(y) == IF IsNegative(y) THEN ToInt(y - p) ELSE y
    IN  Reduced(Reduced(Reduced(x)))

\* The product as three words, each of them below 2^63 or below p.
BatchMulWithoutReduction(x, y, p) ==
    [low |-> BatchReduceWith63BitModulus64(Low(x) * Low(y), p),
     mid |-> BatchAddModAvx2(Low(x) * High(y), High(x) * Low(y), p, TRUE),
     high |-> High(x) * High(y)]

-----------------------------------------------------------------------------
(* Modular products in doubles.  Every value but the reciprocal and the    *)
(* quotient is an integer.                                                 *)

\* What the last bit of the significand of a number stands for.
Unit(size) == 2 ^ (IF BitWidth(size) > FloatBits THEN BitWidth(size) - FloatBits ELSE 0)

\* To the nearest with FloatBits significant bits, ties to even.
Rounded(size) ==
    LET unit == Unit(size)
        below == size \div unit
        twice == 2 * (size % unit)
        up == twice > unit \/ (twice = unit /\ below % 2 = 1)
    IN  unit * (IF up THEN below + 1 ELSE below)

ToDouble(x) == IF x < 0 THEN -Rounded(-x) ELSE Rounded(x)

\* 1 / p is InverseUnits(p) units of 2^-InverseScale(p).
InverseScale(p) == FloatBits + BitWidth(p) - 1

InverseUnits(p) == (2 ^ InverseScale(p) + p \div 2) \div p

\* The moduli whose products are made in doubles, 2^50 in the code.
FloatModulus(p) == p < 2 ^ (FloatBits - 3)

\* A quotient one too large never made up for.
SlipBatchMulModAvx2Uint50(u, v, p) ==
    LET h == ToDouble(u * v)
        b == ToDouble(h * InverseUnits(p)) \div 2 ^ InverseScale(p)
        d == ToDouble(ToDouble(h - b * p) + (u * v - h))
    IN  ToInt(IF d < p THEN d ELSE d - p)

\* h + l is the product, b the quotient from the rounded h; the remainder may be
\* off by p to either side.
BatchMulModAvx2Uint50(u, v, p) ==
    LET h == ToDouble(u * v)
        l == ToDouble(u * v - h)
        b == ToDouble(h * InverseUnits(p)) \div 2 ^ InverseScale(p)
        d == ToDouble(ToDouble(h - b * p) + l)
        t == ToDouble(d - p)
        below == IF t < 0 THEN d ELSE t
    IN  ToInt(IF below < 0 THEN ToDouble(below + p) ELSE below)

-----------------------------------------------------------------------------
(* Vectors.  op is "add", "sub", "mul" or "fma", the fused x + y z, which  *)
(* takes a third vector.                                                   *)

Size(vec) == Cardinality(DOMAIN vec)

LaneProduct(y, z, m) ==
    IF FloatModulus(m) THEN BatchMulModAvx2Uint50(y, z, m) ELSE BatchMulModAvx2(y, z, m)

Lane(op, x, y, z, m, wide) ==
    CASE op = "add" -> BatchAddModAvx2(x, y, m, wide)
      [] op = "sub" -> BatchSubModAvx2(x, y, m, wide)
      [] op = "mul" -> LaneProduct(x, y, m)
      [] op = "fma" -> BatchAddModAvx2(x, LaneProduct(y, z, m), m, TRUE)

One(op, x, y, z, m) ==
    CASE op = "add" -> Add(x, y, m)
      [] op = "sub" -> Sub(x, y, m)
      [] op = "mul" -> Mul(x, y, m)
      [] op = "fma" -> FusedMulAdd(x, y, z, m)

\* What was done not counted, and done again.
SlipMaximumBatch(op, xs, ys, zs, m, wide, avx2) ==
    [vec |-> IF avx2 /\ (wide \/ op \in {"add", "sub"})
             THEN [i \in DOMAIN xs |->
                      IF i < (Size(xs) \div BatchSize) * BatchSize
                      THEN Lane(op, xs[i], ys[i], zs[i], m, wide) ELSE xs[i]]
             ELSE xs,
     done |-> 0]

\* MaximumBatch...InPlaceWithHardware: nothing without AVX2, sums for every
\* type, products for 64 bits only.
MaximumBatch(op, xs, ys, zs, m, wide, avx2) ==
    LET whole == (Size(xs) \div BatchSize) * BatchSize
        done == IF avx2 /\ (wide \/ op \in {"add", "sub"}) THEN whole ELSE 0
    IN  [vec |-> [i \in DOMAIN xs |->
                     IF i < done THEN Lane(op, xs[i], ys[i], zs[i], m, wide) ELSE xs[i]],
         done |-> done]

\* BatchAdd, BatchSub, BatchMul, BatchFusedMulAdd.
Batch(op, xs, ys, zs, m, wide, avx2) ==
    LET Rest(first) ==
            [i \in DOMAIN xs |-> IF i < first.done THEN first.vec[i]
                                 ELSE One(op, first.vec[i], ys[i], zs[i], m)]
    IN  IF Size(xs) # Size(ys) \/ Size(xs) # Size(zs)
        THEN [refused |-> TRUE]
        ELSE [refused |-> FALSE, vec |-> Rest(MaximumBatch(op, xs, ys, zs, m, wide, avx2))]

\* The forms with one number for the second vector; products by one number have
\* no batches.
BatchWithScalar(op, xs, y, m, wide, avx2) ==
    LET ys == [i \in DOMAIN xs |-> y]
    IN  Batch(op, xs, ys, ys, m, wide, avx2 /\ op # "mul")

\* The forms with constants and their reciprocals have none either.
BatchMulConstant(xs, constants, m) ==
    IF Size(xs) # Size(constants) THEN [refused |-> TRUE]
    ELSE [refused |-> FALSE, vec |-> [i \in DOMAIN xs |-> MulConstant(xs[i], constants[i], m)]]

BatchFusedMulConstantAdd(xs, ys, constants, m) ==
    IF Size(xs) # Size(ys) \/ Size(xs) # Size(constants) THEN [refused |-> TRUE]
    ELSE [refused |-> FALSE,
          vec |-> [i \in DOMAIN xs |-> FusedMulConstantAdd(xs[i], ys[i], constants[i], m)]]
=============================================================================
