---------------------------- MODULE Polynomials ----------------------------
(***************************************************************************)
(* Polynomial<CoeffType>: vectors of Degree unsigned coefficients of       *)
(* CoeffBits bits, read as elements of Z[X]/(X^Degree + 1) (polynomial.cc, *)
(* polynomial_fft.cc).  Coefficients wrap modulo 2^CoeffBits and are only  *)
(* brought below a ring modulus where the code calls LowBits, so the same  *)
(* ring element has several representations.  A negative number is kept in *)
(* two's complement.                                                       *)
(*                                                                         *)
(* The transforms themselves are abstracted: an NTT product is the exact   *)
(* product over the integers, reduced to CoeffBits bits, and an FFT with   *)
(* its rounding is the exact product of the chunks it is given.            *)
(***************************************************************************)
EXTENDS Integers, FiniteSetsExt, Functions, TLC

CONSTANTS
    Degree,    \* d, a power of two
    CoeffBits, \* the width of CoeffType
    ChunkBits  \* chunk_bits of the chunked product, 20 in the code

ASSUME PolynomialsAssumption ==
    /\ Degree \in Nat \ {0} /\ \E k \in 0 .. Degree : Degree = 2 ^ k
    /\ CoeffBits \in Nat \ {0}
    /\ ChunkBits \in Nat \ {0}

Positions == 0 .. Degree - 1

\* The function itself; the comparison makes the model checker tabulate it.
Tabulated(f) == CHOOSE g \in {f} : g = g

\* The polynomial with the given coefficients.
Poly(Coeff(_)) == Tabulated([i \in Positions |-> Coeff(i)])

\* A vector of values numbered from zero.
Vector(n, Entry(_)) == Tabulated([i \in 0 .. n - 1 |-> Entry(i)])

Zero == Poly(LAMBDA i : 0)

SumOf(f(_), n) == SumFunctionOnSet([k \in 0 .. n - 1 |-> f(k)], 0 .. n - 1)

ToCoeff(x) == x % 2 ^ CoeffBits

\* A left shift within CoeffType.
ShiftLeft(x, amount) ==
    IF amount >= CoeffBits THEN 0 ELSE (x % 2 ^ (CoeffBits - amount)) * 2 ^ amount

\* The number that the low bits of a coefficient stand for in two's complement.
Signed(x, bits) ==
    LET low == x % 2 ^ bits IN IF low >= 2 ^ (bits - 1) THEN low - 2 ^ bits ELSE low

PolyAdd(p, r) == Poly(LAMBDA i : ToCoeff(p[i] + r[i]))

PolyNegate(p) == Poly(LAMBDA i : ToCoeff(-p[i]))

RightShift(p, amount) == Poly(LAMBDA i : p[i] \div 2 ^ amount)

LowBits(p, amount) == Poly(LAMBDA i : p[i] % 2 ^ amount)

Rescale(p, from, to) ==
    Poly(LAMBDA i : ToCoeff((p[i] * 2 ^ to + 2 ^ from \div 2) \div 2 ^ from))

\* The sign of a wrapped power dropped.
SlipAutomorph(p, power) ==
    Poly(LAMBDA j : p[CHOOSE i \in Positions : (i * power) % Degree = j])

\* X |-> X^power for an odd power, a signed permutation of the coefficients.
Automorph(p, power) ==
    Poly(LAMBDA j :
        LET i == CHOOSE i \in Positions : (i * power) % Degree = j
        IN  IF (i * power) % (2 * Degree) >= Degree THEN ToCoeff(-p[i]) ELSE p[i])

\* X^power p for 0 <= power < Degree (MultiplyByXPower of lwes_to_rlwe.cc).
MonomialTimes(p, power) ==
    Poly(LAMBDA i : IF i < power THEN ToCoeff(-p[Degree - power + i]) ELSE p[i - power])

-----------------------------------------------------------------------------
(* Gadget decompositions.  A gadget is a record [logDigit, numDigits].     *)

\* The low bits that an approximate decomposition rounds away.
Rounded(p, shift) ==
    IF shift > 0
    THEN Poly(LAMBDA i : ToCoeff((p[i] + 2 ^ (shift - 1)) \div 2 ^ shift))
    ELSE p

\* Digits in [0, 2^logDigit).
GadgetInv(p, logModulus, gadget) ==
    LET rounded == Rounded(p, logModulus - gadget.numDigits * gadget.logDigit)
    IN  Vector(gadget.numDigits,
               LAMBDA k : LowBits(RightShift(rounded, k * gadget.logDigit), gadget.logDigit))

\* The carry into the next digit forgotten.
SlipSignedGadgetInv(p, logModulus, gadget) ==
    LET rounded == Rounded(p, logModulus - gadget.numDigits * gadget.logDigit)
        digits == [k \in 0 .. gadget.numDigits - 1 |-> RightShift(rounded, k * gadget.logDigit)]
    IN  Vector(gadget.numDigits,
               LAMBDA k : Poly(LAMBDA i : ToCoeff(Signed(digits[k][i], gadget.logDigit))))

\* Digits in [-2^(logDigit-1), 2^(logDigit-1)), each borrowing from the next;
\* what is borrowed from beyond the last digit is dropped.
SignedGadgetInv(p, logModulus, gadget) ==
    LET base == 2 ^ gadget.logDigit
        Following(digits) ==
            Poly(LAMBDA i :
                (digits[i] \div base) + (IF digits[i] % base >= base \div 2 THEN 1 ELSE 0))
        rest[k \in 0 .. gadget.numDigits - 1] ==
            IF k = 0
            THEN Rounded(p, logModulus - gadget.numDigits * gadget.logDigit)
            ELSE Following(rest[k - 1])
    IN  Vector(gadget.numDigits,
               LAMBDA k : LET digits == rest[k]
                          IN  Poly(LAMBDA i : ToCoeff(Signed(digits[i], gadget.logDigit))))

-----------------------------------------------------------------------------
(* Products                                                                *)

\* Coefficient j of the product of two polynomials in Z[X]/(X^d + 1).
NegacyclicAt(p, r, j) ==
    SumFunctionOnSet(
        [x \in Positions |-> IF x <= j THEN p[x] * r[j - x] ELSE -(p[x] * r[Degree + j - x])],
        Positions)

\* A ternary coefficient as ToNtt reads it: whatever exceeds one is minus one.
Ternary(x) == IF x > 1 THEN -1 ELSE x

\* Polynomial::Mult by a ternary polynomial in NTT form.
NttMult(p, s) ==
    LET signed == Poly(LAMBDA y : Ternary(s[y]))
    IN  Poly(LAMBDA j : ToCoeff(NegacyclicAt(p, signed, j)))

NumChunks(bits) ==
    LET chunks(b) == (b + ChunkBits - 1) \div ChunkBits
    IN  IF chunks(bits) > chunks(CoeffBits) THEN chunks(CoeffBits) ELSE chunks(bits)

Chunk(x, c) == (x \div 2 ^ (ChunkBits * c)) % 2 ^ ChunkBits

\* The sign of the operand lost.
SlipSignedChunk(x, c, bits, isSigned) == Chunk(x, c)

\* The last chunk of a signed operand of the given width is sign-extended.
SignedChunk(x, c, bits, isSigned) ==
    IF isSigned /\ c = NumChunks(bits) - 1
    THEN Signed(Chunk(x, c), bits - ChunkBits * c)
    ELSE Chunk(x, c)

\* The chunks whose product does not reach below the width of a coefficient.
LeftOut(a, b) == ChunkBits * (a + b) >= CoeffBits

\* The chunks of every coefficient of a vector of polynomials.
InChunks(u, bits, isSigned) ==
    Vector(NumChunks(bits), LAMBDA a : Tabulated([i \in DOMAIN u |->
        Poly(LAMBDA x : SignedChunk(u[i][x], a, bits, isSigned))]))

\* Coefficient j of the exact convolution of two chunks of the vectors, folded
\* negacyclically.
ConvolutionAt(p, r, j) ==
    SumFunctionOnSet([i \in DOMAIN p |-> NegacyclicAt(p[i], r[i], j)], DOMAIN p)

\* The same, back at the place of the chunks.
ShiftedAt(left, right, a, b, j) ==
    IF LeftOut(a, b) THEN 0
    ELSE ShiftLeft(ConvolutionAt(left[a], right[b], j), ChunkBits * (a + b))

RowSumAt(left, right, a, j) ==
    SumFunctionOnSet([b \in DOMAIN right |-> ShiftedAt(left, right, a, b, j)], DOMAIN right)

SumOfPairs(left, right) ==
    Poly(LAMBDA j :
        ToCoeff(SumFunctionOnSet([a \in DOMAIN left |-> RowSumAt(left, right, a, j)],
                                 DOMAIN left)))

\* The inner product of two vectors of polynomials, one convolution for each pair
\* of chunks.
InnerProductFft(u, v, uBits, vBits, uIsSigned) ==
    SumOfPairs(InChunks(u, uBits, uIsSigned), InChunks(v, vBits, FALSE))

MultFft(p, r) == InnerProductFft(<<p>>, <<r>>, CoeffBits, CoeffBits, FALSE)
=============================================================================
