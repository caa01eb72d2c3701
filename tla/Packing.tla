------------------------------ MODULE Packing ------------------------------
(***************************************************************************)
(* Packing d LWE ciphertexts into one RLWE ciphertext (lwes_to_rlwe.cc).   *)
(* The server knows the a halves of the LWE ciphertexts and of the packing *)
(* key in advance and does everything that depends only on them in         *)
(* PreprocessPack; the b halves arrive with a request.  Two online paths   *)
(* must agree: Pack, by ring operations, and MatrixPack, by one product    *)
(* with a matrix that PreprocessMatrixPack built.                          *)
(***************************************************************************)
EXTENDS Rlwe

CONSTANT MatCoeffBits \* the width of MatCoeffType

ASSUME PackingAssumption == Degree >= 4 /\ MatCoeffBits \in 1 .. CoeffBits

LogDegree == CHOOSE k \in 0 .. Degree : 2 ^ k = Degree

\* The automorphisms of the two halves of the Galois group, for k < d/2.
PowerG(k) == (5 ^ k) % (2 * Degree)

PowerGh(k) == (PowerG(k) * (2 * Degree - 1)) % (2 * Degree)

\* Where the odd power 2i + 1 stands among all of them.
OddIndex(power) == (power - 1) \div 2

\* The places of the reduction steps, 0 .. d/2 - 2.
Steps == 0 .. Degree \div 2 - 2

BitReversed(i, bits) ==
    MapThenSumSet(LAMBDA k : ((i \div 2 ^ k) % 2) * 2 ^ (bits - 1 - k), 0 .. bits - 1)

\* The twiddle factor of the first stage used in all of them.
SlipEvaluateNtt(c) ==
    LET Butterflies(before, len) ==
            LET half == len \div 2
                Twisted(x, j) == MonomialTimes(before[x], j)
            IN  Vector(Degree, LAMBDA x :
                    IF x % len < half
                    THEN PolyAdd(before[x], Twisted(x + half, x % len))
                    ELSE PolyAdd(before[x - half], PolyNegate(Twisted(x, (x % len) - half))))
        stage[k \in 0 .. LogDegree] ==
            IF k = 0 THEN Vector(Degree, LAMBDA x : c[BitReversed(x, LogDegree)])
            ELSE Butterflies(stage[k - 1], 2 ^ k)
    IN  stage[LogDegree]

\* The values of sum c[i] Z^i at Z = X^(2k), k = 0 .. d-1: Cooley-Tukey over
\* the ring, with powers of X^2 for roots of unity (EvaluateNttInPlace).
EvaluateNtt(c) ==
    LET Butterflies(before, len) ==
            LET half == len \div 2
                Twisted(x, j) == MonomialTimes(before[x], 2 * j * (Degree \div len))
            IN  Vector(Degree, LAMBDA x :
                    IF x % len < half
                    THEN PolyAdd(before[x], Twisted(x + half, x % len))
                    ELSE PolyAdd(before[x - half], PolyNegate(Twisted(x, (x % len) - half))))
        stage[k \in 0 .. LogDegree] ==
            IF k = 0 THEN Vector(Degree, LAMBDA x : c[BitReversed(x, LogDegree)])
            ELSE Butterflies(stage[k - 1], 2 ^ k)
    IN  stage[LogDegree]

-----------------------------------------------------------------------------
(* Preprocessing: everything that depends on the a halves only             *)

\* The a half of an LWE ciphertext as a polynomial in 1/X, divided by d.
ATilde(a) ==
    LET reversed == Poly(LAMBDA i : IF i = 0 THEN a[0] ELSE ToCoeff(-a[Degree - i]))
    IN  RightShift(LowBits(reversed, LogModulus), LogDegree)

\* sum_j aTilde_j(X^(2i+1)) X^j for every odd power, by one evaluation.
Aggregated(as) ==
    LET tildes == Vector(Degree, LAMBDA j : ATilde(as[j]))
        row(k) == Poly(LAMBDA j : tildes[j][k])
    IN  EvaluateNtt(Vector(Degree, LAMBDA k : MonomialTimes(row(k), k)))

Digits(p, gadget) == SignedGadgetInv(LowBits(p, LogModulus), LogModulus, gadget)

Automorphed(key, power) == Vector(Cardinality(DOMAIN key), LAMBDA k : Automorph(key[k], power))

InnerProduct(digits, key, gadget) ==
    InnerProductFft(digits, key, gadget.logDigit, LogModulus, TRUE)

\* The reduction runs from the last power of five down to the first; each step
\* switches the key of what has been accumulated and adds the next aggregate.
PreprocessPack(as, wG, wH, gadget) ==
    LET last == Degree \div 2 - 1
        Reduced(hat) ==
            LET HatG(i) == hat[OddIndex(PowerG(i))]
                HatGh(i) == hat[OddIndex(PowerGh(i))]
                Step(i, after) ==
                    LET dG == Digits(after.g, gadget)
                        dGh == Digits(after.gh, gadget)
                    IN  [g |-> PolyAdd(HatG(i),
                                   InnerProduct(dG, Automorphed(wG, PowerG(i)), gadget)),
                         gh |-> PolyAdd(HatGh(i),
                                    InnerProduct(dGh, Automorphed(wG, PowerGh(i)), gadget)),
                         tG |-> (i :> dG) @@ after.tG,
                         tGh |-> (i :> dGh) @@ after.tGh]
                reduce[i \in 0 .. last] ==
                    IF i = last
                    THEN [g |-> HatG(i), gh |-> HatGh(i), tG |-> <<>>, tGh |-> <<>>]
                    ELSE Step(i, reduce[i + 1])
            IN  reduce[0]
        Joined(r) ==
            LET tH == Digits(r.gh, gadget)
            IN  [aTildeAgg |-> LowBits(PolyAdd(r.g, InnerProduct(tH, wH, gadget)), LogModulus),
                 tG |-> r.tG, tGh |-> r.tGh, tH |-> tH]
    IN  Joined(Reduced(Aggregated(as)))

\* The two halves of the Galois group exchanged.
SlipBuildPreprocessMatrix(prep, numDigits) ==
    LET block(l) ==
            LET Placed(i) ==
                    IF \E j \in Steps : OddIndex(PowerGh(j)) = i
                    THEN prep.tG[CHOOSE j \in Steps : OddIndex(PowerGh(j)) = i][l]
                    ELSE IF \E j \in Steps : OddIndex(PowerG(j)) = i
                    THEN prep.tGh[CHOOSE j \in Steps : OddIndex(PowerG(j)) = i][l]
                    ELSE Zero
                values == EvaluateNtt(Vector(Degree, Placed))
            IN  Vector(Degree, LAMBDA c : MonomialTimes(values[c], c))
        blocks == Vector(numDigits, block)
    IN  Vector(Degree, LAMBDA r : Vector(numDigits * Degree, LAMBDA col :
            Signed(blocks[col \div Degree][col % Degree][r], MatCoeffBits)))

\* One d x d block for each digit: column c holds the coefficients of
\* X^c sum_i t_i X^(2ci), where t_i is the digit polynomial that belongs to the
\* odd power 2i + 1.  The entries are centred modulo q and cut to MatCoeffType.
BuildPreprocessMatrix(prep, numDigits) ==
    LET block(l) ==
            LET Placed(i) ==
                    IF \E j \in Steps : OddIndex(PowerG(j)) = i
                    THEN prep.tG[CHOOSE j \in Steps : OddIndex(PowerG(j)) = i][l]
                    ELSE IF \E j \in Steps : OddIndex(PowerGh(j)) = i
                    THEN prep.tGh[CHOOSE j \in Steps : OddIndex(PowerGh(j)) = i][l]
                    ELSE Zero
                values == EvaluateNtt(Vector(Degree, Placed))
            IN  Vector(Degree, LAMBDA c : MonomialTimes(values[c], c))
        Centred(x) == IF x >= 2 ^ (LogModulus - 1) THEN ToCoeff(x - 2 ^ LogModulus) ELSE x
        blocks == Vector(numDigits, block)
    IN  Vector(Degree, LAMBDA r : Vector(numDigits * Degree, LAMBDA col :
            Signed(Centred(blocks[col \div Degree][col % Degree][r]), MatCoeffBits)))

PreprocessMatrixPack(as, wG, wH, gadget) ==
    LET WithMatrix(prep) ==
            [aTildeAgg |-> prep.aTildeAgg, tH |-> prep.tH,
             matrix |-> BuildPreprocessMatrix(prep, gadget.numDigits)]
    IN  WithMatrix(PreprocessPack(as, wG, wH, gadget))

-----------------------------------------------------------------------------
(* Online: the b halves                                                    *)

Pack(b, yG, yH, prep, gadget) ==
    LET sum[j \in -1 .. Degree \div 2 - 2] ==
            IF j = -1 THEN LowBits(b, LogModulus)
            ELSE LET switched ==
                         PolyAdd(InnerProduct(prep.tG[j], Automorphed(yG, PowerG(j)), gadget),
                                 InnerProduct(prep.tGh[j], Automorphed(yG, PowerGh(j)), gadget))
                 IN  LowBits(PolyAdd(sum[j - 1], switched), LogModulus)
        total == PolyAdd(sum[Degree \div 2 - 2], InnerProduct(prep.tH, yH, gadget))
    IN  Ciphertext(prep.aTildeAgg, LowBits(total, LogModulus))

FinalizeMatrixPack(b, partial, yH, prep, gadget) ==
    LET sum == LowBits(PolyAdd(b, partial), LogModulus)
    IN  Ciphertext(prep.aTildeAgg,
                   LowBits(PolyAdd(sum, InnerProduct(prep.tH, yH, gadget)), LogModulus))

\* The key as one vector of numDigits * d coefficients.
Flattened(key) ==
    Vector(Cardinality(DOMAIN key) * Degree, LAMBDA m : key[m \div Degree][m % Degree])

\* The product of a matrix, given by its rows, with a vector of CoeffType.
Product(matrix, vec) ==
    Vector(Cardinality(DOMAIN matrix), LAMBDA r :
        ToCoeff(MapThenSumSet(LAMBDA c : ToCoeff(matrix[r][c] * vec[c]), DOMAIN vec)))

MatrixPack(b, yG, yH, prep, gadget) ==
    FinalizeMatrixPack(b, Product(prep.matrix, Flattened(yG)), yH, prep, gadget)
=============================================================================
