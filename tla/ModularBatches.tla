--------------------------- MODULE ModularBatches ---------------------------
(***************************************************************************)
(* The operations of ModularInt on single numbers against the integers,    *)
(* and its vector operations against those.  A behaviour evaluates one     *)
(* case and stops: a modulus, the lanes of a register for one left operand *)
(* and every right operand, or vectors of one length.                      *)
(***************************************************************************)
EXTENDS BatchArithmetic

CONSTANTS
    BatchModuli, \* the moduli whose products are checked
    MaxLength    \* bound: the length of a vector

VARIABLE case

ASSUME BatchCasesAssumption == BatchModuli \subseteq Moduli \ {1} /\ MaxLength \in Nat

Operations == {"add", "sub", "mul", "fma"}

ModulusCases == [op : {"modulus"}, m : Moduli]

LaneCases == UNION { [op : {"lanes"}, m : {m}, u : 0 .. m - 1] : m \in BatchModuli }

VectorCases ==
    [op : {"vectors"}, m : BatchModuli, len : 0 .. MaxLength, wide : BOOLEAN, avx2 : BOOLEAN]

Init == case = [op |-> "none"]

Next == case.op = "none" /\ case' \in ModulusCases \cup LaneCases \cup VectorCases

Spec == Init /\ [][Next]_case

-----------------------------------------------------------------------------
\* The three words of a product put together again, modulo p.
Assembled(words, p) ==
    (words.low + ((words.mid * HalfSize) % p) + (((words.high % p) * IntSize) % p)) % p

\* Scattered residues.
Residues(k, len, m) == [i \in 0 .. len - 1 |-> ((k + i) * (k + 3 * i) * 131 + 17 * i) % m]

\* Barrett reduction, with one conditional subtraction, is exact for every
\* modulus that ModularIntParams::Create accepts, over the whole range of
\* operands that the comments of modular_int.h admit: any Int for the
\* reduction, up to 4m for sums and for a constant product; the inverse by
\* exponentiation is one for every prime.
ModularIntExact ==
    case.op = "modulus" =>
        SumsExact(case.m) /\ ProductsExact(case.m) /\ InversesExact(case.m)

\* Every formula for the lanes of a register gives what the operation on a
\* single number gives, for all operands: sums and differences of either width,
\* products in doubles with their three roundings, and products of the narrow
\* types, with a number or with a constant.
LanesExact ==
    case.op = "lanes" =>
        LET m == case.m
            u == case.u
        IN  \A v \in 0 .. m - 1 :
                /\ \A wide \in BOOLEAN :
                       /\ BatchAddModAvx2(u, v, m, wide) = Add(u, v, m)
                       /\ BatchSubModAvx2(u, v, m, wide) = Sub(u, v, m)
                /\ FloatModulus(m) => BatchMulModAvx2Uint50(u, v, m) = Mul(u, v, m)
                /\ NarrowMulModAvx2(u, v, m) = Mul(u, v, m)
                /\ BatchMulConstantModAvx2(u, v, ConstantBarrett(v, m), m) = MulConstant(u, v, m)

\* The products of 64-bit lanes for the larger moduli are right modulo p and
\* stay below 2p, as do the sums they are used in, so that nothing that comes
\* after them overflows; the same goes for a product left in three words.
WideProductsCongruent ==
    case.op = "lanes" =>
        LET m == case.m
            u == case.u
            top == m + IntSize \div 4
        IN  \A v \in 0 .. m - 1 :
                /\ LET product == BatchMulModAvx2(u, v, m)
                       sum == BatchAddModAvx2(v, product, m, TRUE)
                   IN  /\ product % m = Mul(u, v, m) /\ product < 2 * m
                       /\ sum % m = FusedMulAdd(v, u, v, m) /\ sum < 2 * m
                /\ Assembled(BatchMulWithoutReduction(u, v, top), top) = (u * v) % top

\* A vector operation returns, at every place of a vector of every length, what
\* the operation on single numbers returns there, whether the build has AVX2 or
\* not and whether the place is in a whole register or in the rest, and refuses
\* vectors of different lengths.  (Of products by Barrett reduction only up to
\* multiples of m, which WideProductsExact is about.)
BatchesAgree ==
    case.op = "vectors" =>
        LET m == case.m
            xs == Residues(5, case.len, m)
            ys == Residues(11, case.len, m)
            zs == Residues(2, case.len, m)
            Same(op, got, i, y) ==
                LET one == One(op, xs[i], y, zs[i], m)
                IN  IF op \in {"add", "sub"} \/ FloatModulus(m) \/ ~case.wide
                    THEN got = one ELSE got % m = one
            Agree(op, done, y(_)) ==
                ~done.refused /\ \A i \in DOMAIN xs : Same(op, done.vec[i], i, y(i))
        IN  /\ \A op \in Operations :
                   /\ Agree(op, Batch(op, xs, ys, zs, m, case.wide, case.avx2), LAMBDA i : ys[i])
                   /\ Batch(op, xs, Residues(1, case.len + 1, m), zs, m, case.wide, case.avx2).refused
            /\ \A op \in {"add", "sub", "mul"} :
                   Agree(op, BatchWithScalar(op, xs, m - 1, m, case.wide, case.avx2),
                         LAMBDA i : m - 1)
            /\ BatchMulConstant(xs, ys, m).vec = [i \in DOMAIN xs |-> Mul(xs[i], ys[i], m)]
            /\ BatchFusedMulConstantAdd(xs, ys, zs, m).vec
                   = [i \in DOMAIN xs |-> FusedMulAdd(xs[i], ys[i], zs[i], m)]

\* The products of 64-bit lanes are those of single numbers, as
\* modular_int_test.cc expects of BatchMul: EXPECT_EQ of mul[i] and
\* expected_mul[i] for every modulus.
WideProductsExact ==
    case.op = "lanes" =>
        \A v \in 0 .. case.m - 1 : LaneProduct(case.u, v, case.m) = Mul(case.u, v, case.m)
=============================================================================
