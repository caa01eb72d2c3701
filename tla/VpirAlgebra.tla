----------------------------- MODULE VpirAlgebra -----------------------------
(***************************************************************************)
(* A verified lookup with its arithmetic (vpir_client.cc, vpir_server.cc,  *)
(* vpir_preprocessing_server.h).  The database is a matrix of Ell * Degree *)
(* rows and one column for each entry; the answer x to a request u is its  *)
(* product with the query, packed.  Offline the client draws a binary C    *)
(* and learns Z = C DB through the inner PIR protocol, unseen; online it   *)
(* accepts x if [Z Z'] u = C x.                                            *)
(*                                                                         *)
(* The inner protocol is an instance of PirAlgebra of its own, with other  *)
(* moduli and another gadget: its entries are the rows of the database,    *)
(* cut into shards of d, its requests encrypt the rows of C, and a row of  *)
(* Z is what one lookup returns, modulo the inner plaintext modulus.       *)
(*                                                                         *)
(* local stands for LocalFinalize: the client keeps the second half of the *)
(* packing key and finishes the packing itself.                            *)
(***************************************************************************)
EXTENDS PirAlgebra

CONSTANTS
    VpirEntries,      \* N
    Ell,              \* shards of an entry
    Kappa,            \* rows of C
    \* the inner protocol's CoeffBits, PlaintextModulus and so on
    ZCoeffBits, ZPlaintextModulus, ZLogModulus, ZLogModulus1, ZLogModulus2, ZPackGadget

\* VpirParams::Create requires whole blocks of d entries.
ASSUME VpirAlgebraAssumption ==
    /\ VpirEntries \in Nat \ {0} /\ VpirEntries % Degree = 0
    /\ Ell \in Nat \ {0} /\ Kappa \in Nat \ {0}

Blocks == VpirEntries \div Degree

EntrySize == Ell * Degree

\* The z_pir_params of VpirParams::Create: one entry for each row of the
\* database, of as many shards as the row has blocks, without a second dimension.
Z(modulus) == INSTANCE PirAlgebra WITH
    CoeffBits <- ZCoeffBits, LogModulus <- ZLogModulus,
    LogModulus1 <- ZLogModulus1, LogModulus2 <- ZLogModulus2, PlaintextModulus <- modulus,
    NumEntries <- EntrySize, InterpolationDegree <- 1, EntrySizeMultiple <- Blocks,
    PackGadget <- ZPackGadget, EvalGadget <- [logDigit |-> 0, numDigits |-> 0]

\* The samples of a request to each of the two servers.
VpirSamples == Blocks + 2 * PackGadget.numDigits

ZSamples == Ell + 2 * ZPackGadget.numDigits

\* Both servers expand the same seed: the same draws, each masked to the width
\* of its modulus.
SampleA(draws, logModulus) ==
    Vector(Cardinality(DOMAIN draws), LAMBDA k : LowBits(draws[k], logModulus))

-----------------------------------------------------------------------------
(* Matrices of CoeffType, never condensed                                  *)

CoeffMatrix(rows, cols, At(_, _)) ==
    Matrix("CoeffType", rows, cols,
           Vector(rows * cols, LAMBDA x : At(x \div cols, x % cols)))

MatrixMultiply(a, b) ==
    CoeffMatrix(a.rows, b.cols, LAMBDA i, j :
        ToCoeff(MapThenSumSet(LAMBDA k : ToCoeff(Entry(a, i, k) * Entry(b, k, j)),
                              0 .. a.cols - 1)))

\* The entries of a matrix of any kind as coefficients.
MatrixCast(m) ==
    CoeffMatrix(m.rows, m.cols, LAMBDA i, j :
        ToCoeff(IF m.condensed
                THEN LET n == Kinds[m.kind]
                     IN  Unpacked(m.kind, m.data[i * (m.cols \div n) + j \div n], j % n)
                ELSE Entry(m, i, j)))

HorizontalConcatenate(left, right) ==
    CoeffMatrix(left.rows, left.cols + right.cols, LAMBDA i, j :
        IF j < left.cols THEN Entry(left, i, j) ELSE Entry(right, i, j - left.cols))

\* The negacyclic matrices of the a components, one below the other.
ExpandAMatrix(as) ==
    CoeffMatrix(Cardinality(DOMAIN as) * Degree, Degree, LAMBDA x, j :
        LET a == as[x \div Degree]
            i == x % Degree
        IN  IF i >= j THEN a[i - j] ELSE ToCoeff(-a[Degree + i - j]))

-----------------------------------------------------------------------------
(* The preprocessing server and the online server                          *)

TransposeDbMatrix(raw) ==
    Matrix(DbKind, EntrySize, VpirEntries,
           Vector(EntrySize * VpirEntries, LAMBDA x :
               raw[(x % VpirEntries) * EntrySize + x \div VpirEntries]))

\* The a halves of the packing key follow those of the query.
PackingA(stream, half) ==
    LET n == PackGadget.numDigits IN Vector(n, LAMBDA k : stream[Blocks + half * n + k])

CondensedDb(db) ==
    IF db.cols % SimdMultiple = 0 /\ CanCondense(db) THEN CreateCondensed(db) ELSE db

\* The inner server's data: its database is that of the outer one, row by row.
ZPreprocess(db, draws, modulus) ==
    Z(modulus)!Preprocess(db.data, SampleA(draws, ZLogModulus))

\* VpirPreprocessingServer::Preprocess, given its transposed database and the
\* data of the inner server.
VpirPreprocess(db, draws, zData) ==
    LET stream == SampleA(draws, LogModulus)
        Data(hint) ==
            [db |-> CondensedDb(db), hint |-> hint, seed |-> draws, z |-> zData,
             outputs |-> Vector(Ell, LAMBDA k :
                 PackOutput(Vector(Degree, LAMBDA r : hint[k * Degree + r]),
                            PackingA(stream, 0), PackingA(stream, 1)))]
    IN  Data(ComputeHintMatrix(db, Vector(Blocks, LAMBDA k : stream[k]),
                               EntryBits(DbKind), CoeffBits, SafeN))

\* VpirServer::Create and what it requires.
VpirCanCreate(data, modulus) ==
    /\ data.db.rows = EntrySize /\ data.db.cols = VpirEntries
    /\ Size(data.outputs) = Ell
    /\ Z(modulus)!CanCreate(data.z)

VpirCreateServer(data, modulus) ==
    [db |-> data.db, outputs |-> data.outputs, hint |-> data.hint, seed |-> data.seed,
     pack |-> VerticalConcatenate(Vector(Ell, LAMBDA k : data.outputs[k].matrix)),
     z |-> Z(modulus)!CreateServer(data.z)]

\* Row by row the negacyclic matrices of the digits that the last step of the
\* packing multiplies with the second half of the key, sign-extended.
DigitMatrix(outputs) ==
    LET n == PackGadget.numDigits
        At(x, y) ==
            LET digits == outputs[x \div Degree].tH[y \div Degree]
                r == x % Degree
                c == y % Degree
                Digit(m) == Signed(digits[m], PackGadget.logDigit)
            IN  IF r >= c THEN Digit(r - c) ELSE -Digit(r + Degree - c)
    IN  Matrix("int32_t", EntrySize, n * Degree,
               Vector(EntrySize * n * Degree,
                      LAMBDA x : At(x \div (n * Degree), x % (n * Degree))))

\* The negacyclic wrap not negated.
SlipHPrimeMatrix(outputs, pack) ==
    LET n == PackGadget.numDigits
    IN  HorizontalConcatenate(MatrixCast(pack),
            CoeffMatrix(EntrySize, n * Degree, LAMBDA x, y :
                ToCoeff(Signed(outputs[x \div Degree].tH[y \div Degree]
                                      [((x % Degree) + Degree - (y % Degree)) % Degree],
                               PackGadget.logDigit))))

HPrimeMatrix(outputs, pack) ==
    HorizontalConcatenate(MatrixCast(pack), MatrixCast(DigitMatrix(outputs)))

\* The part of a vector that belongs to a shard.
ShardOf(vec, k) == Poly(LAMBDA m : vec[k * Degree + m])

\* VpirServer::ProcessResponse.
Answer(server, request, local) ==
    LET n == PackGadget.numDigits
        Half(half) == Vector(n, LAMBDA k : request.pack[half * n + k])
        Finished(b, partial) ==
            Vector(Ell, LAMBDA k :
                IF local THEN LowBits(PolyAdd(ShardOf(b, k), ShardOf(partial, k)), LogModulus)
                ELSE FinalizeMatrixPack(ShardOf(b, k), ShardOf(partial, k), Half(1),
                                        server.outputs[k], PackGadget).b)
    IN  Finished(Multiply(server.db, Flattened(request.first)),
                 Multiply(server.pack, Flattened(Half(0))))

\* VpirServer::ProcessResponseWithMatMul, the last step by a matrix as well.
AnswerWithMatMul(server, request, local) ==
    LET n == PackGadget.numDigits
        Half(half) == Vector(n, LAMBDA k : request.pack[half * n + k])
        b == Multiply(server.db, Flattened(request.first))
        partial == Multiply(server.pack, Flattened(Half(0)))
        last == IF local THEN Vector(EntrySize, LAMBDA m : 0)
                ELSE Multiply(CreateCondensed(DigitMatrix(server.outputs)), Flattened(Half(1)))
    IN  Vector(Ell, LAMBDA k :
            LowBits(PolyAdd(PolyAdd(ShardOf(b, k), ShardOf(partial, k)), ShardOf(last, k)),
                    LogModulus))

-----------------------------------------------------------------------------
(* The client                                                              *)

VpirRequest(index, stream, errors, secretKey, local) ==
    LET n == PackGadget.numDigits
        Encrypted(k) ==
            EncryptFromRlweSample(RlweSample(stream[k], errors[k], secretKey),
                Poly(LAMBDA j : IF k * Degree + j = index THEN 1 ELSE 0))
        Divided(key) ==
            [first |-> Vector(Blocks, LAMBDA k : Encrypted(k).b),
             pack |-> IF local THEN Vector(n, LAMBDA k : key[k]) ELSE key,
             lastH |-> IF local THEN Vector(n, LAMBDA k : key[n + k]) ELSE <<>>]
    IN  Divided(CreatePackingKey(stream, errors, secretKey, Blocks))

\* The inner request for row i of Z, row i of C being its vector, the server's
\* answer to it, and what the client makes of it.
ZRequest(c, i, draws, errors, secretKey, modulus) ==
    Z(modulus)!CreateRequestForVector(Vector(EntrySize, LAMBDA k : Entry(c, i, k)),
                                      SampleA(draws, ZLogModulus), errors, secretKey)

ZAnswer(server, request, modulus) == Z(modulus)!ProcessRequest(server.z, request)

ZRow(response, secretKey, modulus) == Z(modulus)!Retrieved(response, secretKey)

\* Equality of two matrices modulo q, of their first rows only.
SlipMatricesAgree(a, b) == \A x \in 0 .. a.cols - 1 : (a.data[x] - b.data[x]) % Modulus = 0

MatricesAgree(a, b) == \A x \in DOMAIN a.data : (a.data[x] - b.data[x]) % Modulus = 0

\* What the client has after GetProofPreprocessMaterial, for a C it drew: Z
\* from the rows it retrieved, Z' computed, and whether Z A = C H held.
ProofMaterial(server, c, stream, rows, local) ==
    LET H == CoeffMatrix(EntrySize, Degree, LAMBDA i, j : server.hint[i][j])
        With(z) ==
            [c |-> c, z |-> z,
             zPrime |-> MatrixMultiply(c,
                 IF local THEN MatrixCast(server.pack)
                 ELSE HPrimeMatrix(server.outputs, server.pack)),
             consistent |-> MatricesAgree(
                 MatrixMultiply(z, ExpandAMatrix(Vector(Blocks, LAMBDA k : stream[k]))),
                 MatrixMultiply(c, H))]
    IN  With(CoeffMatrix(Kappa, VpirEntries, LAMBDA i, j : rows[i][j] % Modulus))

\* [Z Z'] u = C x modulo q, u being all of the request.
VerifyResponse(proof, response, request) ==
    LET keys == Cardinality(DOMAIN request.pack)
        u == Flattened(Vector(Blocks + keys, LAMBDA k :
                 IF k < Blocks THEN request.first[k] ELSE request.pack[k - Blocks]))
        Equal(lhs, rhs) == \A i \in 0 .. Kappa - 1 : (lhs[i] - rhs[i]) % Modulus = 0
    IN  /\ Cardinality(DOMAIN response) = Ell
        /\ Equal(Multiply(HorizontalConcatenate(proof.z, proof.zPrime), u),
                 Multiply(proof.c, Flattened(response)))

DecryptResponse(outputs, lastH, response, secretKey, local) ==
    LET Complete(k) ==
            IF local
            THEN LowBits(PolyAdd(response[k], InnerProduct(outputs[k].tH, lastH, PackGadget)),
                         LogModulus)
            ELSE response[k]
        parts == Vector(Ell, LAMBDA k :
            Decrypt(Ciphertext(outputs[k].aTildeAgg, Complete(k)), secretKey))
    IN  Vector(EntrySize, LAMBDA m : parts[m \div Degree][m % Degree])
=============================================================================
