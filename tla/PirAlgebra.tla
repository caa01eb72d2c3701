----------------------------- MODULE PirAlgebra -----------------------------
(***************************************************************************)
(* One lookup with its arithmetic: what PreprocessingServer::Preprocess,   *)
(* PirServer and PirClient compute (preprocessing_server.h, pir_server.cc, *)
(* pir_client.cc), composed from the algorithms of the modules below.      *)
(* PirProtocol takes from here that decryption under matching a halves     *)
(* yields the payload; this module is where the payload comes from.        *)
(*                                                                         *)
(* The stream of a components and the errors are arguments: stream[k] and  *)
(* errors[k] are the polynomials of the kth RLWE sample of a request, in   *)
(* the order first dimension, second dimension, packing key.               *)
(***************************************************************************)
EXTENDS Packing, RowInterpolation, Matrices

CONSTANTS
    NumEntries, InterpolationDegree, EntrySizeMultiple,
    PackGadget, EvalGadget, \* the two gadgets, [logDigit, numDigits]
    DbKind,                 \* DbValueType: "uint8_t" or "uint16_t"
    SimdMultiple,           \* columns of the online matrix come in multiples
    SafeN                   \* blocks of the hint multiplied in one batch

\* What depends on the interpolation degree takes it as an argument: VpirAlgebra
\* has two instances of this module in one specification, and the model checker
\* evaluates a definition without arguments once for all of them.
Geometry(t) == INSTANCE PirParams WITH InterpolationDegree <- t,
                                       EvalDigits <- EvalGadget.numDigits,
                                       PackDigits <- PackGadget.numDigits

ASSUME AlgebraAssumption ==
    /\ Geometry(InterpolationDegree)!ParamsAssumption
    /\ PlaintextModulus <= 2 ^ EntryBits(DbKind)
    /\ SafeN \in Nat \ {0}

\* Where the samples of each part of a request stand in the stream.
SecondAt(t) == Geometry(t)!NumFirstDimSamples

PackAt(t) == SecondAt(t) + (IF Geometry(t)!HasSecondDim THEN 2 * EvalGadget.numDigits ELSE 0)

NumSamples(t) == PackAt(t) + 2 * PackGadget.numDigits

-----------------------------------------------------------------------------
(* The preprocessing server                                                *)

\* The coefficients of one shard of every entry of the raw database.
Shard(raw, k) ==
    Vector(NumEntries * Degree, LAMBDA m :
        raw[(m \div Degree) * Degree * EntrySizeMultiple + k * Degree + (m % Degree)])

\* Stage 1: each row of t entries interpolated, and the rows made columns.
InterpolateAndTranspose(shard) ==
    LET rows == Geometry(InterpolationDegree)!InterpolatedRows
        len == InterpolationDegree * Degree
        interpolated == Vector(rows, LAMBDA j :
            Interpolate(Vector(len, LAMBDA m : shard[j * len + m]),
                        InterpolationDegree, PlaintextModulus))
    IN  Matrix(DbKind, len, rows,
               Vector(len * rows, LAMBDA x : interpolated[x % rows][x \div rows]))

\* Columns of zeros on the right.
PadColumns(m, cols) ==
    Matrix(m.kind, m.rows, cols, Vector(m.rows * cols, LAMBDA x :
        IF x % cols < m.cols THEN Entry(m, x \div cols, x % cols) ELSE 0))

\* The pack matrix, given by its rows, as a matrix of int32_t.
PackMatrix(rows) ==
    LET cols == PackGadget.numDigits * Degree
    IN  CreateCondensed(Matrix("int32_t", Degree, cols,
            Vector(Degree * cols, LAMBDA x : rows[x \div cols][x % cols])))

\* A packing with its matrix condensed.
PackOutput(as, wG, wH) ==
    [PreprocessMatrixPack(as, wG, wH, PackGadget) EXCEPT !.matrix = PackMatrix(@)]

\* Stage 2: the hint of the database, cut into t blocks of d rows, each packed.
ComputePreprocessedOutputs(db, stream) ==
    LET firstA == Vector(SecondAt(InterpolationDegree), LAMBDA k : stream[k])
        n == PackGadget.numDigits
        at == PackAt(InterpolationDegree)
        wG == Vector(n, LAMBDA k : stream[at + k])
        wH == Vector(n, LAMBDA k : stream[at + n + k])
        hint == ComputeHintMatrix(PadColumns(db, Cardinality(DOMAIN firstA) * Degree), firstA,
                                  EntryBits(DbKind), CoeffBits, SafeN)
    IN  Vector(InterpolationDegree, LAMBDA i :
            PackOutput(Vector(Degree, LAMBDA r : hint[i * Degree + r]), wG, wH))

Online(db) ==
    LET padded == PadColumns(db, Geometry(InterpolationDegree)!DbCols)
    IN  IF CanCondense(padded) THEN CreateCondensed(padded) ELSE padded

\* The width that PirServer::SaveToFile gives an entry of the pack matrix.
PackBitsPerEntry(gadget) == gadget.logDigit + LogDegree

\* PreprocessingServer::Preprocess: for each shard its matrix and its t packings.
Preprocess(raw, stream) ==
    LET at == SecondAt(InterpolationDegree)
        Data(dbs) ==
            [dbMatrices |-> Vector(EntrySizeMultiple, LAMBDA k : Online(dbs[k])),
             outputs |-> Vector(EntrySizeMultiple,
                                LAMBDA k : ComputePreprocessedOutputs(dbs[k], stream)),
             secondA |-> Vector(PackAt(InterpolationDegree) - at, LAMBDA k : stream[at + k])]
    IN  Data(Vector(EntrySizeMultiple, LAMBDA k : InterpolateAndTranspose(Shard(raw, k))))

Size(vec) == Cardinality(DOMAIN vec)

\* What PirServer::Create requires of preprocessed data.
CanCreate(data) ==
    LET t == InterpolationDegree
    IN  /\ Size(data.dbMatrices) = EntrySizeMultiple
        /\ data.dbMatrices[0].cols >= Geometry(t)!InterpolatedRows
        /\ \A k \in DOMAIN data.dbMatrices :
               /\ data.dbMatrices[k].rows = t * Degree
               /\ data.dbMatrices[k].cols = data.dbMatrices[0].cols
        /\ Size(data.outputs) = EntrySizeMultiple
        /\ \A k \in DOMAIN data.outputs : Size(data.outputs[k]) = t
        /\ Geometry(t)!HasSecondDim => Size(data.secondA) = 2 * EvalGadget.numDigits

\* PirServer::Create: the shards stacked, and their pack matrices.
CreateServer(data) ==
    LET t == InterpolationDegree
    IN  [db |-> VerticalConcatenate(data.dbMatrices),
         pack |-> VerticalConcatenate(
             Vector(EntrySizeMultiple * t, LAMBDA x : data.outputs[x \div t][x % t].matrix)),
         outputs |-> data.outputs, secondA |-> data.secondA]

-----------------------------------------------------------------------------
(* The client                                                              *)

Samples(stream, errors, secretKey, from, count) ==
    Vector(count, LAMBDA k : RlweSample(stream[from + k], errors[from + k], secretKey))

\* The b halves of encryptions of the unit vector, the last one cut short.
CreateFirstDimensionQuery(index, stream, errors, secretKey) ==
    LET chunks == Geometry(InterpolationDegree)!NumFirstDimSamples
        rows == Geometry(InterpolationDegree)!InterpolatedRows
        samples == Samples(stream, errors, secretKey, 0, chunks)
        unit == Geometry(InterpolationDegree)!UnitVector(index)
        encrypted == Vector(chunks, LAMBDA k :
            EncryptFromRlweSample(samples[k], Poly(LAMBDA j :
                IF k * Degree + j \in DOMAIN unit THEN unit[k * Degree + j] ELSE 0)))
    IN  Vector(rows, LAMBDA r : encrypted[r \div Degree].b[r % Degree])

\* The b halves of an RGSW encryption of the column's monomial.
CreateSecondDimensionQuery(index, stream, errors, secretKey) ==
    LET n == EvalGadget.numDigits
        samples == Samples(stream, errors, secretKey, SecondAt(InterpolationDegree), 2 * n)
        col == Geometry(InterpolationDegree)!ColOf(index)
        monomial == Geometry(InterpolationDegree)!Monomial(col)
        message == Poly(LAMBDA i :
            IF i # monomial.pos THEN 0 ELSE IF monomial.neg THEN ToRing(-1) ELSE 1)
        rgsw == EncryptRgsw(EvalGadget, samples, Vector(n, LAMBDA k : samples[n + k]),
                            secretKey, message)
    IN  Vector(2 * n, LAMBDA k : IF k < n THEN rgsw.u[k].b ELSE rgsw.v[k - n].b)

\* Key switching keys for the two generators of the Galois group, from the
\* samples that begin at the given place of the stream.
CreatePackingKey(stream, errors, secretKey, at) ==
    LET n == PackGadget.numDigits
        samples == Samples(stream, errors, secretKey, at, 2 * n)
        ksmG == EncryptGadget(PackGadget, samples, Automorph(secretKey, 5))
        ksmH == EncryptGadget(PackGadget, Vector(n, LAMBDA k : samples[n + k]),
                              Automorph(secretKey, 2 * Degree - 1))
    IN  Vector(2 * n, LAMBDA k : IF k < n THEN ksmG[k].b ELSE ksmH[k - n].b)

\* A request for any combination of the rows: a whole vector encrypted in the
\* first dimension, without a second one.
CreateRequestForVector(vec, stream, errors, secretKey) ==
    LET chunks == Cardinality(DOMAIN vec) \div Degree
        samples == Samples(stream, errors, secretKey, 0, chunks)
        encrypted == Vector(chunks, LAMBDA k :
            EncryptFromRlweSample(samples[k], Poly(LAMBDA j : vec[k * Degree + j])))
    IN  [first |-> Vector(chunks * Degree, LAMBDA r : encrypted[r \div Degree].b[r % Degree]),
         second |-> <<>>,
         pack |-> CreatePackingKey(stream, errors, secretKey, chunks)]

CreateRequest(index, stream, errors, secretKey) ==
    [first |-> CreateFirstDimensionQuery(index, stream, errors, secretKey),
     second |-> IF Geometry(InterpolationDegree)!HasSecondDim
                THEN CreateSecondDimensionQuery(index, stream, errors, secretKey) ELSE <<>>,
     pack |-> CreatePackingKey(stream, errors, secretKey, PackAt(InterpolationDegree))]

-----------------------------------------------------------------------------
(* The online server                                                       *)

\* Horner's rule run from the wrong end.
SlipEvalPoly(coeffs, point) ==
    LET last == Cardinality(DOMAIN coeffs) - 1
        Plus(c, e) == Ciphertext(PolyAdd(c.a, e.a), PolyAdd(c.b, e.b))
        horner[i \in 0 .. last] ==
            IF i = 0 THEN coeffs[0]
            ELSE Plus(ExternalProduct(EvalGadget, horner[i - 1], point), coeffs[i])
    IN  horner[last]

\* Horner's rule, from the last coefficient down.
EvalPoly(coeffs, point) ==
    LET last == Cardinality(DOMAIN coeffs) - 1
        Plus(c, e) == Ciphertext(PolyAdd(c.a, e.a), PolyAdd(c.b, e.b))
        horner[i \in 0 .. last] ==
            IF i = last THEN coeffs[last]
            ELSE Plus(ExternalProduct(EvalGadget, horner[i + 1], point), coeffs[i])
    IN  horner[0]

\* The RGSW ciphertext put together from the stored a and the sent b halves.
EvaluationPoint(server, request) ==
    LET n == EvalGadget.numDigits
    IN  [u |-> Vector(n, LAMBDA k : Ciphertext(server.secondA[k], request.second[k])),
         v |-> Vector(n, LAMBDA k : Ciphertext(server.secondA[n + k], request.second[n + k]))]

\* The two halves of an answer, each brought to its own smaller modulus.
Switched(ct) == Ciphertext(Rescale(ct.a, LogModulus, LogModulus1),
                           Rescale(ct.b, LogModulus, LogModulus2))

\* PirServer::ProcessResponse: one product with the database, one with the
\* pack matrices, then for each shard t packed ciphertexts, their polynomial
\* evaluated at the column, and the two halves switched to smaller moduli.
ProcessRequest(server, request) ==
    LET n == PackGadget.numDigits
        yG == Vector(n, LAMBDA k : request.pack[k])
        yH == Vector(n, LAMBDA k : request.pack[n + k])
        padded == Vector(server.db.cols, LAMBDA c :
            IF c \in DOMAIN request.first THEN request.first[c] ELSE 0)
        b == Multiply(server.db, padded)
        partial == Multiply(server.pack, Flattened(yG))
        Part(vec, k, i) ==
            Poly(LAMBDA j : vec[(k * InterpolationDegree + i) * Degree + j])
        Packed(k) == Vector(InterpolationDegree, LAMBDA i :
            FinalizeMatrixPack(Part(b, k, i), Part(partial, k, i), yH,
                               server.outputs[k][i], PackGadget))
        Evaluated(k) == EvalPoly(Packed(k), EvaluationPoint(server, request))
    IN  Vector(EntrySizeMultiple, LAMBDA k : Switched(Evaluated(k)))

\* PirClient::ProcessResponse: the shards decrypted one after the other.
Retrieved(response, secretKey) ==
    LET parts == Vector(EntrySizeMultiple,
                        LAMBDA k : DecryptAfterModulusSwitch(response[k], secretKey))
    IN  Vector(EntrySizeMultiple * Degree, LAMBDA m : parts[m \div Degree][m % Degree])
=============================================================================
