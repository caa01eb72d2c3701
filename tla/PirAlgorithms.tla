---------------------------- MODULE PirAlgorithms ----------------------------
(***************************************************************************)
(* The algorithms of InsPIRe against what they are to compute.             *)
(*                                                                         *)
(* A behaviour evaluates one case and stops.  A case names an algorithm    *)
(* and its inputs; the inputs that are too large to enumerate are derived  *)
(* from a seed by a fixed formula, so that a run can be repeated.  Every   *)
(* property is about the cases of one algorithm and compares what the      *)
(* code computes with a definition that does not use the algorithm.        *)
(***************************************************************************)
EXTENDS Messages

CONSTANTS
    Seeds,       \* the seeds of the derived inputs
    DigitBlocks, \* the blocks of 2^10 values that are taken to digits
    Gadgets,     \* the gadgets of the decompositions that are checked
    RowLengths,  \* the interpolation degrees of the rows that are checked
    Lookups,     \* the indices that are looked up
    InnerModuli, \* plaintext moduli of the inner protocol, too small ones too
    VerifiedLookups \* and those that are looked up and verified

VARIABLE case

ASSUME CasesAssumption ==
    /\ Seeds \subseteq Nat /\ DigitBlocks \subseteq Nat /\ RowLengths \subseteq Nat
    /\ \A t \in RowLengths : InterpolationOK(Vector(t * Degree, LAMBDA i : 0), t, PlaintextModulus)
    /\ Lookups \subseteq Geometry(InterpolationDegree)!Entries
    /\ VerifiedLookups \subseteq 0 .. VpirEntries - 1

\* GadgetInv refuses others, and a digit is not as wide as its coefficient.
ASSUME GadgetsAssumption ==
    \A g \in Gadgets : g.numDigits \in Nat \ {0} /\ g.logDigit \in 1 .. CoeffBits - 1

\* A digit, an entry of the database and two bits more than a chunk fit a
\* coefficient.
ASSUME ProductsAssumption ==
    /\ PackGadget.logDigit \in 1 .. CoeffBits
    /\ EntryBits(DbKind) \in 1 .. CoeffBits
    /\ ChunkBits + 2 <= CoeffBits

\* What a power of two is, which TLC computes and the provers do not know.
ASSUME PowersAssumption ==
    /\ 2 ^ 0 = 1
    /\ \A k \in (1 .. 2 * CoeffBits) \cup (1 .. 2 * Degree) \cup (1 .. WordBits)
                  \cup UNION {1 .. g.numDigits * g.logDigit : g \in Gadgets} :
           2 ^ k = 2 * 2 ^ (k - 1)

NoCase == [op |-> "none"]

Cases ==
    [op : {"digits"}, gadget : Gadgets, block : DigitBlocks]
    \cup [op : {"product", "automorphism", "condensed", "hint"}, seed : Seeds]
    \cup [op : {"rlwe"}, seed : Seeds, sign : {-1, 1}]
    \cup [op : {"rgsw", "packing"}, gadget : Gadgets, seed : Seeds, noise : {0, 1}]
    \cup [op : {"row"}, t : RowLengths, seed : Seeds]
    \cup [op : {"lookup", "stored"}, index : Lookups]
    \cup [op : {"parameters"}, modulus : PowersOfTwo \cup {0}]
    \cup [op : {"wrapped"}, seed : Seeds, modulus : InnerModuli]
    \cup [op : {"storedVpir"}, index : VerifiedLookups]
    \cup [op : {"verified"}, index : VerifiedLookups, local : BOOLEAN]

Init == case = NoCase

Next == case = NoCase /\ case' \in Cases

Spec == Init /\ [][Next]_case

-----------------------------------------------------------------------------
(* Derived inputs *)

\* What the lowest digit of an approximate gadget stands for, and half of it.
Excluded(gadget) ==
    LET bits == LogModulus - gadget.numDigits * gadget.logDigit IN IF bits > 0 THEN bits ELSE 0

RoundingError(gadget) == 2 ^ Excluded(gadget) \div 2

Scattered(k, n) == (((k % 211) * (k % 211) * 131 + (k % 509) * 7919 + 4242) \div 3) % n

AnyPoly(k, n) == Poly(LAMBDA i : Scattered(k * Degree + i, n))

AnyPolys(k, count, n) == Vector(count, LAMBDA j : AnyPoly(k + j, n))

AnyKey(k) == SecretKey(Poly(LAMBDA i : Scattered(k + 31 * i, 3) - 1))

\* Errors of at most the given size.
AnyErrors(k, count, noise) ==
    Vector(count, LAMBDA j :
        Poly(LAMBDA i : Scattered(k + 17 * i + 83 * j, 2 * noise + 1) - noise))

AnyMatrix(kind, k, rows, cols, from, to) ==
    Matrix(kind, rows, cols,
           Vector(rows * cols, LAMBDA x : from + Scattered(k + x, to - from)))

AnyDatabase(k, size) == Vector(size, LAMBDA i : Scattered(k + i, PlaintextModulus))

\* The database and the draws of a verified lookup, the client's matrix C, and
\* the errors and the keys of the inner requests.
AnyRaw(k) == AnyDatabase(43 * k, VpirEntries * EntrySize)

AnyDraws(k) == AnyPolys(59 * k, Max({VpirSamples, ZSamples}), 2 ^ ZLogModulus)

AnyBinary(k) ==
    CoeffMatrix(Kappa, EntrySize, LAMBDA i, j : Scattered(k + 61 * (i * EntrySize + j), 2))

AnyZErrors(k) == Vector(Kappa, LAMBDA i : AnyErrors(k + 7 * i, ZSamples, 1))

AnyZKeys(k) ==
    Vector(Kappa, LAMBDA i :
        Z(ZPlaintextModulus)!SecretKey(Poly(LAMBDA j : Scattered(k + 31 * j + 5 * i, 3) - 1)))

\* The inner requests, answers and rows, one for each row of C.
ZRequests(c, draws, errors, keys, modulus) ==
    Vector(Kappa, LAMBDA i : ZRequest(c, i, draws, errors[i], keys[i], modulus))

ZAnswers(server, requests, modulus) ==
    Vector(Kappa, LAMBDA i : ZAnswer(server, requests[i], modulus))

ZRows(answers, keys, modulus) == Vector(Kappa, LAMBDA i : ZRow(answers[i], keys[i], modulus))

-----------------------------------------------------------------------------
(* Reference definitions *)

\* The product in Z[X]/(X^d + 1), coefficients modulo 2^CoeffBits.
Times(p, r) == Poly(LAMBDA j : ToCoeff(NegacyclicAt(p, r, j)))

\* The number with the given digits, at the places where EncryptGadget puts them.
Recomposed(digits, gadget) ==
    SumOf(LAMBDA k : digits[k] * 2 ^ GadgetShift(gadget, k), gadget.numDigits)

\* The polynomial sum row_k Z^k at Z = X^step, modulo p, where X^d = -1.
RowAt(row, t, step, p) ==
    LET Term(m, i) == LET power == ((m \div Degree) * step + (m % Degree)) % (2 * Degree)
                      IN  IF power = i THEN row[m] ELSE IF power = i + Degree THEN -row[m] ELSE 0
    IN  Poly(LAMBDA i : SumOf(LAMBDA m : Term(m, i), t * Degree) % p)

\* What the coefficient i of a packed ciphertext is to hold: b_i + <a_i, s>.
LwePhases(as, b, secretKey) ==
    Poly(LAMBDA i :
        (b[i] + SumOf(LAMBDA j : as[i][j] * Ternary(secretKey[j]), Degree)) % Modulus)

\* Operands of one chunk, and of one bit or two in another.
SignedWidths == {PackGadget.logDigit, ChunkBits + 1, ChunkBits + 2}

-----------------------------------------------------------------------------
(* What is evaluated for a case of packing *)

Packings(c) ==
    LET s == AnyKey(c.seed)
        n == c.gadget.numDigits
        errors == AnyErrors(c.seed, 2 * n, c.noise)
        as == AnyPolys(50 * c.seed, 2 * n, Modulus)
        samples == Samples(as, errors, s, 0, 2 * n)
        keyG == EncryptGadget(c.gadget, samples, Automorph(s, 5))
        keyH == EncryptGadget(c.gadget, Vector(n, LAMBDA k : samples[n + k]),
                              Automorph(s, 2 * Degree - 1))
        wG == Vector(n, LAMBDA k : keyG[k].a)
        yG == Vector(n, LAMBDA k : keyG[k].b)
        wH == Vector(n, LAMBDA k : keyH[k].a)
        yH == Vector(n, LAMBDA k : keyH[k].b)
        lwes == AnyPolys(91 * c.seed + 1000, Degree, Modulus)
        b == AnyPoly(3 * c.seed + 7, Modulus)
        Results(prep) ==
            [matrix |-> prep.matrix,
             byRing |-> Pack(b, yG, yH, PreprocessPack(lwes, wG, wH, c.gadget), c.gadget),
             byMatrix |-> MatrixPack(b, yG, yH, prep, c.gadget),
             key |-> s, phases |-> LwePhases(lwes, b, s)]
    IN  Results(PreprocessMatrixPack(lwes, wG, wH, c.gadget))

-----------------------------------------------------------------------------
(* Properties *)

\* The unsigned and the signed decomposition of every coefficient have digits
\* of the promised range and recompose to it at the places where EncryptGadget
\* puts the message: exactly modulo q when the gadget covers q, within half of
\* what an approximate gadget leaves out otherwise.
DigitsRecompose ==
    case.op = "digits" =>
        LET g == case.gadget
            base == 2 ^ g.logDigit
        IN  \A low \in 0 .. (2 ^ 10 \div Degree) - 1 :
                LET p == Poly(LAMBDA i : (case.block * 2 ^ 10 + low * Degree + i) % Modulus)
                    plain == GadgetInv(p, LogModulus, g)
                    signed == SignedGadgetInv(p, LogModulus, g)
                    Close(x, y) == Magnitude(Signed(x - y, LogModulus)) <= RoundingError(g)
                IN  \A i \in Positions :
                        LET digit(k) == Signed(signed[k][i], CoeffBits)
                        IN  /\ \A k \in 0 .. g.numDigits - 1 :
                                  /\ plain[k][i] \in 0 .. base - 1
                                  /\ digit(k) \in -(base \div 2) .. base \div 2 - 1
                            /\ Close(Recomposed(Vector(g.numDigits, LAMBDA k : plain[k][i]), g), p[i])
                            /\ Close(Recomposed(Vector(g.numDigits, LAMBDA k : digit(k)), g), p[i])

\* Cutting the coefficients into chunks and leaving out the pairs of chunks
\* that are too high loses nothing of a product: full operands, operands of
\* the width of q, and signed digits give the negacyclic product.
ChunkedProductExact ==
    case.op = "product" =>
        LET full == AnyPolys(7 * case.seed, 2, 2 ^ CoeffBits)
            low == AnyPolys(13 * case.seed, 2, Modulus)
            Sum(u, v) == Poly(LAMBDA j :
                ToCoeff(Times(u[0], v[0])[j] + Times(u[1], v[1])[j]))
        IN  /\ MultFft(full[0], full[1]) = Times(full[0], full[1])
            /\ InnerProductFft(full, low, CoeffBits, LogModulus, FALSE) = Sum(full, low)
            /\ \A bits \in SignedWidths :
                   LET digits == Vector(2, LAMBDA k : Poly(LAMBDA i :
                           ToCoeff(Scattered(case.seed * 5 + k * Degree + i, 2 ^ bits)
                                   - 2 ^ (bits - 1))))
                   IN  InnerProductFft(digits, low, bits, LogModulus, TRUE) = Sum(digits, low)

\* X |-> X^k is a ring homomorphism for every odd k, the maps compose, and the
\* cheap product with a monomial is the product with it.
AutomorphismsOfTheRing ==
    case.op = "automorphism" =>
        LET p == AnyPoly(3 * case.seed, 2 ^ CoeffBits)
            r == AnyPoly(5 * case.seed + 1, 2 ^ CoeffBits)
            odd == { 2 * i + 1 : i \in Positions }
        IN  /\ \A k \in odd :
                   /\ Automorph(Times(p, r), k) = Times(Automorph(p, k), Automorph(r, k))
                   /\ \A l \in odd : Automorph(Automorph(p, k), l)
                                         = Automorph(p, (k * l) % (2 * Degree))
            /\ \A k \in Positions :
                   MonomialTimes(p, k) = Times(p, Poly(LAMBDA i : IF i = k THEN 1 ELSE 0))

\* The row that replaces t entries evaluates, at the power of X that stands for
\* a column, to the entry of that column (db_row_interpolation.h).
RowsEvaluateToEntries ==
    case.op = "row" =>
        LET t == case.t
            row == Vector(t * Degree, LAMBDA i : Scattered(case.seed * 41 + i, PlaintextModulus))
            interpolated == Interpolate(row, t, PlaintextModulus)
        IN  \A col \in 0 .. t - 1 :
                RowAt(interpolated, t, ((2 * Degree) \div t) * col, PlaintextModulus)
                    = Poly(LAMBDA i : row[col * Degree + i])

\* Condensed matrices of every kind, alone and stacked, multiply as the plain
\* matrices they were made from do.
CondensedAgrees ==
    case.op = "condensed" =>
        \A kind \in DOMAIN Kinds :
            LET half == 2 ^ (EntryBits(kind) - 1)
                from == IF IsSignedKind(kind) THEN -half ELSE 0
                cols == 2 * Kinds[kind] * Lanes
                top == AnyMatrix(kind, case.seed, 2, cols, from, from + 2 * half)
                bottom == AnyMatrix(kind, case.seed * 3 + 100, 3, cols, from, from + 2 * half)
                vec == Vector(cols, LAMBDA c : Scattered(case.seed * 7 + c, Modulus))
                Stacked(above, below) ==
                    VerticalConcatenate(Vector(2, LAMBDA k : IF k = 0 THEN above ELSE below))
                stacked == Stacked(top, bottom)
                condensed == Stacked(CreateCondensed(top), CreateCondensed(bottom))
                Row(m, r) == ToCoeff(SumOf(LAMBDA c : Entry(m, r, c) * vec[c], cols))
            IN  /\ CanMultiply(condensed, vec)
                /\ Multiply(condensed, vec)
                       = Vector(5, LAMBDA r : IF r < 2 THEN Row(top, r) ELSE Row(bottom, r - 2))
                /\ Multiply(stacked, vec) = Multiply(condensed, vec)

\* The hint times the key is the database times what the a halves hide: the
\* rows of the hint are LWE a components of the rows of the answer.  A database
\* of one block has the same hint computed in one go.
HintCarriesTheKey ==
    case.op = "hint" =>
        LET s == AnyKey(case.seed)
            n == 3
            as == AnyPolys(case.seed * 11, n, Modulus)
            db == AnyMatrix(DbKind, case.seed * 17, 3, n * Degree, 0, 2 ^ EntryBits(DbKind))
            hint == ComputeHintMatrix(db, as, EntryBits(DbKind), CoeffBits, SafeN)
            hidden == Vector(n, LAMBDA k : NttMult(as[k], s))
            block == AnyMatrix(DbKind, case.seed * 7, 2, Degree, 0, 2 ^ EntryBits(DbKind))
        IN  /\ \A r \in 0 .. db.rows - 1 :
                   ToCoeff(SumOf(LAMBDA j : hint[r][j] * Ternary(s[j]), Degree))
                       = ToCoeff(SumOf(LAMBDA c :
                             Entry(db, r, c) * hidden[c \div Degree][c % Degree], n * Degree))
            /\ MulMatNegacyclic(block, as[0])
                   = ComputeHintMatrix(block, [k \in {0} |-> as[0]], EntryBits(DbKind), CoeffBits,
                                       SafeN)

\* A ciphertext decrypts to its message under any error that leaves half the
\* distance between two messages, also after its halves have been switched to
\* the smaller moduli, when the roundings are taken off the budget: one for
\* each of b and a s, and one for each coefficient of the key.
BudgetedNoiseDecrypts ==
    case.op = "rlwe" =>
        LET s == AnyKey(case.seed)
            budget == (Modulus - PlaintextModulus) \div (2 * PlaintextModulus)
            rounding == 2 ^ (LogModulus - LogModulus2)
                        + (Degree * 2 ^ (LogModulus - LogModulus1)) \div 2
            Encrypted(m, size) ==
                EncryptFromRlweSample(
                    RlweSample(AnyPoly(case.seed * 23, Modulus),
                               Poly(LAMBDA i : case.sign * size), s), m)
        IN  \A shift \in 0 .. PlaintextModulus - 1 :
                LET m == Poly(LAMBDA i : (i + shift) % PlaintextModulus)
                IN  /\ 0 <= budget => Decrypt(Encrypted(m, budget), s) = m
                    /\ rounding <= budget =>
                           DecryptAfterModulusSwitch(Switched(Encrypted(m, budget - rounding)), s)
                               = m

\* Multiplying a ciphertext with an RGSW encryption of +-X^k multiplies what it
\* encrypts by +-X^k: up to the products of the digits with the errors and to
\* what an approximate gadget rounds, and exactly when there is neither.
ExternalProductMultiplies ==
    case.op = "rgsw" =>
        LET s == AnyKey(case.seed + 5)
            g == case.gadget
            n == g.numDigits
            errors == AnyErrors(case.seed, 2 * n, case.noise)
            samples == Samples(AnyPolys(29 * case.seed, 2 * n, Modulus), errors, s, 0, 2 * n)
            ct == Ciphertext(AnyPoly(case.seed + 2, Modulus), AnyPoly(case.seed + 9, Modulus))
            bound == (Degree + 1) * RoundingError(g)
                     + case.noise * 2 * n * Degree * (2 ^ g.logDigit - 1)
        IN  \A k \in Positions : \A one \in {1, Modulus - 1} :
                LET message == Poly(LAMBDA i : IF i = k THEN one ELSE 0)
                    rgsw == EncryptRgsw(g, samples, Vector(n, LAMBDA j : samples[n + j]),
                                        s, message)
                    product == ExternalProduct(g, ct, rgsw)
                    moved == MonomialTimes(Phase(ct, s), k)
                IN  Distance(Phase(product, s),
                             IF one = 1 THEN moved ELSE PolyNegate(moved)) <= bound

\* Packing keeps the phases of the d LWE ciphertexts, coefficient by
\* coefficient: the division by d costs d - 1 for each of d coefficients of the
\* key, and each of the d - 1 key switches costs its rounding and the errors of
\* its digits.
PackingKeepsPhases ==
    case.op = "packing" =>
        LET g == case.gadget
            switch == RoundingError(g)
                      + case.noise * g.numDigits * 2 ^ (g.logDigit - 1)
            bound == (Degree - 1) * Degree * (1 + switch)
            Kept(done) == Distance(Phase(done.byRing, done.key), done.phases) <= bound
        IN  Kept(Packings(case))

\* The two online paths, by ring operations and by one matrix product, are the
\* same function.
PackingPathsAgree ==
    case.op = "packing" =>
        LET Agree(done) == done.byMatrix = done.byRing IN Agree(Packings(case))

\* The entries of the packing matrix fit into the logDigit + log2(d) bits that
\* SaveToFile gives them, signs included.
PackMatrixSurvivesSaving ==
    case.op = "packing" =>
        LET cols == case.gadget.numDigits * Degree
            bits == PackBitsPerEntry(case.gadget)
            Kept(entries) ==
                BitUnpackSigned(BitPack(entries, bits), Degree * cols, bits) = entries
            Entries(matrix) ==
                Vector(Degree * cols, LAMBDA x : matrix[x \div cols][x % cols])
        IN  Kept(Entries(Packings(case).matrix))

\* A lookup returns every shard of the entry it asks for, with errors in every
\* ciphertext, whatever the position of the entry: the row in a full or a cut
\* chunk of the query, the column at either sign of its monomial.
LookupReturnsEntry ==
    case.op = "lookup" =>
        LET size == EntrySizeMultiple * Degree
            samples == NumSamples(InterpolationDegree)
        IN  \A raw \in {AnyDatabase(case.index * 19, NumEntries * size)} :
            \A stream \in {AnyPolys(case.index * 37, samples, Modulus)} :
            \A s \in {AnyKey(case.index)} :
            \A request \in {CreateRequest(case.index, stream,
                                          AnyErrors(case.index, samples, 1), s)} :
            \A data \in {Preprocess(raw, stream)} :
            \A server \in {CreateServer(data)} :
            \A response \in {ProcessRequest(server, request)} :
                Retrieved(response, s) = Vector(size, LAMBDA i : raw[case.index * size + i])

\* Preprocessed data that was serialized and read back starts a server that
\* gives the very same answers, although a stored digit keeps only the low bits
\* of its two's complement; and data written under one modulus is never read
\* under another.
StoredDataAnswersAlike ==
    case.op = "stored" =>
        LET samples == NumSamples(InterpolationDegree)
            size == NumEntries * EntrySizeMultiple * Degree
        IN  \A stream \in {AnyPolys(case.index * 37, samples, Modulus)} :
            \A request \in {CreateRequest(case.index, stream,
                                          AnyErrors(case.index, samples, 1),
                                          AnyKey(case.index))} :
            \A data \in {Preprocess(AnyDatabase(case.index * 19, size), stream)} :
            \A proto \in {SerializePirPreprocessedData(data)} :
            \A loaded \in {DeserializePirPreprocessedData(proto)} :
                /\ \A bits \in 0 .. CoeffBits + 1 :
                       CanDeserialize(proto, bits) <=> bits = LogModulus
                /\ CanCreate(loaded)
                /\ ProcessRequest(CreateServer(loaded), request)
                       = ProcessRequest(CreateServer(data), request)

\* The message of a verified server, in one piece or in shards, keeps all that
\* an answer is computed from, but no server can be created from it: the inner
\* server that the proof needs has not been written.
StoredVpirDataIncomplete ==
    case.op = "storedVpir" =>
        LET modulus == ZPlaintextModulus
        IN  \A draws \in {AnyDraws(case.index)} :
            \A db \in {TransposeDbMatrix(AnyRaw(case.index))} :
            \A zData \in {ZPreprocess(db, draws, modulus)} :
            \A data \in {VpirPreprocess(db, draws, zData)} :
            \A proto \in {SerializeVpirPreprocessedData(data)} :
            \A loaded \in {DeserializeVpirPreprocessedData(proto)} :
            \A server \in {VpirCreateServer(data, modulus)} :
            \A again \in {VpirCreateServer([loaded EXCEPT !.z = zData], modulus)} :
            \A request \in {VpirRequest(case.index, SampleA(draws, LogModulus),
                                AnyErrors(case.index, VpirSamples, 1),
                                AnyKey(case.index), FALSE)} :
                /\ CanDeserializeVpir(proto, LogModulus)
                /\ VpirShardsReadable(VpirShards(data), LogModulus)
                /\ VpirFromShards(VpirShards(data)) = loaded
                /\ VpirCanCreate(data, modulus) /\ ~VpirCanCreate(loaded, modulus)
                /\ Answer(again, request, FALSE) = Answer(server, request, FALSE)
                /\ AnswerWithMatMul(again, request, FALSE) = Answer(server, request, FALSE)

\* Parameters that were accepted come back from their encoding, the moduli 0
\* that stand for the full width of a coefficient as well as 2^0, and are
\* accepted again.
ParametersSurviveStorage ==
    case.op = "parameters" =>
        \A modulus1, modulus2 \in PowersOfTwo \cup {0} : \A degree \in {1, 2, Degree} :
            LET p == [degree |-> degree, modulus |-> case.modulus,
                      modulus1 |-> modulus1, modulus2 |-> modulus2]
                Again(proto) == RlweParamsFromProto(proto) = p
            IN  RlweParamsOK(p) => Again(RlweParamsToProto(p))

\* A verified lookup from end to end: Z A = C H holds although Z went through
\* the inner protocol, both forms of the answer are the same, the answer is
\* accepted and decrypts to the entry; an answer that differs in one
\* coefficient is rejected if any row of C looks at that coefficient.
VerifiedLookupReturnsEntry ==
    case.op = "verified" =>
        LET modulus == ZPlaintextModulus
            Bent(x, m) ==
                [x EXCEPT ![m \div Degree][m % Degree] = (@ + 1) % Modulus]
        IN  \A draws \in {AnyDraws(case.index)} :
            \A stream \in {SampleA(draws, LogModulus)} :
            \A s \in {AnyKey(case.index)} :
            \A c \in {AnyBinary(case.index)} :
            \A zKeys \in {AnyZKeys(case.index)} :
            \A db \in {TransposeDbMatrix(AnyRaw(case.index))} :
            \A zData \in {ZPreprocess(db, draws, modulus)} :
            \A data \in {VpirPreprocess(db, draws, zData)} :
            \A server \in {VpirCreateServer(data, modulus)} :
            \A zRequests \in {ZRequests(c, draws, AnyZErrors(case.index), zKeys, modulus)} :
            \A zAnswers \in {ZAnswers(server, zRequests, modulus)} :
            \A proof \in {ProofMaterial(server, c, stream, ZRows(zAnswers, zKeys, modulus),
                                        case.local)} :
            \A request \in {VpirRequest(case.index, stream,
                                AnyErrors(case.index, VpirSamples, 1),
                                s, case.local)} :
            \A x \in {Answer(server, request, case.local)} :
                /\ proof.consistent
                /\ AnswerWithMatMul(server, request, case.local) = x
                /\ VerifyResponse(proof, x, request)
                /\ DecryptResponse(server.outputs, request.lastH, x, s, case.local)
                       = Vector(EntrySize, LAMBDA i : Entry(db, i, case.index))
                /\ \A m \in {0, Degree - 1, EntrySize - 1} :
                       (\E i \in 0 .. Kappa - 1 : Entry(c, i, m) = 1)
                           => ~VerifyResponse(proof, Bent(x, m), request)

\* Nothing ties the plaintext modulus of the inner protocol to the largest sum
\* that an entry of C DB can be.  The client refuses the preprocessed material
\* of a server whose sums wrapped, and takes all other: Z A = C H holds exactly
\* if no entry of C DB reaches the inner modulus.
WrappedProofRefused ==
    case.op = "wrapped" =>
        \A draws \in {AnyDraws(case.seed)} :
        \A stream \in {SampleA(draws, LogModulus)} :
        \A c \in {AnyBinary(case.seed)} :
        \A zKeys \in {AnyZKeys(case.seed)} :
        \A db \in {TransposeDbMatrix(AnyRaw(case.seed))} :
        \A zData \in {ZPreprocess(db, draws, case.modulus)} :
        \A data \in {VpirPreprocess(db, draws, zData)} :
        \A server \in {VpirCreateServer(data, case.modulus)} :
        \A zRequests \in {ZRequests(c, draws, AnyZErrors(case.seed), zKeys, case.modulus)} :
        \A zAnswers \in {ZAnswers(server, zRequests, case.modulus)} :
            ProofMaterial(server, c, stream, ZRows(zAnswers, zKeys, case.modulus),
                          TRUE).consistent
                <=> \A x \in DOMAIN MatrixMultiply(c, db).data :
                        MatrixMultiply(c, db).data[x] < case.modulus
=============================================================================
