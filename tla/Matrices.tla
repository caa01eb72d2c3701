------------------------------ MODULE Matrices ------------------------------
(***************************************************************************)
(* Matrix<CoeffType> (matrix.h, matrix.cc), the bit packing of its entries *)
(* (pir_server.cc) and the hint matrix (hint_computation.cc).              *)
(*                                                                         *)
(* A condensed matrix keeps several narrow entries in one machine word and *)
(* is multiplied a SIMD register of words at a time.  Words, entries and   *)
(* lanes are scaled down: a word has WordBits bits in place of 64, so a    *)
(* uint8_t, uint16_t or int32_t entry has an eighth, a quarter or half of  *)
(* them.                                                                   *)
(***************************************************************************)
EXTENDS Polynomials

CONSTANTS
    WordBits, \* the width of a machine word, 64 in the code
    Lanes     \* the words of a SIMD register

\* A word is as wide as the widest coefficient.
ASSUME MatricesAssumption ==
    WordBits \in Nat /\ WordBits % 8 = 0 /\ CoeffBits <= WordBits /\ Lanes \in Nat \ {0}

\* The entry types that condense, by the number of entries in a word.
Kinds == [uint8_t |-> 8, uint16_t |-> 4, int32_t |-> 2]

IsSignedKind(kind) == kind = "int32_t"

EntryBits(kind) == WordBits \div Kinds[kind]

ToWord(x) == x % 2 ^ WordBits

\* A matrix keeps its entries, row by row, in data, or in words if condensed.
Matrix(kind, rows, cols, data) ==
    [kind |-> kind, rows |-> rows, cols |-> cols, condensed |-> FALSE, data |-> data]

Entry(m, r, c) == m.data[r * m.cols + c]

\* CreateCondensed; it refuses a matrix whose rows do not fill whole words.
CreateCondensed(m) ==
    LET n == Kinds[m.kind]
        bits == EntryBits(m.kind)
        perRow == m.cols \div n
    IN  [m EXCEPT !.condensed = TRUE,
                  !.data = Vector(m.rows * perRow, LAMBDA w :
                      SumOf(LAMBDA k :
                          (Entry(m, w \div perRow, (w % perRow) * n + k) % 2 ^ bits)
                          * 2 ^ (k * bits), n))]

CanCondense(m) == ~m.condensed /\ m.cols % Kinds[m.kind] = 0

\* The kth entry of a word, sign-extended for a signed kind.
Unpacked(kind, word, k) ==
    LET low == (word \div 2 ^ (k * EntryBits(kind))) % 2 ^ EntryBits(kind)
    IN  IF IsSignedKind(kind) THEN Signed(low, EntryBits(kind)) ELSE low

\* Whole registers only.
CanMultiply(m, vec) ==
    /\ Cardinality(DOMAIN vec) = m.cols
    /\ m.condensed => m.cols % (Kinds[m.kind] * Lanes) = 0

\* The vector read in the order of the matrix, not de-interleaved.
SlipLaneProduct(m, vec, r, b, l, k) ==
    LET n == Kinds[m.kind]
    IN  Unpacked(m.kind, m.data[r * (m.cols \div n) + b * Lanes + l], k)
        * vec[b * n * Lanes + k * Lanes + l]

\* Entry k of word l of block b of a row meets the vector's component
\* n(b Lanes + l) + k, which LoadInterleaved, or the rearranged vector, has put
\* in lane l of register k.
LaneProduct(m, vec, r, b, l, k) ==
    LET n == Kinds[m.kind]
    IN  Unpacked(m.kind, m.data[r * (m.cols \div n) + b * Lanes + l], k)
        * vec[b * n * Lanes + n * l + k]

\* CondensedMultiply: each lane accumulates the products of all blocks, and
\* the lanes are added up.
CondensedMultiply(m, vec) ==
    LET n == Kinds[m.kind]
        blocks == (m.cols \div n) \div Lanes
    IN  Vector(m.rows, LAMBDA r :
            ToWord(SumOf(LAMBDA l : SumOf(LAMBDA b :
                SumOf(LAMBDA k : LaneProduct(m, vec, r, b, l, k), n), blocks), Lanes)))

\* Matrix::Multiply into an OutputType as wide as CoeffType.
Multiply(m, vec) ==
    LET Plain(r) == SumOf(LAMBDA c : ToCoeff(Entry(m, r, c) * vec[c]), m.cols)
        words == CondensedMultiply(m, vec)
    IN  Vector(m.rows, LAMBDA r : ToCoeff(IF m.condensed THEN words[r] ELSE Plain(r)))

\* Matrices with equal columns and state, one below the other.
Stack(top, bottom) ==
    LET n == Cardinality(DOMAIN top.data)
    IN  [top EXCEPT !.rows = top.rows + bottom.rows,
                    !.data = Vector(n + Cardinality(DOMAIN bottom.data),
                                    LAMBDA i : IF i < n THEN top.data[i] ELSE bottom.data[i - n])]

VerticalConcatenate(ms) ==
    LET upTo[k \in DOMAIN ms] == IF k = 0 THEN ms[0] ELSE Stack(upTo[k - 1], ms[k])
    IN  upTo[Cardinality(DOMAIN ms) - 1]

-----------------------------------------------------------------------------
(* Bit packing                                                             *)

Bit(x, k) == (x \div 2 ^ k) % 2

\* Values laid end to end, bits bits each, lowest bit first, in bytes; the
\* unused bits of the last byte are zero (BitPackSigned, BitPackCoefficients).
BitPack(values, bits) ==
    LET total == Cardinality(DOMAIN values) * bits
    IN  Vector((total + 7) \div 8, LAMBDA byte :
            MapThenSumSet(LAMBDA k :
                LET at == 8 * byte + k
                IN  IF at < total
                    THEN Bit(values[at \div bits] % 2 ^ bits, at % bits) * 2 ^ k
                    ELSE 0,
                0 .. 7))

BitUnpack(bytes, count, bits) ==
    Vector(count, LAMBDA i :
        MapThenSumSet(LAMBDA k :
            LET at == i * bits + k IN Bit(bytes[at \div 8], at % 8) * 2 ^ k, 0 .. bits - 1))

\* The sign extension forgotten.
SlipBitUnpackSigned(bytes, count, bits) == BitUnpack(bytes, count, bits)

BitUnpackSigned(bytes, count, bits) ==
    LET raw == BitUnpack(bytes, count, bits)
    IN  Vector(count, LAMBDA i : Signed(raw[i], bits))

-----------------------------------------------------------------------------
(* The hint                                                                *)

\* The coefficients of a component in the order that turns a negacyclic
\* product into an inner product with each shift of the component.
Inverted(a) == Poly(LAMBDA j : IF j = 0 THEN a[0] ELSE ToCoeff(-a[Degree - j]))

\* One block of d columns times one component.
MulMatNegacyclic(m, poly) ==
    Vector(m.rows, LAMBDA r :
        MultFft(Poly(LAMBDA j : Entry(m, r, j)), Inverted(poly)))

\* The blocks of all the batches but the first read from the first.
SlipComputeHintMatrix(db, as, dbBits, aBits, safeN) ==
    LET n == Cardinality(DOMAIN as)
        Batch(r, start) ==
            LET size == Min({safeN, n - start})
            IN  InnerProductFft(
                    Vector(size, LAMBDA b : Poly(LAMBDA j : Entry(db, r, b * Degree + j))),
                    Vector(size, LAMBDA b : Inverted(as[start + b])), dbBits, aBits, FALSE)
        batches == (n + safeN - 1) \div safeN
        Row(r) == LET parts == Vector(batches, LAMBDA k : Batch(r, k * safeN))
                  IN  Poly(LAMBDA j : ToCoeff(MapThenSumSet(LAMBDA k : parts[k][j], DOMAIN parts)))
    IN  Vector(db.rows, Row)

\* ComputeHintMatrix: row r is the sum, over the blocks of d columns of the
\* database, of the block times the inverted component, taken safeN blocks at
\* a time so that the products of one batch keep their precision.
ComputeHintMatrix(db, as, dbBits, aBits, safeN) ==
    LET n == Cardinality(DOMAIN as)
        Block(r, k) == Poly(LAMBDA j : Entry(db, r, k * Degree + j))
        Batch(r, start) ==
            LET size == Min({safeN, n - start})
            IN  InnerProductFft(Vector(size, LAMBDA b : Block(r, start + b)),
                                Vector(size, LAMBDA b : Inverted(as[start + b])),
                                dbBits, aBits, FALSE)
        batches == (n + safeN - 1) \div safeN
        Row(r) == LET parts == Vector(batches, LAMBDA k : Batch(r, k * safeN))
                  IN  Poly(LAMBDA j : ToCoeff(SumFunctionOnSet(
                          [k \in 0 .. batches - 1 |-> parts[k][j]], 0 .. batches - 1)))
    IN  Vector(db.rows, Row)
=============================================================================
