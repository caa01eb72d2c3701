------------------------------ MODULE Messages ------------------------------
(***************************************************************************)
(* The protocol buffers in which preprocessed data and parameters are kept *)
(* (pir.proto, pir_server.proto, rlwe.proto): Polynomial::ToProto and      *)
(* CreateFromProto, Matrix::ToProto and FromProto, the preprocessed data   *)
(* of a PIR and of a VPIR server, in one message or in one for each shard, *)
(* and PirParams.                                                          *)
(*                                                                         *)
(* A reader that can refuse is two definitions, what it requires and what  *)
(* it returns.  A matrix copies its array into the message byte for byte   *)
(* and back into an array of the same type, so its entries stand for       *)
(* themselves; a polynomial packs its coefficients.                        *)
(***************************************************************************)
EXTENDS VpirAlgebra

-----------------------------------------------------------------------------
(* Polynomials and matrices                                                *)

\* The low bits of each coefficient, whatever the others hold.
PolynomialToProto(p, bits) == BitPack(p, bits)

\* CreateFromProto refuses a message that is not just as long as it should be.
PolynomialReadable(bytes, bits) ==
    bits \in 1 .. CoeffBits /\ Size(bytes) > 0 /\ Size(bytes) = (Degree * bits + 7) \div 8

\* The bits of a coefficient read in the opposite order.
SlipPolynomialFromProto(bytes, bits) ==
    Vector(Degree, LAMBDA j :
        MapThenSumSet(LAMBDA i :
            LET at == (j + 1) * bits - 1 - i IN Bit(bytes[at \div 8], at % 8) * 2 ^ i,
            0 .. bits - 1))

PolynomialFromProto(bytes, bits) == BitUnpack(bytes, Degree, bits)

\* The two kinds of data are a oneof: an empty array sets neither.
MatrixToProto(m) ==
    [rows |-> m.rows, originalCols |-> m.cols, isCondensed |-> m.condensed,
     cols |-> IF m.condensed THEN m.cols \div Kinds[m.kind] ELSE m.cols,
     holds |-> IF m.data = <<>> THEN "nothing"
               ELSE IF m.condensed THEN "condensed_data" ELSE "data",
     data |-> m.data]

\* The product of rows and columns is not compared with the data.
MatrixReadable(proto) ==
    /\ proto.isCondensed => proto.holds # "data"
    /\ ~proto.isCondensed => proto.holds # "condensed_data"

\* The template argument of the reader decides the type of the entries.
MatrixFromProto(proto, kind) ==
    [kind |-> kind, rows |-> proto.rows, cols |-> proto.originalCols,
     condensed |-> proto.isCondensed, data |-> proto.data]

-----------------------------------------------------------------------------
(* Preprocessed data                                                       *)

PolynomialsToProto(ps, bits) == Vector(Size(ps), LAMBDA k : PolynomialToProto(ps[k], bits))

PolynomialsFromProto(protos, bits) ==
    Vector(Size(protos), LAMBDA k : PolynomialFromProto(protos[k], bits))

OutputToProto(output) ==
    [aTildeAgg |-> PolynomialToProto(output.aTildeAgg, LogModulus),
     matrix |-> MatrixToProto(output.matrix),
     tVecH |-> PolynomialsToProto(output.tH, LogModulus)]

OutputReadable(proto, bits) ==
    /\ PolynomialReadable(proto.aTildeAgg, bits)
    /\ MatrixReadable(proto.matrix)
    /\ \A k \in DOMAIN proto.tVecH : PolynomialReadable(proto.tVecH[k], bits)

OutputFromProto(proto) ==
    [aTildeAgg |-> PolynomialFromProto(proto.aTildeAgg, LogModulus),
     matrix |-> MatrixFromProto(proto.matrix, "int32_t"),
     tH |-> PolynomialsFromProto(proto.tVecH, LogModulus)]

SerializePirPreprocessedData(data) ==
    [dbMatrices |-> Vector(Size(data.dbMatrices), LAMBDA k : MatrixToProto(data.dbMatrices[k])),
     outputs |-> Vector(Size(data.outputs), LAMBDA k :
         Vector(Size(data.outputs[k]), LAMBDA i : OutputToProto(data.outputs[k][i]))),
     secondA |-> PolynomialsToProto(data.secondA, LogModulus)]

\* The reader's log_modulus is that of the parameters it is given.
CanDeserialize(proto, bits) ==
    /\ \A k \in DOMAIN proto.dbMatrices : MatrixReadable(proto.dbMatrices[k])
    /\ \A k \in DOMAIN proto.outputs : \A i \in DOMAIN proto.outputs[k] :
           OutputReadable(proto.outputs[k][i], bits)
    /\ \A k \in DOMAIN proto.secondA : PolynomialReadable(proto.secondA[k], bits)

DeserializePirPreprocessedData(proto) ==
    [dbMatrices |-> Vector(Size(proto.dbMatrices),
                           LAMBDA k : MatrixFromProto(proto.dbMatrices[k], DbKind)),
     outputs |-> Vector(Size(proto.outputs), LAMBDA k :
         Vector(Size(proto.outputs[k]), LAMBDA i : OutputFromProto(proto.outputs[k][i]))),
     secondA |-> PolynomialsFromProto(proto.secondA, LogModulus)]

-----------------------------------------------------------------------------
(* Preprocessed data of a verified server: the message has no place for    *)
(* the hint, the seed and the data of the inner server.                    *)

EmptyPirData == [dbMatrices |-> <<>>, outputs |-> <<>>, secondA |-> <<>>]

SerializeVpirPreprocessedData(data) ==
    [dbMatrices |-> Vector(1, LAMBDA k : MatrixToProto(data.db)),
     outputs |-> Vector(Size(data.outputs), LAMBDA k :
         Vector(1, LAMBDA i : OutputToProto(data.outputs[k]))),
     secondA |-> <<>>]

CanDeserializeVpir(proto, bits) ==
    /\ Size(proto.dbMatrices) > 0 /\ MatrixReadable(proto.dbMatrices[0])
    /\ \A k \in DOMAIN proto.outputs :
           Size(proto.outputs[k]) = 1 /\ OutputReadable(proto.outputs[k][0], bits)

\* The fields that were not written are those of an empty object.
DeserializeVpirPreprocessedData(proto) ==
    [db |-> MatrixFromProto(proto.dbMatrices[0], DbKind),
     outputs |-> Vector(Size(proto.outputs), LAMBDA k : OutputFromProto(proto.outputs[k][0])),
     hint |-> <<>>, seed |-> <<>>, z |-> EmptyPirData]

\* The matrix of a message that has none.
NoMatrix ==
    [rows |-> 0, cols |-> 0, originalCols |-> 0, isCondensed |-> FALSE,
     holds |-> "nothing", data |-> <<>>]

\* The database written with the last shard.
SlipVpirShards(data) ==
    Vector(Ell, LAMBDA k :
        [dbMatrix |-> IF k = Ell - 1 THEN MatrixToProto(data.db) ELSE NoMatrix,
         outputs |-> Vector(1, LAMBDA i : OutputToProto(data.outputs[k]))])

\* One message for each shard; the first has the database.
VpirShards(data) ==
    Vector(Ell, LAMBDA k :
        [dbMatrix |-> IF k = 0 THEN MatrixToProto(data.db) ELSE NoMatrix,
         outputs |-> Vector(1, LAMBDA i : OutputToProto(data.outputs[k]))])

VpirShardsReadable(shards, bits) ==
    /\ MatrixReadable(shards[0].dbMatrix)
    /\ \A k \in 0 .. Ell - 1 :
           Size(shards[k].outputs) = 1 /\ OutputReadable(shards[k].outputs[0], bits)

VpirFromShards(shards) ==
    [db |-> MatrixFromProto(shards[0].dbMatrix, DbKind),
     outputs |-> Vector(Ell, LAMBDA k : OutputFromProto(shards[k].outputs[0])),
     hint |-> <<>>, seed |-> <<>>, z |-> EmptyPirData]

-----------------------------------------------------------------------------
(* Parameters.  A modulus is the number the code keeps: a power of two, or *)
(* 0, which stands for 2^CoeffBits.                                        *)

CeilLog2(n) == CHOOSE k \in 0 .. CoeffBits : 2 ^ k >= n /\ (k = 0 \/ 2 ^ (k - 1) < n)

\* Zero taken for a width of zero.
SlipBitSize(modulus) == CeilLog2(modulus)

\* RlweParams::LogModulus.
BitSize(modulus) == IF modulus = 0 THEN CoeffBits ELSE CeilLog2(modulus)

ModulusOf(log) == IF log = CoeffBits THEN 0 ELSE 2 ^ log

PowersOfTwo == { 2 ^ k : k \in 0 .. CoeffBits - 1 }

\* RlweParams::Create.
RlweParamsOK(p) ==
    /\ \E k \in 0 .. CoeffBits : p.degree = 2 ^ k
    /\ {p.modulus, p.modulus1, p.modulus2} \subseteq PowersOfTwo \cup {0}
    /\ p.modulus = 0 => p.modulus1 >= p.modulus2
    /\ p.modulus # 0 => p.modulus1 <= p.modulus /\ p.modulus2 <= p.modulus1

\* The encoding that SerializePirParams and SerializeVpirParams share.
RlweParamsToProto(p) ==
    [logDegree |-> CeilLog2(p.degree), logModulus |-> BitSize(p.modulus),
     logModulus1 |-> BitSize(p.modulus1), logModulus2 |-> BitSize(p.modulus2)]

RlweParamsFromProto(proto) ==
    [degree |-> 2 ^ proto.logDegree, modulus |-> ModulusOf(proto.logModulus),
     modulus1 |-> ModulusOf(proto.logModulus1), modulus2 |-> ModulusOf(proto.logModulus2)]
=============================================================================
