----------------------------- MODULE PirParams -----------------------------
(***************************************************************************)
(* The parameters of one PIR instance and the geometry derived from them   *)
(* (pir_params.h, pir_params.cc).  Everything here is a constant: the      *)
(* client and the two servers each hold a copy of the same PirParams.      *)
(*                                                                         *)
(* Positions in the stream of "a" components are counted in calls of       *)
(* SecurePrng::Rand64, one per polynomial coefficient, because that is the *)
(* granularity at which SampleAComponents consumes the stream.             *)
(***************************************************************************)
EXTENDS Integers

CONSTANTS
    Degree,              \* d, the ring degree
    NumEntries,          \* N, the number of database entries
    InterpolationDegree, \* t, the number of entries of one interpolated row
    EntrySizeMultiple,   \* the number of shards of d coefficients per entry
    PlaintextModulus,    \* p
    EvalDigits,          \* digits of the polynomial evaluation gadget
    PackDigits,          \* digits of the packing gadget
    SimdMultiple         \* column multiple of the online DB matrix (1: none)

\* What PirParams::Create refuses to go without, and the positive digit
\* counts without which SampleAComponents refuses to sample.  RlweParams
\* makes Degree a power of two, so the power of two t <= 2d divides 2d.
ASSUME ParamsAssumption ==
    /\ Degree \in Nat \ {0}
    /\ NumEntries \in Nat \ {0}
    /\ InterpolationDegree \in Nat \ {0}
    /\ EntrySizeMultiple \in Nat \ {0}
    /\ PlaintextModulus \in Nat \ {0, 1}
    /\ EvalDigits \in Nat \ {0}
    /\ PackDigits \in Nat \ {0}
    /\ SimdMultiple \in Nat \ {0}
    /\ NumEntries % InterpolationDegree = 0
    /\ InterpolationDegree <= 2 * Degree
    /\ (2 * Degree) % InterpolationDegree = 0

CeilDiv(a, b) == (a + b - 1) \div b

Entries == 0 .. NumEntries - 1

InterpolatedRows == NumEntries \div InterpolationDegree

NumFirstDimSamples == CeilDiv(InterpolatedRows, Degree)

\* The number of columns of the online database matrix: InterpolatedRows,
\* padded to the SIMD multiple when the matrix is condensed.
DbCols == CeilDiv(InterpolatedRows, SimdMultiple) * SimdMultiple

\* How many draws each part of a request takes from the "a" stream.
FirstLen == NumFirstDimSamples * Degree

SecondLen == 2 * EvalDigits * Degree

PackLen == 2 * PackDigits * Degree

\* Whether the protocol has a second dimension at all.
HasSecondDim == InterpolationDegree > 1

(***************************************************************************)
(* Where an entry lives.  Entry e is coefficient block e % t of row e / t. *)
(* The client encrypts the row as a unit vector cut into chunks of d and   *)
(* the column as the monomial X^((2d/t) col) of Z[X]/(X^d + 1), which is   *)
(* stored as -X^(e-d) when the exponent e reaches d.                       *)
(***************************************************************************)
RowOf(index) == index \div InterpolationDegree

ColOf(index) == index % InterpolationDegree

\* Mutated forms, each a slip that one property is there to catch, stand
\* before the definition they would replace and are named Slip...

\* The sign of X^d = -1 forgotten.
SlipMonomialUnsigned(col) ==
    [neg |-> FALSE, pos |-> (((2 * Degree) \div InterpolationDegree) * col) % Degree]

Monomial(col) ==
    LET shift == ((2 * Degree) \div InterpolationDegree) * col
    IN  [neg |-> shift >= Degree,
         pos |-> IF shift >= Degree THEN shift - Degree ELSE shift]

\* The unit vector that CreateFirstDimensionQuery encrypts for an index: a
\* one at position j of chunk i, the last chunk cut to the rows there are.
UnitVector(index) ==
    LET i == RowOf(index) \div Degree
        j == RowOf(index) % Degree
    IN  [r \in 0 .. InterpolatedRows - 1 |->
            IF r \div Degree = i /\ r % Degree = j THEN 1 ELSE 0]

\* A request vector written as the set of (entry, weight) pairs it asks for.
Combination(weights, col) ==
    { <<r * InterpolationDegree + col, weights[r]>> :
        r \in { r \in 0 .. InterpolatedRows - 1 :
                    r \in DOMAIN weights /\ weights[r] # 0 } }
=============================================================================
