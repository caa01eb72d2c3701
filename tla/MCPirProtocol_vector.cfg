\* Request vectors (t = 1), N = 3 rows padded to 8 columns of the online matrix:
\* a vector of three chunks is accepted although the hints cover two.
SPECIFICATION Spec
SYMMETRY Symmetry
CONSTANTS
    Degree = 2
    NumEntries = 3
    InterpolationDegree = 1
    EntrySizeMultiple = 2
    PlaintextModulus = 3
    EvalDigits = 1
    PackDigits = 1
    SimdMultiple = 8
    Clients = {c1}
    Seeds = {s1}
    Generations = {g1, g2}
    Indices <- MCIndices
    Vectors <- MCVectors
    FaultPoints = {0, 5}
    MaxDraws = 20
    MaxInFlight = 2
    None = None
    Garbage = Garbage
INVARIANTS
    FreshAnswerRight
    NoWrongAnswer
