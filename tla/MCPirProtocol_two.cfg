\* Two clients and two seeds, N = 2 entries in one row of t = 2.
SPECIFICATION Spec
SYMMETRY Symmetry
CONSTANTS
    Degree = 1
    NumEntries = 2
    InterpolationDegree = 2
    EntrySizeMultiple = 1
    PlaintextModulus = 3
    EvalDigits = 1
    PackDigits = 1
    SimdMultiple = 1
    Clients = {c1, c2}
    Seeds = {s1, s2}
    Generations = {g1, g2}
    Indices <- MCIndices
    Vectors <- MCNoVectors
    FaultPoints = {1}
    MaxDraws = 10
    MaxInFlight = 1
    None = None
    Garbage = Garbage
INVARIANTS
    TypeOK
    FreshAnswerRight
    OneServableRequest
    AComponentsUsedOnce
    StreamInOrder
