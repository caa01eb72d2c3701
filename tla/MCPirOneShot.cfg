\* Two lookups in N = 12 entries in three rows of t = 4 = 2d, two generations: the
\* monomials of half the columns are negated, the second chunk of a query is cut short.
SPECIFICATION OneShotSpec
CONSTANTS
    Degree = 2
    NumEntries = 12
    InterpolationDegree = 4
    EntrySizeMultiple = 2
    PlaintextModulus = 3
    EvalDigits = 1
    PackDigits = 2
    SimdMultiple = 1
    Clients = {c1, c2}
    Seeds = {s1}
    SharedSeed = s1
    Generations = {g1, g2}
    Indices <- MCIndices
    Vectors <- MCNoVectors
    FaultPoints = {3}
    MaxDraws = 20
    MaxInFlight = 2
    None = None
    Garbage = Garbage
PROPERTIES
    Retrieval
    Retrieved
