\* Two clients of one seed that get each other's responses, make and lose requests,
\* fetch proof material twice from two generations, and finish the packing themselves.
SPECIFICATION Spec
SYMMETRY Symmetry
CONSTANTS
    c1 = c1
    c2 = c2
    s1 = s1
    s2 = s2
    g1 = g1
    g2 = g2
    i1 = i1
    i2 = i2
    Clients = {c1, c2}
    Seeds = {s1}
    Generations = {g1, g2}
    Indices = {i1, i2}
    FirstLen = 1
    PackLen = 1
    LocalFinalize = TRUE
    FaultPoints = {1}
    MaxDraws = 3
    MaxCalls = 2
    MaxResponses = 1
    None = None
    Garbage = Garbage
INVARIANTS
    TypeOK
    KeptKey
    AcceptedIsProved
    HonestAccepted
    FirstRequestRight
