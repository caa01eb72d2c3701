\* Two requests of one client with one piece of proof material.
SPECIFICATION Spec
SYMMETRY Symmetry
CONSTANTS
    c1 = c1
    c2 = c2
    s1 = s1
    s2 = s2
    g1 = g1
    g2 = g2
    i1 = i1
    i2 = i2
    Clients = {c1}
    Seeds = {s1}
    Generations = {g1, g2}
    Indices = {i1, i2}
    FirstLen = 1
    PackLen = 1
    LocalFinalize = FALSE
    FaultPoints = {0, 1}
    MaxDraws = 4
    MaxCalls = 2
    MaxResponses = 2
    None = None
    Garbage = Garbage
INVARIANT
    ReusableProof
