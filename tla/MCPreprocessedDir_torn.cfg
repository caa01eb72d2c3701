\* Two generations preprocessed under one seed, t = 1, files of one block.
SPECIFICATION Spec
CONSTANTS
    g1 = g1
    g2 = g2
    g3 = g3
    s1 = s1
    s2 = s2
    Generations = {g1, g2}
    Misshapen = {}
    Seeds = {s1, s2}
    SeedOf <- MCSeedOf
    NumShards = 2
    HasSecondDim = FALSE
    Blocks = 1
    None = None
    Garbage = Garbage
INVARIANT
    OneDatabase
