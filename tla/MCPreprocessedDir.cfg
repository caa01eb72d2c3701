\* Two shards of two blocks, two well-shaped generations under different seeds
\* and one that is refused half-way; second dimension.
SPECIFICATION Spec
CONSTANTS
    g1 = g1
    g2 = g2
    g3 = g3
    s1 = s1
    s2 = s2
    Generations = {g1, g2, g3}
    Misshapen = {g2}
    Seeds = {s1, s2}
    SeedOf <- MCSeedOf
    NumShards = 2
    HasSecondDim = TRUE
    Blocks = 2
    None = None
    Garbage = Garbage
INVARIANTS
    SettledAnswers
    SettledLoads
