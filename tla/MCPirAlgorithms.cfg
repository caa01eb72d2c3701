SPECIFICATION Spec
CONSTANTS
    Degree = 8
    CoeffBits = 14
    ChunkBits = 4
    LogModulus = 13
    LogModulus1 = 12
    LogModulus2 = 9
    PlaintextModulus = 5
    MatCoeffBits = 12
    WordBits = 24
    Lanes = 2
    NumEntries = 40
    InterpolationDegree = 4
    EntrySizeMultiple = 2
    PackGadget <- ApproximateGadget
    EvalGadget <- ExactGadget
    DbKind = "uint8_t"
    SimdMultiple = 16
    SafeN = 2
    Seeds = {1, 2, 3}
    DigitBlocks = {0, 1, 2, 3, 4, 5, 6, 7}
    Gadgets <- AllGadgets
    RowLengths = {1, 2, 4, 8, 16}
    Lookups = {0, 13, 22, 39}
    VerifiedLookups = {0, 13}
    VpirEntries = 16
    Ell = 2
    Kappa = 3
    ZPlaintextModulus = 65
    ZCoeffBits = 18
    ZLogModulus = 18
    ZLogModulus1 = 12
    ZLogModulus2 = 12
    ZPackGadget <- InnerGadget
    InnerModuli = {12, 16, 20, 24, 32, 65}
INVARIANTS
    DigitsRecompose
    ChunkedProductExact
    AutomorphismsOfTheRing
    RowsEvaluateToEntries
    CondensedAgrees
    HintCarriesTheKey
    BudgetedNoiseDecrypts
    ExternalProductMultiplies
    PackingKeepsPhases
    PackingPathsAgree
    PackMatrixSurvivesSaving
    LookupReturnsEntry
    VerifiedLookupReturnsEntry
    WrappedProofRefused
    StoredDataAnswersAlike
    StoredVpirDataIncomplete
    ParametersSurviveStorage
CHECK_DEADLOCK FALSE
