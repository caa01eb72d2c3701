SPECIFICATION Spec
CONSTANTS
    Shards = 1
    Slices = 2
    Digits = 1
    SecondDim = 2
    PackRows = 2
    PackCols = 4
    PerWord = 2
    NumDatabases = 2
    MaxJobs = 3
    Nothing = Nothing
    Zeros = Zeros
    Unknown = Unknown
    Refused = Refused
    Undefined = Undefined
    None = None
INVARIANTS SavedComesBack WholeFilesServe OwnDatabase
CHECK_DEADLOCK FALSE
