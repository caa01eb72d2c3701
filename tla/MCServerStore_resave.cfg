SPECIFICATION Spec
CONSTANTS
    Shards = 1
    Slices = 1
    Digits = 1
    SecondDim = 1
    PackRows = 2
    PackCols = 2
    PerWord = 2
    NumDatabases = 2
    MaxJobs = 2
    Nothing = Nothing
    Zeros = Zeros
    Unknown = Unknown
    Refused = Refused
    Undefined = Undefined
    None = None
INVARIANT EverySaveComesBack
CHECK_DEADLOCK FALSE
