SPECIFICATION MasterSpec
CONSTANTS
    Ops <- MCOps
    AdrMod = 2
    CountMod = 8
    GenDepth = 2
    OpDepth = 3
    RecDepth = 2
    Length = 14
    Careful = TRUE
    Patient = TRUE
    Consecutive = TRUE
    Uniform = TRUE
INVARIANTS
    RecordsSayWhatWasAsked

    
