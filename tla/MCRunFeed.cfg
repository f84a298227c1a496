CONSTANTS
    MaxRuns = 2
    MaxLines = 2
    Limit = 2
    MaxAsks = 2
    MaxWire = 2
    MaxCuts = 1
SPECIFICATION Spec
INVARIANTS
    
    FeedIsWhole
    RecordIsOneRun
