CONSTANTS
    Callers = {c1}
    Row = {a, b}
    Runner = {r1, r2}
    NoRunner = none
    MaxTracks = 2
SPECIFICATION Spec
SYMMETRY RowSymmetry
INVARIANTS
    TotalIsAccounted
    EveryRowOnce
    NothingGivenUpSilently
    CancelStopsAfterCurrent
