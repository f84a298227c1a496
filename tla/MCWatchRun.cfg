CONSTANTS
    Callers = {k1}
    Channel = {a, b}
    NoChannel = none
    Links = {"live"}
    MaxNew = 1
SPECIFICATION Spec
SYMMETRY ChannelSymmetry
INVARIANTS
    DownloadingIsOwned
    NothingDueForgotten
    JoinAheadIsServed
    CancelledWaitingIsDropped
