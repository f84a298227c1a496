CONSTANTS
    Callers = {c1, c2}
    Job = {j1, j2}
    NoJob = nojob
    Timer = timer
    Packaged = TRUE
SPECIFICATION Spec
INVARIANT NoDownloadDuringMove
