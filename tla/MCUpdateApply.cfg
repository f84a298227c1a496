SPECIFICATION FairSpec
CONSTANTS
    Files = {"app", "lib", "info"}
    Meta = {"info"}
    VersionFile = "app"
    MaxBuild = 3
    Changed <- ChangedByBuild
    Gone = 0
    Torn = 0
    FollowMishaps = FALSE
INVARIANTS
    HandedOffIsKept
    CancelHonoured
PROPERTIES
    OnlyWholeBuilds
    
