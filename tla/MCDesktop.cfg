SPECIFICATION Spec
CONSTANTS
    Places = {"p", "q"}
    MaxEvents = 4
    Desktops <- DesktopsValue
    Spots <- SpotsValue
    Least <- LeastValue
    MaxLaunches = 2
    Jobs = {1, 2}
    MaxChanges = 2
    MaxTicks = 2
    Builds = {"home"}
    Values = {1, 2}
    Setters = {1, 2}
    MaxWrites = 3
    Instances = {"window"}
    Clients = {"a", "b"}
    Life = 2
    Limit = 2
    SweepAt = 1
    MaxTime = 2
    MaxCodes = 2
    MaxDevices = 2
    Listing = 3
    Pipe = 1
    Bundled <- KeysValue
    Current = 1
    Manifests <- ManifestsValue
    Installed <- InstalledValue
    MaxChecks = 2
    MaxReleases = 1
    Outbox = 2
    MaxFrames = 4
    Chans = {"a", "b"}
    Orders <- OrdersValue
    MaxTracks = 1
    MaxRuns = 1
    MaxImports = 1
    MaxTrouble = 1
INVARIANTS WindowReopens  ChoiceSurvives PairingIsMetered VerdictIsEarned PageIsWhole
CHECK_DEADLOCK FALSE
