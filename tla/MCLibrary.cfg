SPECIFICATION Spec
CONSTANTS
    Target = 192
    Ceiling = 320
    Rates = {0, 128, 256}
    MaxAttempts = 3
    MaxTrouble = 1
    Titled = {"a", "b", "c", "e", "g"}
    Listings <- ListingsValue
    Title <- TitleValue
    Owned <- OwnedValue
    MaxMishaps = 1
    Covered = {"x", "y"}
    Nameless = {"y"}
    MaxArtFaults = 1
    Uploaders = {"c", "d"}
    Queued = {"g"}
    MaxResolved = 2
    MaxSlips = 1
    Shared = {"c", "d"}
    GoneBy = {"n"}
    Received <- ListsValue
    MaxShared = 3
    MaxTurns = 2
    EditChannels = {"a_b", "a.b"}
    EditGenres = {"House", "None"}
    EditUrls = {"u1", "@h"}
    Direct = {"u1"}
    EditTracks = {"x"}
    EditOwner <- EditOwnerValue
    Strays <- StraysValue
    Like = {}
    EditFaults = 2
    Genres <- GenresValue
    Channels = {"c1", "c2"}
    Tracks = {"x", "z"}
    Owner <- OwnerValue
    Overlap = FALSE
    MaxRuns = 2
    MaxMoves = 1
    MaxFaults = 2
    Watched = {"c"}
    Callers = {"page"}
    Folders <- FoldersValue
    MaxWatched = 4
    TablePaths = {"p"}
    Added = {"art"}
    MaxRows = 4
    MaxLocked = 1
    TagChannels = {1, 2}
    TagGenres = {1, 2}
    TagTracks <- TracksOf
    Editors = {1}
    MaxTagEdits = 2
    MaxSweeps = 1
    MaxTagTrouble = 1
    LedgerRows = {"c"}
    LedgerAdded <- LinkOf
    Tabbed = {"c"}
    LedgerTracks = {"x", "y"}
    LedgerLists <- TracksListed
    Legacy = {"y"}
    Expiry = 1
    MaxTime = 2
    MaxScans = 3
    MaxLinkEdits = 1
INVARIANTS  ListsAreWhole  FilesAreTrue TagsFollowFolders
CHECK_DEADLOCK FALSE
