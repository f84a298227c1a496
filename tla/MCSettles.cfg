CONSTANTS
    Parts = {"mainrun", "watch", "cleanup", "stream", "socket", "ffmpeg", "logs", "remote", "send"}
    Tracks = {"a", "b", "c"}
    Keys = {"k", "m"}
    Key <- KeyValue
    Gated = {"b", "c"}
    Locked = {"c"}
    Modes = {"watch", "folder"}
    MaxAttempts = 2
    MaxTrouble = 1
    MaxBlips = 1
    Channels <- ChannelsValue
    Files = {1, 2, 3}
    Owner <- OwnerValue
    MaxRuns = 1
    MaxFaults = 1
    Intervals = {2, 3}
    Never = 0
    MaxPolls = 1
    NetTries = 2
    MaxCalls = 1
    Devices = {"d1", "d2"}
    Sockets = {"s1", "s2"}
    IdleAfter = 1
SPECIFICATION NetSpec
PROPERTIES WhatIsStoppedEnds  LeftBehindIsLetGo NothingTaken
CHECK_DEADLOCK FALSE
