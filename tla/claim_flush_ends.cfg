SPECIFICATION FairSpec
CONSTANTS
    Server = FALSE
    OpenSSL3 = TRUE
    RecordUnits = 1
    MaxUnits = 1
    MaxWrites = 1
    MaxFrames = 1
    SendBuffer = 1
    Ops = {"read", "write", "fileevent"}
    Interests <- AlwaysRead
    Modes <- NonBlocking
    Eager = FALSE
PROPERTIES
    FlushEnds
CHECK_DEADLOCK FALSE
