SPECIFICATION FairSpec
CONSTANTS
    Server = FALSE
    OpenSSL3 = TRUE
    RecordUnits = 2
    MaxUnits = 4
    MaxWrites = 1
    MaxFrames = 1
    SendBuffer = 1
    Ops = {"read", "write", "fileevent", "close", "unimport"}
    Interests <- AlwaysRead
    Modes <- NonBlocking
    Eager = TRUE
PROPERTIES
    Delivery
    ClosedIsFreed
CHECK_DEADLOCK FALSE
