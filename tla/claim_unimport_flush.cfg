SPECIFICATION Spec
CONSTANTS
    Server = FALSE
    OpenSSL3 = TRUE
    RecordUnits = 1
    MaxUnits = 1
    MaxWrites = 2
    MaxFrames = 1
    SendBuffer = 1
    Ops = {"write", "handshake", "unimport"}
    Interests <- ReadInterests
    Modes <- NonBlocking
    Eager = FALSE
INVARIANTS
    UnimportFlushes
CHECK_DEADLOCK FALSE
