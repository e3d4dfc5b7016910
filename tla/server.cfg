SPECIFICATION Spec
CONSTANTS
    Server = TRUE
    OpenSSL3 = FALSE
    RecordUnits = 2
    MaxUnits = 2
    MaxWrites = 1
    MaxFrames = 1
    SendBuffer = 1
    Ops = {"read", "write", "fileevent", "fconfigure", "handshake", "close", "unimport"}
    Interests <- AllInterests
    Modes <- BothModes
    Eager = FALSE
PROPERTIES
    ImplementsStream
CHECK_DEADLOCK FALSE
