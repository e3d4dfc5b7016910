SPECIFICATION Spec
CONSTANTS
    Server = FALSE
    OpenSSL3 = TRUE
    RecordUnits = 2
    MaxUnits = 2
    MaxWrites = 2
    MaxFrames = 2
    SendBuffer = 1
    Ops = {"read", "write", "fileevent", "fconfigure", "handshake", "close", "unimport"}
    Interests <- ReadInterests
    Modes <- BothModes
    Eager = FALSE
INVARIANTS
    TypeOK
    RefsBalanced
    StateLifetime
    HandshakeOneMeansDone
    DataAfterHandshake
    OutputExactlyOnce
    EofJustified
PROPERTIES
    FailureIsFinal
    ImplementsStream
CHECK_DEADLOCK FALSE
