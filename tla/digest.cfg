SPECIFICATION FairSpec
CONSTANTS
    Vias = {"data", "file", "command", "channel"}
    ChannelModes = {"r", "w", "rw"}
    MaxUnits = 6
    Sizes = {1, 2, 3}
    Reliable = TRUE
INVARIANTS
    TypeOK
    OneDigestOfAll
    Delivered
PROPERTIES
    FileEnds
CHECK_DEADLOCK FALSE
