SPECIFICATION FairSpec
CONSTANTS
    Blocks = {1, 2, 3}
    ChannelModes = {"r", "w"}
    MaxUnits = 5
    WriteSizes = {1, 3, 4}
    ReadSizes = {1, 2, 3}
    Reliable = TRUE
INVARIANTS
    TypeOK
    Conserved
    Complete
    FinalisedOnce
PROPERTIES
    CloseCompletes
CHECK_DEADLOCK FALSE
