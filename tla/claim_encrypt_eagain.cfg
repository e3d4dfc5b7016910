SPECIFICATION Spec
CONSTANTS
    Blocks = {2}
    ChannelModes = {"w"}
    MaxUnits = 3
    WriteSizes = {1}
    ReadSizes = {1}
    Reliable = TRUE
INVARIANTS
    WrittenOnce
CHECK_DEADLOCK FALSE
