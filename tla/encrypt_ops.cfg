SPECIFICATION Spec
CONSTANTS
    Blocks = {1, 2, 3}
    MaxUnits = 6
    Sizes = {1, 2, 4}
INVARIANTS
    TypeOK
    WholeMessage
    DecryptsBack
    NothingLost
CHECK_DEADLOCK FALSE
