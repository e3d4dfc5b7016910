SPECIFICATION Spec
CONSTANTS
    Channels = {a, b}
    MaxImports = 2
    MaxChain = 2
    Inputs <- Commands
    CaFiles <- Files
    Builds = {TRUE, FALSE}
    Hellos <- HelloExtensions
SYMMETRY Interchangeable
INVARIANTS
    EmptyKeepsVerdict
CHECK_DEADLOCK FALSE
