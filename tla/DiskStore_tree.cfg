CONSTANTS
    Names = {a, b}
    Procs = {x}
    NoName = NoName
    MaxWrites = 1
    MaxKills = 2
SPECIFICATION Spec
SYMMETRY Symmetry
INVARIANTS
    OkMeansDone
    ErrorKeepsTree
    ContentKept
PROPERTIES
    ImplementsTree
    ChainsIntact
