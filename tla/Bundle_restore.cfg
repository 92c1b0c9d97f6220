CONSTANTS
    Files = {f, g}
    MaxWrites = 3
    MaxFaults = 2
SPECIFICATION Spec
SYMMETRY Symmetry
INVARIANTS
    RestoredIsInstant
    BInv
