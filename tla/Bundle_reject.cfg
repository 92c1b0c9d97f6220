CONSTANTS
    Files = {f, g}
    MaxWrites = 0
    MaxFaults = 1
SPECIFICATION Spec
SYMMETRY Symmetry
PROPERTIES
    RejectKeepsVm
