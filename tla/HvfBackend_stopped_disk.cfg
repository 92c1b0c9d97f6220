CONSTANTS
    VMs = {v1}
    NoVM = NoVM
    Pids = {p1, p2}
    NoPid = NoPid
    NDisks = 1
    MaxSeq = 1
    MaxWrites = 1
    MaxUnread = 0
SPECIFICATION Spec
SYMMETRY Symmetry
PROPERTIES
    StoppedRetainsDisk
