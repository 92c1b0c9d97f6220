CONSTANTS
    VMs = {v1}
    NoVM = NoVM
    Pids = {p1, p2}
    NoPid = NoPid
    NDisks = 2
    MaxSeq = 3
    MaxWrites = 2
    MaxUnread = 0
SPECIFICATION Spec
SYMMETRY Symmetry
INVARIANTS
    SnapshotConsistent
    GuestConsistent
PROPERTIES
    FrozenLayers
