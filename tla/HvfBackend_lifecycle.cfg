CONSTANTS
    VMs = {v1}
    NoVM = NoVM
    Pids = {p1, p2}
    NoPid = NoPid
    NDisks = 1
    MaxSeq = 2
    MaxWrites = 1
    MaxUnread = 1
SPECIFICATION Spec
INVARIANTS
    IInv
    QemuOwned
    OneQemuPerVm
    NoQemuAtRest
PROPERTIES
    ImplementsLifecycle
    OperationsReturn
