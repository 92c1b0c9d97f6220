CONSTANTS
    MaxPort = 2
    Ssh = 2
    Vms = {v}
    Args <- MCArgs
    Forwards <- MCForwards
    MaxLost = 0
SPECIFICATION Spec
INVARIANTS
    RemovesWhatWasAdded
