CONSTANTS
    MaxPort = 2
    Ssh = 2
    Vms = {v}
    Args <- MCArgs
    Forwards <- MCForwards
    MaxLost = 2
SPECIFICATION Spec
INVARIANTS
    PrintsWhatIsAsked
    KnownIsTrue
