CONSTANTS
    VmName <- MCVmName
    FileName <- MCFileName
    Long = {"y"}
    LogLines <- MCLogLines
    HostText <- MCHostText
    CliTexts <- MCCliTexts
    LogsPerVm = 2
    TailBytes = 6
    TailLines = 2
    Block = 3
    Homes <- MCHomes
    CommandLines <- MCCommandLines
    MaxChanges = 2
SPECIFICATION Spec
CHECK_DEADLOCK FALSE
INVARIANTS
    StampIsToday
    OrdinaryLinesKept
    BodyEndsWithLogs
    NothingDisclosed
    LogsKept
    ExcerptIsTail
    BundleIsComplete
PROPERTIES
    RunsEnd
