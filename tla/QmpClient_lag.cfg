CONSTANTS
    MaxCommands = 5
    MaxEvents = 2
SPECIFICATION Spec
INVARIANTS
    QInv
    AnswersLag
    ReturnsLaggingPayload
PROPERTIES
    CallsReturn
