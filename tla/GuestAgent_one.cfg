CONSTANTS
    Clients = {c}
    NoClient = NoClient
    NoRequest = NoRequest
    MaxRequests = 5
    MaxCuts = 2
SPECIFICATION FairSpec
INVARIANTS
    GracefulMeansAsked
    CutSpoilsOne
PROPERTIES
    RepliesMatch
    CallsEnd
