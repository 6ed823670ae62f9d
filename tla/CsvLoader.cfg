CONSTANTS
    Infinity <- MCInfinity
    Cost <- MCCost
    Plus <- MCPlus
    Coord <- MCCoord
    Hypot <- MCHypot
    ExternalId = {0, 1, 2}
    MaxNodes = 2
    MaxArcs = 2
    Origin = 0
    ZeroId = 0
    NonFinite = NonFinite
    Negative = Negative
    NoGraph = NoGraph
    Orders <- MCOrders
    Lines <- MCLines
    MaxLines = 4
    IdOf <- MCIdOf
    NumberOf <- MCNumberOf
    CoordOf <- MCCoordOf
SPECIFICATION LoadSpec
CHECK_DEADLOCK FALSE
INVARIANTS
    LoaderTypeOK
    GraphIsWhatTheFilesSay
    FirstFaultIsReported
    BuilderNeverObjects
