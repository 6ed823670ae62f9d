CONSTANTS
    Infinity <- MCInfinity
    Cost <- MCCost
    Plus <- MCPlus
    Coord <- MCCoord
    Hypot <- MCHypot
    ExternalId = {0, 7}
    MaxNodes = 2
    MaxArcs = 3
    Origin = 0
    ZeroId = 0
    NonFinite = NonFinite
    Negative = Negative
    NoGraph = NoGraph
    Orders <- MCOrders
SPECIFICATION Spec
INVARIANTS
    TypeOK
    BuiltGraphIsSound
PROPERTIES
    OnlyCompleteNodesAreBuilt
    InsertionOrderIsInvisible
    NothingIsSetTwice
