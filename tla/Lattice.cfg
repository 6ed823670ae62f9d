CONSTANTS
    Infinity <- MCInfinity
    Cost <- MCCost
    Plus <- MCPlus
    Coord <- MCCoord
    Hypot <- MCHypot
    ExternalId = {0, 1, 2, 3, 4, 5, 6, 7}
    MaxNodes <- MCMaxNodes
    MaxArcs = 18
    Origin <- MCOrigin
    ZeroId = 0
    NonFinite = NonFinite
    Negative = Negative
    NoGraph = NoGraph
    Orders <- MCOrders
    Modulus = 8
    Units = {0, 3}
    Whole = 4
    Params <- MCParams
    Axis <- MCAxis
SPECIFICATION LatticeSpec
INVARIANTS
    LatticeTypeOK
    GraphIsTheLattice
    StronglyConnected
    EveryArcIsTight
    DrawsIgnoreTheRate
