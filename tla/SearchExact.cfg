CONSTANTS
    Infinity <- MCInfinity
    Cost <- MCCost
    Plus <- MCPlus
    Coord <- MCCoord
    Hypot <- MCHypot
    Graphs <- MCGraphs
    ExternalId = {0, 1, 2, 3}
    MaxNodes = 4
    MaxArcs = 9
    Walks <- WalksBetween
    Algorithms = {"dijkstra", "astar_euclidean"}
SPECIFICATION Spec
INVARIANTS
    TypeOK
    ZeroHeuristicIsCheapest
    EuclideanIsCheapest
    RouteIsReal
    SkipLosesNothing
    SettledInOrder
    EveryFrontierNodeIsQueued
PROPERTIES
    OneImprovementPerScan
    KeepsThePromise
    EveryQueryIsAnswered
