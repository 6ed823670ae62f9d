CONSTANTS
    Infinity <- RoundedInfinity
    Cost <- TwoBits
    Plus <- RoundedPlus
    Coord <- RoundedCoord
    Hypot <- RoundedHypot
    Graphs <- RoundedGraphs
    ExternalId = {0, 1, 2, 3}
    MaxNodes = 4
    MaxArcs = 9
    Walks <- WalksBetween
    Algorithms = {"astar_euclidean"}
SPECIFICATION Spec
INVARIANT
    EuclideanIsCheapest
