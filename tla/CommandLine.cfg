CONSTANTS
    Infinity <- MCInfinity
    Cost <- MCCost
    Plus <- MCPlus
    Coord <- MCCoord
    Hypot <- MCHypot
    ExternalId = {0, 1, 2}
    MaxNodes = 3
    MaxArcs = 4
    WordBits = 3
    Gamma = 5
    Shifts <- MCShifts
    Factors <- MCFactors
    Smears <- MCSmears
    Graphs <- MCGraphs
    Requests = {}
    MaxQueries = 3
    Replies <- MCReplies
    Efforts <- MCEfforts
    One = 4
    Precision = 4
    CommandLines <- MCCommandLines
    Dashed <- MCDashed
    IntegerOf <- MCIntegerOf
    RealOf <- MCRealOf
    Garbled = Garbled
    IndexWords = {0, 1, 2, 3}
    Unusable <- MCUnusable
    Walks <- WalksBetween
    Algorithms = {"dijkstra", "astar_zero", "astar_euclidean"}
    NoGraph = NoGraph
SPECIFICATION ProgramSpec
INVARIANTS
    OptionsAreWhatWasSaid
    ExitCodeTellsTheOutcome
    RouteIsTheOneAsked
