CONSTANTS
    Infinity <- MCInfinity
    Cost <- MCCost
    Plus <- MCPlus
    Coord <- MCCoord
    Hypot <- MCHypot
    ExternalId = {0, 1, 2, 3, 4}
    MaxNodes = 5
    MaxArcs = 1
    WordBits = 4
    Gamma = 9
    Shifts <- MCShifts
    Factors <- MCFactors
    Smears <- MCSmears
    Graphs <- MCGraphs
    Requests <- MCRequests
    MaxQueries = 3
    Replies <- MCReplies
    Efforts <- MCEfforts
    One = 4
    Precision = 4
SPECIFICATION BenchmarkSpec
INVARIANTS
    BenchmarkTypeOK
    NodesAreDrawnAlike
    ReportMeansAgreement
    SummaryIsEveryPass
    NoneIsAlwaysFirst
PROPERTY
    EveryBenchmarkEnds
