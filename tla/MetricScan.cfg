CONSTANTS
    Infinity <- MCInfinity
    Cost <- MCCost
    Plus <- MCPlus
    Coord <- MCCoord
    Hypot <- MCHypot
    ExternalId = {0, 1, 2, 3}
    MaxNodes = 4
    MaxArcs = 9
    Graphs <- MCGraphs
    Quotient <- MCQuotient
    One = 2
SPECIFICATION Spec
CHECK_DEADLOCK FALSE
INVARIANTS
    ReportIsTheDefinedOne
    VerdictMatchesWorstRatio
