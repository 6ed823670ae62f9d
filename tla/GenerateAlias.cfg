CONSTANTS
    Procs = {p, q}
    Paths <- MCPaths
    Normal <- MCNormal
    Files <- MCFiles
    FileAt <- MCFileAt
    Unreachable = {"x/b"}
    CommandLines <- MCCommandLines
    Pieces <- MCPieces
    Absent = Absent
    Old = Old
SPECIFICATION Spec
CHECK_DEADLOCK FALSE
INVARIANT
    EverySuccessMeansBothFiles
