SPECIFICATION CutSpec
CONSTANTS
    CLUSTER_MAP_SIZE = 7
    BlockCells = 4
    TableSlots = 5
    Names = {n1, n2}
    NoName = NoName
    RootName = RootName
    Payloads = {p1}
    Lengths = {2}
    StrayWords = {0}
    Requests = {"write", "delete"}
    PowerFailsIn = {"idle", "mkdir", "file"}
    Moves = {"apart"}
    MoveCut = TRUE
INVARIANTS MoveTypeOK NoCrossLink FilesWhole NoLeakWhilePowered
SYMMETRY NameSymmetry
