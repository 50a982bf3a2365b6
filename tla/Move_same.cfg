SPECIFICATION MoveSpec
CONSTANTS
    CLUSTER_MAP_SIZE = 6
    BlockCells = 4
    TableSlots = 3
    Names = {n1}
    NoName = NoName
    RootName = RootName
    Payloads = {p1}
    Lengths = {2}
    StrayWords = {0}
    Requests = {"write", "delete"}
    PowerFailsIn = {}
    Moves = {"apart", "same"}
    MoveCut = FALSE
INVARIANT InOnePlace
