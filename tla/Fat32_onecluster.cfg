SPECIFICATION FairSpec
CONSTANTS
    CLUSTER_MAP_SIZE = 7
    BlockCells = 4
    TableSlots = 3
    Names = {n1}
    NoName = NoName
    RootName = RootName
    Payloads = {p1}
    Lengths = {1}
    StrayWords = {0}
    Requests = {"write", "delete"}
    PowerFailsIn = {}
PROPERTY CallsReturn
