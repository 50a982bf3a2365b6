SPECIFICATION Spec
CONSTANTS
    CLUSTER_MAP_SIZE = 7
    BlockCells = 4
    TableSlots = 3
    Names = {n1}
    NoName = NoName
    RootName = RootName
    Payloads = {p1, p2}
    Lengths = {2}
    StrayWords = {0}
    Requests = {"read_directory", "read", "write", "delete"}
    PowerFailsIn = {"idle", "mkdir", "file"}
SYMMETRY Symmetry
PROPERTY ImplementsStore
