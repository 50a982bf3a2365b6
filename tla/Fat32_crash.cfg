SPECIFICATION FairSpec
CONSTANTS
    CLUSTER_MAP_SIZE = 7
    BlockCells = 4
    TableSlots = 3
    Names = {n1, n2}
    NoName = NoName
    RootName = RootName
    Payloads = {p1}
    Lengths = {2}
    StrayWords = {0}
    Requests = {"write", "delete"}
    PowerFailsIn = {"idle", "mkdir", "file"}
INVARIANTS TypeOK NoCrossLink FilesWhole FatFlushed
PROPERTIES CallsReturn SelfEntryKept CommittedUntouched
