SPECIFICATION FairBootSpec
CONSTANTS
    CLUSTER_MAP_SIZE = 14
    BlockCells = 4
    TableSlots = 5
    Names = {shell, ikanaide, kano1, kano2, daijoubu}
    NoName = NoName
    RootName = RootName
    Payloads = {p1, p2}
    Lengths = {2}
    StrayWords = {0}
    Requests = {"read", "write"}
    PowerFailsIn = {"idle", "mkdir", "file"}
    PAGE_ENTRY_COUNT = 4
    KERNEL_PAGE = 3
    Allocations = 1
    ShellName = shell
    Ikanaide = ikanaide
    Kano1 = kano1
    Kano2 = kano2
    Daijoubu = daijoubu
    KANO2_PARENT = 6
    DAIJOUBU_PARENT = 7
    SHELL_SIZE = 2
    SHELL_BUFFER = 3
    DAIJOUBU_SIZE = 2
    ShellText = p1
    DaijoubuText = p2
INVARIANTS NoCrossLink FilesWhole ShellLoaded
PROPERTIES SelfEntryKept BootEnds
