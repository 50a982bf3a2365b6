SPECIFICATION FairShellSpec
CONSTANTS
    CLUSTER_MAP_SIZE = 17
    BlockCells = 4
    TableSlots = 6
    Names <- MCNames
    NoName <- MCNoName
    RootName <- MCRootName
    Payloads = {p1, p2}
    Lengths = {2}
    StrayWords = {0}
    Requests = {"read_directory", "read", "write", "delete"}
    PowerFailsIn = {}
    Moves = {}
    MoveCut = FALSE
    PAGE_ENTRY_COUNT = 4
    KERNEL_PAGE = 3
    Allocations = 1
    ShellName <- MCShellName
    Ikanaide <- MCIkanaide
    Kano1 <- MCKano1
    Kano2 <- MCKano2
    Daijoubu <- MCDaijoubu
    KANO2_PARENT = 6
    DAIJOUBU_PARENT = 7
    SHELL_SIZE = 2
    SHELL_BUFFER = 3
    DAIJOUBU_SIZE = 2
    ShellText = p1
    DaijoubuText = p2
    Lines <- MCLines
    LinesTyped = 4
    LongStems <- MCLongStems
INVARIANT WhereIsComplete
PROPERTIES StackKept StackGoesStaleUpwards WritesLiveDirectories TreeCopied CommandsEnd
CHECK_DEADLOCK FALSE
