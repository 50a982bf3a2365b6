SPECIFICATION FairSpec
CONSTANTS
    MAX_ROWS = 2
    MAX_COLS = 3
    Byte = 4
    Scancodes = {"enter", "esc", "left", "shift", "shift_release"}
    Fifo = 2
    TypeAhead = FALSE
    Prompts <- MCShort
    Outputs <- MCNone
    Refusals <- MCRefusals
INVARIANTS FreshLine InterruptPending
PROPERTIES ScancodesProcessed EnterEnds
CHECK_DEADLOCK FALSE
