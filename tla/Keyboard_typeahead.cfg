SPECIFICATION FairSpec
CONSTANTS
    MAX_ROWS = 2
    MAX_COLS = 3
    Byte = 4
    Scancodes = {"letter", "enter", "release"}
    Fifo = 2
    TypeAhead = TRUE
    Prompts <- MCShort
    Outputs <- MCOutputs
    Refusals <- MCNone
PROPERTY ScancodesProcessed
CHECK_DEADLOCK FALSE
