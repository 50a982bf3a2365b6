SPECIFICATION Spec
CONSTANTS
    MAX_ROWS = 2
    MAX_COLS = 3
    Byte = 4
    Scancodes = {"letter", "ctrl", "back", "enter", "release"}
    Fifo = 2
    TypeAhead = TRUE
    Prompts <- MCPrompts
    Outputs <- MCOutputs
    Refusals <- MCNone
INVARIANTS TypeOK EchoMatches FreshLine
PROPERTY LineFrozen
CHECK_DEADLOCK FALSE
