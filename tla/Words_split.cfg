SPECIFICATION FairWords
CONSTANTS
    NUL = NUL
    Letters = {"a"}
    KEYBOARD_BUFFER_SIZE = 6
    Rows = 4
    Columns = 5
    NameLength = 3
    ExtLength = 1
    Behind <- MCBehind
INVARIANTS RowsAreTheLine StaysInside StemAndExtension
PROPERTY SplitEnds
CHECK_DEADLOCK FALSE
