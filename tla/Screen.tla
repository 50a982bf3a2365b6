------------------------------- MODULE Screen -------------------------------
(***************************************************************************)
(* The text framebuffer (src/src/framebuffer/framebuffer.c) as operators   *)
(* on a screen: the visible cells of video memory and the position of the  *)
(* hardware cursor.  Rows and columns are uint8_t, so they wrap at Byte;   *)
(* the cursor can be off the screen, and a character written there goes to *)
(* video memory that is not shown.                                         *)
(***************************************************************************)
EXTENDS Integers, SequencesExt

CONSTANTS
    MAX_ROWS,   \* 25
    MAX_COLS,   \* 80
    Byte        \* 256: what a uint8_t counts to

\* A column number fits a uint8_t, and so does the row below the next-to-last
\* one; the keyboard's buffer has as many characters as a uint8_t has values
\* and must not be larger than the screen without its last row.
ASSUME ScreenSize ==
    /\ MAX_ROWS \in Nat \ {0} /\ MAX_COLS \in Nat \ {0} /\ Byte \in Nat \ {0}
    /\ MAX_COLS < Byte /\ MAX_ROWS + 1 < Byte
    /\ Byte <= (MAX_ROWS - 1) * MAX_COLS + 1

Size == MAX_ROWS * MAX_COLS
Cell == 0 .. Size - 1

Blank   == "blank"     \* 0x20
Null    == "null"      \* 0x00
Newline == "newline"   \* line feed, in a string

\* A position from a row and a column, as a uint16_t.
Position(r, c) == (r % Byte) * MAX_COLS + (c % Byte)
Positions == 0 .. (Byte - 1) * MAX_COLS + Byte - 1

\* framebuffer_get_cursor()
Row(scr) == (scr.cursor \div MAX_COLS) % Byte
Col(scr) == scr.cursor % MAX_COLS

SetCursor(scr, r, c) == [scr EXCEPT !.cursor = Position(r, c)]

Put(scr, r, c, ch) ==
    [scr EXCEPT !.cells = [o \in Cell |-> IF o = Position(r, c) THEN ch ELSE @[o]]]

\* framebuffer_clear(), the cursor at (0, 0) and the string "> ".
Cleared == [cells |-> [o \in Cell |-> IF o = 0 THEN ">" ELSE Blank], cursor |-> 2]

\* framebuffer_scroll_ln(): the row that comes up from below is blanked.
Scrolled(scr) ==
    [scr EXCEPT !.cells = [o \in Cell |-> IF o + MAX_COLS \in Cell THEN @[o + MAX_COLS] ELSE Blank]]

\* One character of framebuffer_write_string(): s.at is its offset.
WriteNext(s, ch) ==
    LET t == IF s.at >= Size THEN [scr |-> Scrolled(s.scr), at |-> s.at - MAX_COLS] ELSE s
    IN  IF ch = Newline
        THEN [t EXCEPT !.at = (@ \div MAX_COLS + 1) * MAX_COLS]
        ELSE [scr |-> Put(t.scr, t.at \div MAX_COLS, t.at % MAX_COLS, ch), at |-> t.at + 1]

WriteString(scr, str) ==
    LET s == FoldLeft(WriteNext, [scr |-> scr, at |-> Position(Row(scr), Col(scr))], str)
    IN  SetCursor(s.scr, s.at \div MAX_COLS, s.at % MAX_COLS)

\* The echo of a key: scrolls first when the cursor is in the last cell.
\* Fault: no scrolling.
EchoedUnscrolled(scr, ch) ==
    SetCursor(Put(scr, Row(scr), Col(scr), ch), Row(scr), Col(scr) + 1)

Echoed(scr, ch) ==
    LET last == Row(scr) = MAX_ROWS - 1 /\ Col(scr) = MAX_COLS - 1
        at   == Position(Row(scr), Col(scr)) - (IF last THEN MAX_COLS ELSE 0)
        s    == IF last THEN Scrolled(scr) ELSE scr
    IN  SetCursor(Put(s, at \div MAX_COLS, at % MAX_COLS, ch),
                  at \div MAX_COLS, (at % MAX_COLS) + 1)

\* Backspace steps back over the start of a row.
Erased(scr) ==
    LET r == IF Col(scr) = 0 THEN Row(scr) - 1 ELSE Row(scr)
        c == IF Col(scr) = 0 THEN MAX_COLS - 1 ELSE Col(scr) - 1
    IN  Put(SetCursor(scr, r, c), r, c, Null)
=============================================================================
