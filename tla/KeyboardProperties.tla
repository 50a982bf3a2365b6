------------------------- MODULE KeyboardProperties -------------------------
(***************************************************************************)
(* What a line typed at the keyboard may rely on.                          *)
(***************************************************************************)
EXTENDS Keyboard

\* Types of the state; the cursor stays what a uint16_t made of two uint8_t is.
TypeOK ==
    /\ fifo \in Seq(Scancodes) /\ Len(fifo) <= Fifo
    /\ irq \in BOOLEAN /\ inService \in BOOLEAN
    /\ input_on \in BOOLEAN /\ shift_pressed \in BOOLEAN /\ caps_cond \in BOOLEAN
    /\ buffer_index \in Index /\ keyboard_buffer \in [Index -> Char]
    /\ tempCode \in Writing \cup {NoCode}
    /\ DOMAIN screen = {"cells", "cursor"} /\ DOMAIN screen.cells = Cell
    /\ screen.cursor \in Positions
    /\ pc \in {"prompt", "read", "spin", "reset", "command", "output"}
    /\ line \in [Index -> Char]

\* While a line is being read, the screen shows it: the characters before the
\* cursor are the ones in the buffer before buffer_index, through scrolling,
\* wrapping of rows and of the index, backspaces and keys typed ahead
\* (keyboard_isr with framebuffer_write, framebuffer_scroll_ln).
EchoMatches ==
    input_on =>
       /\ screen.cursor \in buffer_index .. Size - 1
       /\ \A i \in 0 .. buffer_index - 1 :
             screen.cells[screen.cursor - buffer_index + i] = keyboard_buffer[i]

\* Reading begins with the cursor on the screen.  A prompt that ends in the last
\* cell leaves it behind that cell, and so may a refusal (user-shell.c:80).
ShellOnScreen == pc = "read" => screen.cursor < Size

\* Each reading starts from nothing, whatever was typed, cleared or typed ahead
\* before it (reset_keyboard_buffer, and the handler while input is off).
FreshLine == pc = "read" => buffer_index = 0 /\ keyboard_buffer = EmptyBuffer

\* After Enter the line stays what it is until the shell has it, although
\* interrupts are on and keys typed ahead reach the handler (system call 4).
FreezesLine ==
    (pc = "spin" /\ ~input_on) \/ (pc = "reset" /\ pc' = "reset")
    => /\ UNCHANGED <<keyboard_buffer, screen, input_on>>
       /\ pc' = "reset" => line' = keyboard_buffer
LineFrozen == [][FreezesLine]_vars

\* While a line is being read, a code that waits in the controller has its
\* interrupt on the way: the keyboard is not deaf.
InterruptPending == input_on /\ fifo # <<>> => irq /\ ~inService

\* keyboard.h: "Will start listen and process keyboard scancode if
\* keyboard_input_on": a code that waits while a line is read is read in time.
ScancodesProcessed == input_on /\ fifo # <<>> ~> (~input_on \/ fifo = <<>>)

\* A line can be ended with Enter unless shift or caps lock is on.
EnterEnds == input_on /\ fifo # <<>> /\ Head(fifo) = "enter" /\ tempCode # "enter"
             /\ shift_pressed = caps_cond ~> pc = "reset"
=============================================================================
