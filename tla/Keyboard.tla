------------------------------ MODULE Keyboard ------------------------------
(***************************************************************************)
(* A line typed at the keyboard on its way to the shell: the controller    *)
(* and the interrupt controller, the interrupt handler keyboard_isr(), and *)
(* the shell with the system calls it makes, 4 (read a line) and 5 to 7    *)
(* (the screen).  System calls run with interrupts off, except that call 4 *)
(* turns them on to wait for a line and leaves them on until it returns;   *)
(* in the shell they are on.  The handler itself is not interrupted.       *)
(***************************************************************************)
EXTENDS Screen, FiniteSets

CONSTANTS
    Scancodes,   \* the codes the keyboard sends
    Fifo,        \* bound: how many codes the controller keeps (16)
    TypeAhead,   \* may keys be pressed while no line is being read?
    Prompts,     \* what print_home writes, in one directory or another
    Outputs,     \* what commands write
    Refusals     \* what a command writes that returns without a prompt

\* The codes that keyboard_isr() tells apart.  "release" is the release of any
\* key but left shift, "ctrl" stands for the keys mapped to 0 without shift.
ASSUME KnownScancodes ==
    /\ Scancodes \subseteq {"letter", "enter", "back", "ctrl", "esc", "left",
                            "shift", "caps", "release", "shift_release"}
    /\ Fifo \in Nat \ {0} /\ TypeAhead \in BOOLEAN

VARIABLES
    fifo,          \* controller: codes not read yet; the first is in port 0x60
    irq,           \* interrupt controller: request 1 is latched
    inService,     \* interrupt controller: request 1 is not acknowledged yet
    input_on, shift_pressed, caps_cond,      \* keyboard_state
    buffer_index, keyboard_buffer,           \* keyboard_state
    tempCode,      \* the last code, when it was a key that writes
    screen,        \* video memory and cursor
    pc,            \* where the shell is, or the kernel on its behalf
    line           \* buf of the shell's main()

hardware == <<fifo, irq, inService>>
keyboard_state == <<input_on, shift_pressed, caps_cond, buffer_index, keyboard_buffer, tempCode>>
vars == <<hardware, keyboard_state, screen, pc, line>>

Index       == 0 .. Byte - 1
EmptyBuffer == [i \in Index |-> Null]
NoCode      == "none"
Escape      == "escape"
Backspace   == "backspace"

\* The two tables.  In the second one the place of Enter holds '?' and that of
\* Backspace 0; "left" lies behind its end and is not looked at.
keyboard_scancode_1_to_ascii_map ==
    [letter |-> "a", enter |-> Newline, back |-> Backspace, ctrl |-> Null,
     esc |-> Escape, left |-> Null]
scancode_capital_letters ==
    [letter |-> "A", enter |-> "?", back |-> Null, ctrl |-> "?",
     esc |-> Escape, left |-> Null]
Writing == DOMAIN keyboard_scancode_1_to_ascii_map
Char == {"a", "A", "?", Null, Escape}

\* What cells show, and what strings are made of.
Glyph == Char \cup {">", Blank}
ASSUME StringsAreText == \A str \in Outputs \cup Refusals : str \in Seq(Glyph \cup {Newline})

\* A prompt is "OSyikkk:", the path of any length and "> ".
ASSUME PromptsAreText == \A str \in Prompts : str \in Seq(Glyph) /\ Len(str) >= 2

(***************************************************************************)
(* The hardware.  The request line follows the controller's output buffer  *)
(* and the interrupt controller is programmed for edges (ICW1 without      *)
(* ICW1_LEVEL): a request is latched when the buffer gets its first code,  *)
(* and again when the next code moves up after a read.                     *)
(***************************************************************************)
Press(code) ==
    /\ TypeAhead \/ (pc = "spin" /\ input_on /\ fifo = <<>>)
    /\ Len(fifo) < Fifo
    /\ fifo' = Append(fifo, code)
    /\ irq' = (irq \/ fifo = <<>>)
    /\ UNCHANGED <<inService, keyboard_state, screen, pc, line>>

(***************************************************************************)
(* keyboard_isr()                                                          *)
(***************************************************************************)
Deliver == irq /\ ~inService

ReadPort ==
    /\ fifo' = Tail(fifo)
    /\ irq' = (Tail(fifo) # <<>>)

\* Fault: the end of the handler is not reported to the interrupt controller.
NoPicAck == inService' = TRUE
PicAck   == inService' = FALSE

\* Input is off: the index is reset and the port is not read.
IgnoreKey ==
    /\ Deliver /\ ~input_on
    /\ irq' = FALSE
    /\ buffer_index' = 0
    /\ PicAck
    /\ UNCHANGED <<fifo, input_on, shift_pressed, caps_cond, keyboard_buffer, tempCode,
                   screen, pc, line>>

Mapped(code, shift, caps) ==
    IF shift = caps THEN keyboard_scancode_1_to_ascii_map[code]
    ELSE scancode_capital_letters[code]

\* A code that writes nothing: shift, caps lock, a release.
Modifier(code) ==
    /\ code \notin Writing
    /\ shift_pressed' = (code = "shift" \/ (shift_pressed /\ code # "shift_release"))
    /\ caps_cond' = (caps_cond # (code = "caps"))
    /\ tempCode' = NoCode
    /\ UNCHANGED <<input_on, buffer_index, keyboard_buffer, screen>>

\* The same code again: the keyboard repeats a key that is held.
Repeated(code) ==
    /\ code \in Writing /\ code = tempCode
    /\ UNCHANGED <<keyboard_state, screen>>

Erase ==
    /\ buffer_index > 0
    /\ screen' = Erased(screen)
    /\ buffer_index' = buffer_index - 1
    /\ keyboard_buffer' = [keyboard_buffer EXCEPT ![buffer_index - 1] = Null]
    /\ UNCHANGED input_on

\* Fault: the line is not closed.
EndLineOpen == UNCHANGED <<input_on, buffer_index, keyboard_buffer, screen>>
EndLine ==
    /\ input_on' = FALSE
    /\ UNCHANGED <<buffer_index, keyboard_buffer, screen>>

\* Fault: the index is wider than a uint8_t.
EchoWide(ch) ==
    /\ buffer_index' = buffer_index + 1
    /\ keyboard_buffer' = [keyboard_buffer EXCEPT ![buffer_index] = ch]
    /\ screen' = Echoed(screen, ch)
    /\ UNCHANGED input_on

Echo(ch) ==
    /\ buffer_index' = (buffer_index + 1) % Byte
    /\ IF ch = Escape
       THEN /\ keyboard_buffer' = EmptyBuffer     \* clear_screen()
            /\ screen' = Cleared
       ELSE /\ keyboard_buffer' = [keyboard_buffer EXCEPT ![buffer_index] = ch]
            /\ screen' = Echoed(screen, ch)
    /\ UNCHANGED input_on

MoveLeft ==
    /\ screen' = IF Col(screen) = 2 THEN screen ELSE SetCursor(screen, Row(screen), Col(screen) - 1)
    /\ UNCHANGED <<input_on, buffer_index, keyboard_buffer>>

Written(code, ch) ==
    /\ code \in Writing /\ code # tempCode
    /\ \/ ch = Backspace /\ Erase
       \/ ch = Newline /\ EndLine
       \/ ch \notin {Backspace, Newline} /\ code # "left" /\ Echo(ch)
       \/ code = "left" /\ MoveLeft
       \/ /\ ch = Backspace /\ buffer_index = 0
          /\ UNCHANGED <<input_on, buffer_index, keyboard_buffer, screen>>
    /\ tempCode' = code
    /\ UNCHANGED <<shift_pressed, caps_cond>>

HandleCode ==
    /\ ReadPort
    /\ LET code == Head(fifo) IN
          \/ Modifier(code)
          \/ Repeated(code)
          \/ code \in Writing /\ Written(code, Mapped(code, shift_pressed, caps_cond))
    /\ PicAck
    /\ UNCHANGED <<pc, line>>

\* Fault: codes are taken whether input is on or not.
ServeKeyAlways == Deliver /\ HandleCode
ServeKey       == Deliver /\ input_on /\ HandleCode

keyboard_isr == IgnoreKey \/ ServeKey

(***************************************************************************)
(* The shell: main() and execute_cmd(), as far as lines and the screen go. *)
(***************************************************************************)
Goto(from, to) == pc = from /\ pc' = to

\* System call 4 up to sti: the handler may run from here on.
ReadLine ==
    /\ Goto("read", "spin")
    /\ input_on' = TRUE
    /\ UNCHANGED <<hardware, shift_pressed, caps_cond, buffer_index, keyboard_buffer, tempCode,
                   screen, line>>

\* is_keyboard_blocking() has turned false.
GetBuffer ==
    /\ Goto("spin", "reset") /\ ~input_on
    /\ line' = keyboard_buffer
    /\ UNCHANGED <<hardware, keyboard_state, screen>>

\* Fault: the index stays where the last line ended.
ResetBufferOnly ==
    /\ Goto("reset", "command")
    /\ keyboard_buffer' = EmptyBuffer
    /\ UNCHANGED <<hardware, input_on, shift_pressed, caps_cond, buffer_index, tempCode,
                   screen, line>>

ResetBuffer ==
    /\ Goto("reset", "command")
    /\ keyboard_buffer' = EmptyBuffer
    /\ buffer_index' = 0
    /\ UNCHANGED <<hardware, input_on, shift_pressed, caps_cond, tempCode, screen, line>>

\* execute_cmd() ends the line of the prompt first, but not for clear.
StartOutput ==
    /\ Goto("command", "output")
    /\ screen' = WriteString(screen, <<Newline>>)
    /\ UNCHANGED <<hardware, keyboard_state, line>>

\* System call 5.
WriteOut(str) ==
    /\ Goto("output", "output")
    /\ screen' = WriteString(screen, str)
    /\ UNCHANGED <<hardware, keyboard_state, line>>

\* "too many arguments", "source not found": execute_cmd() returns without a
\* prompt.  What it says of clear has no line feed before it nor in it.
Refuse(str) ==
    /\ pc \in {"command", "output"} /\ pc' = "read"
    /\ pc = "command" => Newline \notin ToSet(str)
    /\ screen' = WriteString(screen, str)
    /\ UNCHANGED <<hardware, keyboard_state, line>>

\* The command clear: system calls 7 and 6, then print_home.
Clear(str) ==
    /\ Goto("command", "read")
    /\ screen' = WriteString(SetCursor(Cleared, 0, 0), str)
    /\ keyboard_buffer' = EmptyBuffer
    /\ UNCHANGED <<hardware, input_on, shift_pressed, caps_cond, buffer_index, tempCode, line>>

\* System call 6 with (1, 0), the end of every other command.
NextLine ==
    /\ Goto("output", "prompt")
    /\ screen' = SetCursor(screen, Row(screen) + 1, 0)
    /\ UNCHANGED <<hardware, keyboard_state, line>>

PrintHome(str) ==
    /\ Goto("prompt", "read")
    /\ screen' = WriteString(screen, str)
    /\ UNCHANGED <<hardware, keyboard_state, line>>

Shell ==
    \/ ReadLine \/ GetBuffer \/ ResetBuffer
    \/ StartOutput
    \/ \E str \in Outputs : WriteOut(str)
    \/ \E str \in Refusals : Refuse(str)
    \/ NextLine
    \/ \E str \in Prompts : Clear(str) \/ PrintHome(str)

Init ==
    /\ fifo = <<>> /\ irq = FALSE /\ inService = FALSE
    /\ input_on = FALSE /\ shift_pressed = FALSE /\ caps_cond = FALSE
    /\ buffer_index = 0 /\ keyboard_buffer = EmptyBuffer /\ tempCode = NoCode
    /\ screen = [cells |-> [o \in Cell |-> Blank], cursor |-> 0]
    /\ pc = "prompt"
    /\ line = EmptyBuffer

Next == (\E code \in Scancodes : Press(code)) \/ keyboard_isr \/ Shell
Spec == Init /\ [][Next]_vars

\* The processor takes a pending interrupt whenever interrupts are on, and
\* they are on whenever call 4 waits; nothing keeps the wait loop from ending.
FairSpec == Spec /\ WF_vars(keyboard_isr) /\ WF_vars(GetBuffer)
=============================================================================
