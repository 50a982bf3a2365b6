--------------------------- MODULE KeyboardProofs ---------------------------
(***************************************************************************)
(* Proofs about the keyboard, for every size of the screen and of the      *)
(* buffer, every set of scan codes and of strings and every capacity of    *)
(* the controller.                                                         *)
(***************************************************************************)
EXTENDS KeyboardProperties, WellFoundedInduction, TLAPS

\* Outside system call 4 input is off and nothing is left in the buffer; before
\* it is emptied the shell has a copy of it.
Between == {"command", "output", "prompt", "read"}
Quiet ==
    /\ input_on => pc = "spin"
    /\ pc \in Between => buffer_index = 0 /\ keyboard_buffer = EmptyBuffer
    /\ pc = "reset" => line = keyboard_buffer

\* Quiet holds at the start and is kept by every step: the handler writes to
\* the buffer only in call 4, and call 4 empties it before it returns.
LEMMA QuietInit == Init => Quiet
  BY DEF Init, Quiet, Between

\* No step lets the handler write outside of call 4.
LEMMA QuietStep == Quiet /\ [Next]_vars => Quiet'
  <1> SUFFICES ASSUME Quiet, [Next]_vars PROVE Quiet'
    OBVIOUS
  <1> USE DEF Quiet, Between
  <1>1. ASSUME NEW code \in Scancodes, Press(code) PROVE Quiet'
    BY <1>1 DEF Press, keyboard_state
  <1>2. CASE IgnoreKey
    BY <1>2 DEF IgnoreKey
  <1>3. CASE ServeKey
    BY <1>3 DEF ServeKey, HandleCode
  <1>4. CASE ReadLine
    BY <1>4 DEF ReadLine, Goto
  <1>5. CASE GetBuffer
    BY <1>5 DEF GetBuffer, Goto, keyboard_state
  <1>6. CASE ResetBuffer
    BY <1>6 DEF ResetBuffer, Goto
  <1>7. CASE StartOutput
    BY <1>7 DEF StartOutput, Goto, keyboard_state
  <1>8. ASSUME NEW str \in Outputs, WriteOut(str) PROVE Quiet'
    BY <1>8 DEF WriteOut, Goto, keyboard_state
  <1>9. ASSUME NEW str \in Refusals, Refuse(str) PROVE Quiet'
    BY <1>9 DEF Refuse, keyboard_state
  <1>10. ASSUME NEW str \in Prompts, Clear(str) PROVE Quiet'
    BY <1>10 DEF Clear, Goto
  <1>11. CASE NextLine
    BY <1>11 DEF NextLine, Goto, keyboard_state
  <1>12. ASSUME NEW str \in Prompts, PrintHome(str) PROVE Quiet'
    BY <1>12 DEF PrintHome, Goto, keyboard_state
  <1>13. CASE UNCHANGED vars
    BY <1>13 DEF vars, keyboard_state
  <1> QED
    BY <1>1, <1>2, <1>3, <1>4, <1>5, <1>6, <1>7, <1>8, <1>9, <1>10, <1>11, <1>12, <1>13
    DEF Next, keyboard_isr, Shell

\* Hence it always holds.
LEMMA AlwaysQuiet == Spec => []Quiet
  BY QuietInit, QuietStep, PTL DEF Spec

\* Each reading starts from an empty buffer and index 0: what reset_keyboard_buffer
\* leaves is not touched by the handler, the screen's calls or clear.
THEOREM FreshLineAlways == Spec => []FreshLine
  <1>1. Quiet => FreshLine
    BY DEF Quiet, Between, FreshLine
  <1> QED
    BY <1>1, AlwaysQuiet, PTL

\* From Enter to the copy in the shell nothing changes the line: with input off
\* the handler touches the index only.
THEOREM LineFrozenAlways == Spec => LineFrozen
  <1>1. ASSUME Quiet, [Next]_vars PROVE [FreezesLine]_vars
    <2> SUFFICES ASSUME Next, (pc = "spin" /\ ~input_on) \/ (pc = "reset" /\ pc' = "reset")
                 PROVE  /\ UNCHANGED <<keyboard_buffer, screen, input_on>>
                        /\ pc' = "reset" => line' = keyboard_buffer
      BY <1>1 DEF FreezesLine
    <2>1. ASSUME NEW code \in Scancodes, Press(code)
          PROVE  UNCHANGED <<keyboard_buffer, screen, input_on, pc, line>>
      BY <2>1 DEF Press, keyboard_state
    <2>2. CASE IgnoreKey
      BY <1>1, <2>2 DEF IgnoreKey, Quiet
    <2>3. CASE GetBuffer
      BY <2>3 DEF GetBuffer, Goto, keyboard_state
    <2>4. ~ServeKey
      BY <1>1 DEF ServeKey, Quiet
    <2>5. pc \in {"spin", "reset"} /\ (pc = "reset" => pc' = "reset")
      OBVIOUS
    <2>6. Shell => GetBuffer
      BY <2>5 DEF Shell, ReadLine, ResetBuffer, StartOutput, WriteOut, Refuse, Clear, NextLine, PrintHome, Goto
    <2> QED
      BY <1>1, <2>1, <2>2, <2>3, <2>4, <2>5, <2>6 DEF Next, keyboard_isr, Quiet
  <1> QED
    BY <1>1, AlwaysQuiet, PTL DEF Spec, LineFrozen

(***************************************************************************)
(* A patient user, who presses a key only when the last one was read.      *)
(***************************************************************************)
\* At most one code waits, it waits for a reading that goes on, and its
\* interrupt is on the way.
Attended ==
    /\ ~inService
    /\ fifo \in Seq(Scancodes) /\ Len(fifo) <= 1
    /\ fifo # <<>> => irq /\ input_on

\* No step of a patient user's session leaves a code unattended.
LEMMA AttendedStep == ASSUME TypeAhead = FALSE, Quiet, Attended, [Next]_vars PROVE Attended'
  <1> USE DEF Attended
  <1>1. ASSUME NEW code \in Scancodes, Press(code) PROVE Attended'
    <2>1. input_on /\ fifo = <<>>
      BY <1>1 DEF Press
    <2>2. fifo' = <<code>> /\ inService' = inService /\ input_on' = input_on
      BY <1>1, <2>1 DEF Press, keyboard_state
    <2>3. irq'
      BY <1>1, <2>1, Zenon DEF Press
    <2> QED
      BY <2>1, <2>2, <2>3
  <1>2. CASE IgnoreKey
    BY <1>2 DEF IgnoreKey, Deliver, PicAck
  <1>3. CASE ServeKey
    <2>1. fifo' = <<>> /\ inService' = FALSE
      BY <1>3 DEF ServeKey, HandleCode, ReadPort, PicAck
    <2> QED
      BY <2>1
  <1>4. CASE Shell
    <2>1. UNCHANGED <<fifo, irq, inService>> /\ (input_on' = input_on \/ input_on' = TRUE)
      BY <1>4 DEF Shell, ReadLine, GetBuffer, ResetBuffer, StartOutput, WriteOut, Refuse, Clear, NextLine,
                  PrintHome, hardware, keyboard_state
    <2> QED
      BY <2>1
  <1>5. CASE UNCHANGED vars
    BY <1>5 DEF vars, hardware, keyboard_state
  <1> QED
    BY <1>1, <1>2, <1>3, <1>4, <1>5 DEF Next, keyboard_isr

\* While a line is read and nothing is typed ahead, the keyboard never goes deaf:
\* a code that waits in the controller has its interrupt on the way.
THEOREM InterruptPendingPatient == ASSUME TypeAhead = FALSE PROVE Spec => []InterruptPending
  <1>1. Init => Attended
    BY DEF Init, Attended
  <1>2. Quiet /\ Attended /\ [Next]_vars => Attended'
    BY AttendedStep
  <1>3. Attended => InterruptPending
    BY DEF Attended, InterruptPending
  <1> QED
    BY <1>1, <1>2, <1>3, AlwaysQuiet, PTL DEF Spec

(***************************************************************************)
(* Numbers and positions.                                                  *)
(***************************************************************************)

\* Quotient and remainder.
LEMMA DivMod ==
    ASSUME NEW a \in Int, NEW M \in Nat \ {0}
    PROVE  /\ a \div M \in Int /\ a % M \in 0 .. M - 1
           /\ a = (a \div M) * M + (a % M)
  OBVIOUS

\* Multiplying by a natural keeps an order.
LEMMA Times ==
    ASSUME NEW a \in Int, NEW b \in Int, NEW M \in Nat, a <= b
    PROVE  a * M \in Int /\ b * M \in Int /\ a * M <= b * M
  OBVIOUS

\* A position is what two bytes make of it.
LEMMA PositionType ==
    ASSUME NEW r \in Int, NEW c \in Int
    PROVE  Position(r, c) \in Positions
<1>1. /\ MAX_COLS \in Nat \ {0} /\ Byte \in Nat \ {0}
  BY ScreenSize
<1>2. r % Byte \in 0 .. Byte - 1 /\ c % Byte \in 0 .. Byte - 1
  BY <1>1, DivMod
<1>3. (r % Byte) * MAX_COLS \in Nat /\ (r % Byte) * MAX_COLS <= (Byte - 1) * MAX_COLS
  BY <1>1, <1>2, Times
<1>4. QED
  BY <1>1, <1>2, <1>3 DEF Position, Positions

\* On the screen and in the two rows below it nothing wraps.
Near == 0 .. Size + MAX_COLS

\* The row and column of a position near the screen are what the registers give.
LEMMA PositionKept ==
    ASSUME NEW p \in Near, NEW scr, scr.cursor = p
    PROVE  /\ p \in Int /\ p \div MAX_COLS \in 0 .. MAX_ROWS + 1 /\ p % MAX_COLS \in 0 .. MAX_COLS - 1
           /\ p = (p \div MAX_COLS) * MAX_COLS + (p % MAX_COLS)
           /\ Row(scr) = p \div MAX_COLS /\ Col(scr) = p % MAX_COLS
<1>1. /\ MAX_COLS \in Nat \ {0} /\ MAX_ROWS \in Nat \ {0} /\ MAX_ROWS + 1 < Byte /\ Byte \in Nat
  BY ScreenSize
<1>2. Size = MAX_ROWS * MAX_COLS /\ Size \in Nat
  BY <1>1 DEF Size
<1>3. p \in Nat /\ p <= Size + MAX_COLS
  BY <1>1, <1>2 DEF Near
<1> DEFINE r == p \div MAX_COLS
           c == p % MAX_COLS
<1>4. r \in Int /\ c \in 0 .. MAX_COLS - 1 /\ p = r * MAX_COLS + c
  <2>1. p \in Int /\ MAX_COLS \in Nat \ {0}
    BY <1>1, <1>3
  <2>2. /\ p \div MAX_COLS \in Int /\ p % MAX_COLS \in 0 .. MAX_COLS - 1
        /\ p = (p \div MAX_COLS) * MAX_COLS + (p % MAX_COLS)
    BY <2>1, DivMod
  <2>3. QED
    BY <2>2
<1> HIDE DEF r, c
<1>5. (MAX_ROWS + 2) * MAX_COLS = Size + MAX_COLS + MAX_COLS
  BY <1>1, <1>2
<1>6. r <= MAX_ROWS + 1
  <2> SUFFICES ASSUME MAX_ROWS + 2 <= r PROVE FALSE
    BY <1>1, <1>4
  <2>1. Size + MAX_COLS + MAX_COLS <= r * MAX_COLS
    BY <1>1, <1>4, <1>5, Times
  <2>2. QED
    BY <1>1, <1>2, <1>3, <1>4, <2>1
<1>7. 0 <= r
  <2> SUFFICES ASSUME r <= -1 PROVE FALSE
    BY <1>4
  <2>1. r * MAX_COLS <= (-1) * MAX_COLS
    BY <1>1, <1>4, Times
  <2>2. QED
    BY <1>1, <1>2, <1>3, <1>4, <2>1
<1>8. r % Byte = r
  BY <1>1, <1>4, <1>6, <1>7
<1>9. QED
  BY <1>3, <1>4, <1>6, <1>7, <1>8 DEF Row, Col, r, c

\* A row and a column that fit their bytes.
LEMMA PositionIs ==
    ASSUME NEW r \in 0 .. MAX_ROWS + 1, NEW c \in 0 .. MAX_COLS
    PROVE  Position(r, c) = r * MAX_COLS + c /\ r * MAX_COLS \in Nat
<1>1. /\ MAX_COLS \in Nat \ {0} /\ MAX_ROWS \in Nat \ {0} /\ MAX_ROWS + 1 < Byte /\ Byte \in Nat
      /\ MAX_COLS < Byte
  BY ScreenSize
<1>2. r % Byte = r /\ c % Byte = c
  BY <1>1
<1>3. QED
  BY <1>1, <1>2, Times DEF Position

(***************************************************************************)
(* Screens.                                                                *)
(***************************************************************************)
Screens == [cells : [Cell -> Glyph], cursor : Positions]

\* The parts of a screen.
LEMMA ScreenParts ==
    ASSUME NEW scr \in Screens
    PROVE  /\ scr.cells \in [Cell -> Glyph] /\ scr.cursor \in Nat
           /\ Row(scr) \in Nat /\ Col(scr) \in Nat
<1>1. /\ MAX_COLS \in Nat \ {0} /\ MAX_ROWS \in Nat \ {0} /\ Byte \in Nat \ {0}
  BY ScreenSize
<1>2. scr.cells \in [Cell -> Glyph] /\ scr.cursor \in Nat
  BY <1>1 DEF Screens, Positions
<1>3. scr.cursor \div MAX_COLS \in Nat /\ scr.cursor % MAX_COLS \in Nat
  BY <1>1, <1>2, SMT
<1>4. (scr.cursor \div MAX_COLS) % Byte \in Nat
  BY <1>1, <1>3
<1>5. QED
  BY <1>2, <1>3, <1>4 DEF Row, Col

\* Moving the cursor.
LEMMA SetCursorType ==
    ASSUME NEW scr \in Screens, NEW r \in Int, NEW c \in Int
    PROVE  /\ SetCursor(scr, r, c) \in Screens
           /\ SetCursor(scr, r, c).cells = scr.cells
           /\ SetCursor(scr, r, c).cursor = Position(r, c)
BY PositionType DEF SetCursor, Screens

\* Putting a character into a cell.
LEMMA PutType ==
    ASSUME NEW scr \in Screens, NEW r \in Int, NEW c \in Int, NEW ch \in Glyph
    PROVE  /\ Put(scr, r, c, ch) \in Screens
           /\ Put(scr, r, c, ch).cursor = scr.cursor
           /\ \A o \in Cell : Put(scr, r, c, ch).cells[o] =
                                 IF o = Position(r, c) THEN ch ELSE scr.cells[o]
BY DEF Put, Screens

\* Scrolling up by a row.
LEMMA ScrolledType ==
    ASSUME NEW scr \in Screens
    PROVE  /\ Scrolled(scr) \in Screens
           /\ Scrolled(scr).cursor = scr.cursor
           /\ \A o \in Cell : o + MAX_COLS \in Cell => Scrolled(scr).cells[o] = scr.cells[o + MAX_COLS]
BY DEF Scrolled, Screens, Glyph

\* The screen that ESC and clear leave.
LEMMA ClearedType == Cleared \in Screens /\ Cleared.cursor = 2
<1>1. /\ MAX_COLS \in Nat \ {0} /\ MAX_ROWS \in Nat \ {0} /\ MAX_ROWS + 1 < Byte /\ Byte \in Nat
  BY ScreenSize
<1>2. 2 * MAX_COLS <= (Byte - 1) * MAX_COLS /\ (Byte - 1) * MAX_COLS \in Int
  BY <1>1, Times
<1>3. 2 \in Positions
  BY <1>1, <1>2 DEF Positions
<1>4. QED
  BY <1>3 DEF Cleared, Screens, Glyph

(***************************************************************************)
(* Strings.                                                                *)
(***************************************************************************)
Character == Glyph \cup {Newline}
Strips    == [scr : Screens, at : Nat]
Start(scr) == [scr |-> scr, at |-> Position(Row(scr), Col(scr))]
Offset(s) == IF s.at >= Size THEN s.at - MAX_COLS ELSE s.at

\* The offset after one character.
LEMMA WriteNextType ==
    ASSUME NEW s \in Strips, NEW ch \in Character
    PROVE  /\ WriteNext(s, ch) \in Strips /\ Offset(s) \in Nat
           /\ WriteNext(s, ch).at = IF ch = Newline THEN (Offset(s) \div MAX_COLS + 1) * MAX_COLS
                                    ELSE Offset(s) + 1
<1>1. /\ MAX_COLS \in Nat \ {0} /\ MAX_ROWS \in Nat \ {0}
  BY ScreenSize
<1>2. Size = MAX_ROWS * MAX_COLS /\ Size \in Nat /\ MAX_COLS <= Size
  <2>1. 1 * MAX_COLS <= MAX_ROWS * MAX_COLS /\ MAX_ROWS * MAX_COLS \in Int
    BY <1>1, Times
  <2>2. QED
    BY <1>1, <2>1 DEF Size
<1>3. s.scr \in Screens /\ s.at \in Nat /\ Offset(s) \in Nat
  BY <1>1, <1>2 DEF Strips, Offset
<1> DEFINE scr == IF s.at >= Size THEN Scrolled(s.scr) ELSE s.scr
           t == [scr |-> scr, at |-> Offset(s)]
<1>4. scr \in Screens
  BY <1>3, ScrolledType
<1> HIDE DEF scr
<1>5. t = IF s.at >= Size THEN [scr |-> Scrolled(s.scr), at |-> s.at - MAX_COLS] ELSE s
  BY DEF Strips, Offset, scr
<1>6. /\ Offset(s) \div MAX_COLS \in Nat /\ Offset(s) % MAX_COLS \in Nat
      /\ (Offset(s) \div MAX_COLS + 1) * MAX_COLS \in Nat
  <2>1. Offset(s) \div MAX_COLS \in Nat /\ Offset(s) % MAX_COLS \in Nat
    BY <1>1, <1>3
  <2>2. QED
    BY <1>1, <2>1
<1>7. CASE ch = Newline
  <2>1. WriteNext(s, ch) = [t EXCEPT !.at = (@ \div MAX_COLS + 1) * MAX_COLS]
    BY <1>5, <1>7 DEF WriteNext
  <2>2. WriteNext(s, ch) = [scr |-> scr, at |-> (Offset(s) \div MAX_COLS + 1) * MAX_COLS]
    BY <2>1
  <2>3. QED
    BY <1>3, <1>4, <1>6, <1>7, <2>2 DEF Strips
<1>8. CASE ch # Newline
  <2>1. WriteNext(s, ch) = [scr |-> Put(t.scr, t.at \div MAX_COLS, t.at % MAX_COLS, ch),
                            at |-> t.at + 1]
    BY <1>5, <1>8 DEF WriteNext
  <2>2. t.scr = scr /\ t.at = Offset(s)
    OBVIOUS
  <2> HIDE DEF t
  <2>3. Put(scr, Offset(s) \div MAX_COLS, Offset(s) % MAX_COLS, ch) \in Screens
    BY <1>4, <1>6, <1>8, PutType DEF Character
  <2>4. QED
    BY <1>3, <1>8, <2>1, <2>2, <2>3 DEF Strips
<1>9. QED
  BY <1>7, <1>8

\* Writing a string goes through one strip for each character.
IsWriting(w, scr, str) ==
    /\ w[0] = Start(scr)
    /\ \A k \in 1 .. Len(str) : w[k] = WriteNext(w[k - 1], str[k])
IsFold(I, scr, str, n) ==
    I = [s \in SUBSET (1 .. n) |->
           IF s = {} THEN Start(scr)
           ELSE LET x == Max(s) IN WriteNext(I[s \ {x}], str[x])]

\* The end of an interval is the greatest element of a set in it.
LEMMA MaxIs ==
    ASSUME NEW n \in Nat, NEW s \in SUBSET (1 .. n), n \in s
    PROVE  Max(s) = n
<1>1. \A y \in s : y \in Int /\ n >= y
  OBVIOUS
<1>2. \A x \in s : (\A y \in s : x >= y) => x = n
  BY <1>1
<1>3. QED
  BY <1>1, <1>2 DEF Max

\* A set of naturals that has an element has a least one.
LEMMA LeastNatural ==
    ASSUME NEW T \in SUBSET Nat, T # {}
    PROVE  \E m \in T : \A n \in T : m <= n
<1> DEFINE R == {x \in Nat \X Nat : x[1] < x[2]}
<1>1. IsWellFoundedOn(R, Nat)
  BY NatLessThanWellFounded DEF OpToRel
<1>2. PICK m \in T : \A n \in T : ~(<<n, m>> \in R)
  <2> HIDE DEF R
  <2>1. QED
    BY <1>1, WFMin
<1>3. ASSUME NEW n \in T PROVE m <= n
  <2>1. ~(<<n, m>> \in R)
    BY <1>2
  <2>2. ~(n < m)
    BY <2>1
  <2>3. QED
    BY <2>2
<1>4. QED
  BY <1>3

\* A set that holds 0 and the successor of each natural it holds has them all.
LEMMA InductiveSet ==
    ASSUME NEW T, 0 \in T, \A n \in Nat : n \in T => n + 1 \in T
    PROVE  Nat \subseteq T
<1> SUFFICES ASSUME ~(Nat \subseteq T) PROVE FALSE
  OBVIOUS
<1>1. PICK m \in Nat \ T : \A n \in Nat \ T : m <= n
  BY LeastNatural
<1>2. m # 0 /\ m - 1 \in Nat
  BY <1>1
<1>3. m - 1 \in T
  BY <1>1, <1>2
<1>4. QED
  BY <1>1, <1>2, <1>3

\* There is a function as the definition of the fold wants it.
LEMMA FoldExists ==
    ASSUME NEW scr, NEW str, NEW m \in Nat
    PROVE  \E I : IsFold(I, scr, str, m)
<1> DEFINE T == {n \in Nat : \E I : IsFold(I, scr, str, n)}
<1>1. 0 \in T
  <2>1. IsFold([s \in SUBSET (1 .. 0) |-> Start(scr)], scr, str, 0)
    <3>1. \A s \in SUBSET (1 .. 0) : s = {}
      OBVIOUS
    <3>2. QED
      BY <3>1 DEF IsFold
  <2>2. QED
    BY <2>1
<1>2. ASSUME NEW n \in Nat, n \in T
      PROVE  n + 1 \in T
  <2>1. PICK I : IsFold(I, scr, str, n)
    BY <1>2
  <2> DEFINE N == n + 1
             V == [s \in SUBSET (1 .. N) |->
                     IF N \in s THEN WriteNext(I[s \ {N}], str[N]) ELSE I[s]]
             U == [s \in SUBSET (1 .. N) |->
                     IF s = {} THEN Start(scr)
                     ELSE LET x == Max(s) IN WriteNext(V[s \ {x}], str[x])]
  <2>2. N \in Nat /\ 1 .. n \subseteq 1 .. N /\ \A s \in SUBSET (1 .. N) : N \notin s => s \in SUBSET (1 .. n)
    OBVIOUS
  <2>3. \A s \in SUBSET (1 .. n) : V[s] = I[s] /\ N \notin s
    OBVIOUS
  <2>4. \A s \in SUBSET (1 .. n) : I[s] = IF s = {} THEN Start(scr)
                                  ELSE WriteNext(I[s \ {Max(s)}], str[Max(s)])
    BY <2>1 DEF IsFold
  <2>5. ASSUME NEW s \in SUBSET (1 .. N) PROVE V[s] = U[s]
    <3>1. CASE N \in s
      <4>1. Max(s) = N
        BY <2>2, <3>1, MaxIs
      <4>2. s \ {N} \in SUBSET (1 .. n)
        BY <2>2
      <4>3. V[s \ {N}] = I[s \ {N}]
        BY <2>3, <4>2
      <4>4. V[s] = WriteNext(I[s \ {N}], str[N])
        BY <3>1
      <4> HIDE DEF V
      <4>5. U[s] = WriteNext(V[s \ {N}], str[N])
        BY <3>1, <4>1
      <4>6. QED
        BY <4>3, <4>4, <4>5
    <3>2. CASE N \notin s
      <4>1. s \in SUBSET (1 .. n)
        BY <2>2, <3>2
      <4>2. V[s] = I[s]
        BY <2>3, <4>1
      <4> HIDE DEF V
      <4>3. \A x \in SUBSET (1 .. n) : V[x] = I[x]
        BY <2>3
      <4>4. V[s \ {Max(s)}] = I[s \ {Max(s)}]
        BY <4>1, <4>3
      <4>5. U[s] = IF s = {} THEN Start(scr) ELSE WriteNext(V[s \ {Max(s)}], str[Max(s)])
        OBVIOUS
      <4> HIDE DEF U
      <4>6. QED
        BY <2>4, <4>1, <4>2, <4>4, <4>5
    <3>3. QED
      BY <3>1, <3>2
  <2>6. V = U
    <3>1. QED
      BY <2>5
  <2>7. IsFold(V, scr, str, n + 1)
    BY <2>6 DEF IsFold
  <2>8. QED
    <3> HIDE DEF V
    <3>1. QED
      BY <2>7
<1>3. Nat \subseteq T
  <2> HIDE DEF T
  <2>1. QED
    BY <1>1, <1>2, InductiveSet
<1>4. QED
  BY <1>3

\* What a string leaves is what its last character leaves.
LEMMA WriteStringIs ==
    ASSUME NEW scr, NEW S, NEW str \in Seq(S)
    PROVE  \E w : /\ IsWriting(w, scr, str)
                  /\ WriteString(scr, str) =
                        SetCursor(w[Len(str)].scr, w[Len(str)].at \div MAX_COLS,
                                  w[Len(str)].at % MAX_COLS)
<1> DEFINE m == Len(str)
           I == CHOOSE I : IsFold(I, scr, str, m)
           w == [k \in 0 .. m |-> I[1 .. k]]
<1>1. m \in Nat /\ DOMAIN str = 1 .. m
  OBVIOUS
<1>2. IsFold(I, scr, str, m)
  BY <1>1, FoldExists
<1>3. FoldLeft(WriteNext, Start(scr), str) = I[1 .. m]
  BY <1>1 DEF FoldLeft, MapThenFoldSet, IsFold
<1> HIDE DEF I
<1>4. w[0] = Start(scr)
  BY <1>1, <1>2 DEF IsFold
<1> HIDE DEF m
<1>5. ASSUME NEW k \in 1 .. m PROVE w[k] = WriteNext(w[k - 1], str[k])
  <2>1. /\ 1 .. k \in SUBSET (1 .. m) /\ 1 .. k # {} /\ k \in 1 .. k /\ k \in Nat
        /\ (1 .. k) \ {k} = 1 .. (k - 1) /\ k \in 0 .. m /\ k - 1 \in 0 .. m
    BY <1>1
  <2>2. Max(1 .. k) = k
    BY <2>1, MaxIs
  <2>3. I[1 .. k] = WriteNext(I[(1 .. k) \ {k}], str[k])
    BY <1>2, <2>1, <2>2 DEF IsFold
  <2>4. QED
    BY <2>1, <2>3
<1>6. w[m] = I[1 .. m]
  BY <1>1
<1> HIDE DEF w
<1>7. IsWriting(w, scr, str)
  BY <1>4, <1>5 DEF IsWriting, m
<1>8. QED
  BY <1>3, <1>6, <1>7 DEF WriteString, Start, m

\* The text stays a screen and an offset.
LEMMA WritingType ==
    ASSUME NEW scr \in Screens, NEW str \in Seq(Character), NEW w, IsWriting(w, scr, str)
    PROVE  \A k \in 0 .. Len(str) : w[k] \in Strips
<1> DEFINE n == Len(str)
           T == {k \in Nat : k <= n => w[k] \in Strips}
<1>1. n \in Nat /\ \A k \in 1 .. n : str[k] \in Character
  OBVIOUS
<1> HIDE DEF n
<1>2. 0 \in T
  <2>1. Position(Row(scr), Col(scr)) \in Nat
    <3>1. Row(scr) \in Int /\ Col(scr) \in Int
      BY ScreenParts
    <3>2. QED
      BY <3>1, PositionType DEF Positions
  <2>2. QED
    BY <2>1 DEF IsWriting, Start, Strips
<1>3. ASSUME NEW k \in Nat, k \in T PROVE k + 1 \in T
  <2> SUFFICES ASSUME k + 1 <= n PROVE w[k + 1] \in Strips
    OBVIOUS
  <2>1. w[k] \in Strips /\ k + 1 \in 1 .. n /\ (k + 1) - 1 = k
    BY <1>1, <1>3
  <2>2. w[k + 1] = WriteNext(w[k], str[k + 1])
    BY <2>1 DEF IsWriting, n
  <2>3. QED
    BY <1>1, <2>1, <2>2, WriteNextType
<1>4. Nat \subseteq T
  <2> HIDE DEF T
  <2>1. QED
    BY <1>2, <1>3, InductiveSet
<1>5. QED
  BY <1>1, <1>4 DEF n

\* Where an offset near the screen puts the cursor.
LEMMA CursorIs ==
    ASSUME NEW scr \in Screens, NEW a \in Near
    PROVE  SetCursor(scr, a \div MAX_COLS, a % MAX_COLS).cursor = a
<1>1. PICK z : z = [cursor |-> a]
  OBVIOUS
<1>2. /\ a \div MAX_COLS \in 0 .. MAX_ROWS + 1 /\ a % MAX_COLS \in 0 .. MAX_COLS - 1
      /\ a = (a \div MAX_COLS) * MAX_COLS + (a % MAX_COLS)
  BY <1>1, PositionKept
<1>3. MAX_COLS \in Nat \ {0} /\ MAX_ROWS \in Nat
  BY ScreenSize
<1>4. /\ a \div MAX_COLS \in Int /\ a % MAX_COLS \in Int /\ a % MAX_COLS \in 0 .. MAX_COLS
  BY <1>2, <1>3
<1>5. Position(a \div MAX_COLS, a % MAX_COLS) = a
  BY <1>2, <1>4, PositionIs
<1>6. QED
  BY <1>4, <1>5, SetCursorType

\* A string starts where the cursor is.
LEMMA StartIs ==
    ASSUME NEW scr, scr.cursor \in Near
    PROVE  Start(scr).at = scr.cursor
<1>1. /\ Row(scr) \in 0 .. MAX_ROWS + 1 /\ Col(scr) \in 0 .. MAX_COLS - 1
      /\ scr.cursor = Row(scr) * MAX_COLS + Col(scr)
  BY PositionKept
<1>2. MAX_COLS \in Nat \ {0}
  BY ScreenSize
<1>3. Col(scr) \in 0 .. MAX_COLS
  BY <1>1, <1>2
<1>4. QED
  BY <1>1, <1>3, PositionIs DEF Start

\* Sizes in one place.
LEMMA Sizes ==
    /\ MAX_COLS \in Nat \ {0} /\ MAX_ROWS \in Nat \ {0} /\ Byte \in Nat \ {0}
    /\ Size \in Nat /\ Size = MAX_ROWS * MAX_COLS /\ MAX_COLS <= Size
    /\ 0 .. Size \subseteq Near /\ Cell = 0 .. Size - 1 /\ Byte - 1 <= Size - MAX_COLS
<1>1. /\ MAX_COLS \in Nat \ {0} /\ MAX_ROWS \in Nat \ {0} /\ Byte \in Nat \ {0}
      /\ Byte <= (MAX_ROWS - 1) * MAX_COLS + 1
  BY ScreenSize
<1>2. 1 * MAX_COLS <= MAX_ROWS * MAX_COLS /\ MAX_ROWS * MAX_COLS \in Int
  BY <1>1, Times
<1>3. (MAX_ROWS - 1) * MAX_COLS = MAX_ROWS * MAX_COLS - MAX_COLS
  BY <1>1
<1>4. QED
  BY <1>1, <1>2, <1>3 DEF Size, Near, Cell

\* A string leaves a screen, and a cursor that is on the screen or right behind it there.
LEMMA WriteStringType ==
    ASSUME NEW scr \in Screens, NEW str \in Seq(Character)
    PROVE  /\ WriteString(scr, str) \in Screens
           /\ scr.cursor \in 0 .. Size => WriteString(scr, str).cursor \in 0 .. Size
<1> DEFINE n == Len(str)
<1>1. PICK w : /\ IsWriting(w, scr, str)
               /\ WriteString(scr, str) =
                     SetCursor(w[n].scr, w[n].at \div MAX_COLS, w[n].at % MAX_COLS)
  BY WriteStringIs
<1>2. n \in Nat /\ \A k \in 0 .. n : w[k] \in Strips
  BY <1>1, WritingType
<1>3. \A k \in 1 .. n : str[k] \in Character /\ w[k] = WriteNext(w[k - 1], str[k])
  BY <1>1 DEF IsWriting
<1> HIDE DEF n
<1>4. WriteString(scr, str) \in Screens
  <2>1. w[n].scr \in Screens /\ w[n].at \in Nat
    BY <1>2 DEF Strips
  <2>2. w[n].at \div MAX_COLS \in Int /\ w[n].at % MAX_COLS \in Int
    BY <2>1, Sizes
  <2>3. QED
    BY <1>1, <2>1, <2>2, SetCursorType
<1>5. ASSUME scr.cursor \in 0 .. Size
      PROVE  WriteString(scr, str).cursor \in 0 .. Size
  <2> DEFINE T == {k \in Nat : k <= n => w[k].at <= Size}
  <2>1. 0 \in T
    BY <1>1, <1>5, StartIs, Sizes DEF IsWriting
  <2>2. ASSUME NEW k \in Nat, k \in T PROVE k + 1 \in T
    <3> SUFFICES ASSUME k + 1 <= n PROVE w[k + 1].at <= Size
      OBVIOUS
    <3>1. k \in 0 .. n /\ k + 1 \in 1 .. n /\ (k + 1) - 1 = k /\ w[k].at <= Size
      BY <1>2, <2>2
    <3>2. w[k] \in Strips /\ w[k].at \in Nat /\ str[k + 1] \in Character
          /\ w[k + 1] = WriteNext(w[k], str[k + 1])
      BY <1>2, <1>3, <3>1 DEF Strips
    <3>3. Offset(w[k]) \in 0 .. Size - 1
      BY <3>1, <3>2, Sizes DEF Offset
    <3>4. CASE str[k + 1] # Newline
      <4>1. w[k + 1].at = Offset(w[k]) + 1
        BY <3>2, <3>4, WriteNextType
      <4>2. QED
        BY <3>3, <4>1, Sizes
    <3>5. CASE str[k + 1] = Newline
      <4>1. w[k + 1].at = (Offset(w[k]) \div MAX_COLS + 1) * MAX_COLS
        BY <3>2, <3>5, WriteNextType
      <4>2. Offset(w[k]) \div MAX_COLS + 1 <= MAX_ROWS /\ Offset(w[k]) \div MAX_COLS \in Int
        <5>1. PICK a : a = Offset(w[k])
          OBVIOUS
        <5>2. a \in Int /\ a < Size
          BY <3>3, <5>1, Sizes
        <5>3. a \div MAX_COLS \in Int /\ a % MAX_COLS \in 0 .. MAX_COLS - 1
              /\ a = (a \div MAX_COLS) * MAX_COLS + (a % MAX_COLS)
          BY <5>2, Sizes, DivMod
        <5>4. PICK r \in Int, c \in Nat : r = a \div MAX_COLS /\ a = r * MAX_COLS + c
          BY <5>3
        <5>5. r * MAX_COLS <= a /\ r * MAX_COLS \in Int
          BY <5>2, <5>4, Sizes
        <5>6. r < MAX_ROWS
          <6> SUFFICES ASSUME MAX_ROWS <= r PROVE FALSE
            BY <5>4, Sizes
          <6>1. MAX_ROWS * MAX_COLS <= r * MAX_COLS
            BY <5>4, Sizes, Times
          <6>2. QED
            BY <5>2, <5>5, <6>1, Sizes
        <5>7. QED
          BY <5>1, <5>4, <5>6, Sizes
      <4>3. (Offset(w[k]) \div MAX_COLS + 1) * MAX_COLS <= MAX_ROWS * MAX_COLS
        BY <4>2, Sizes, Times
      <4>4. QED
        BY <4>1, <4>3, Sizes
    <3>6. QED
      BY <3>4, <3>5
  <2>3. Nat \subseteq T
    <3> HIDE DEF T
    <3>1. QED
      BY <2>1, <2>2, InductiveSet
  <2>4. w[n].at \in 0 .. Size /\ w[n].scr \in Screens
    BY <1>2, <2>3, Sizes DEF Strips
  <2>5. WriteString(scr, str).cursor = w[n].at
    BY <1>1, <2>4, CursorIs, Sizes
  <2>6. QED
    BY <2>4, <2>5
<1>6. QED
  BY <1>4, <1>5

\* One row more or less.
LEMMA RowMore ==
    ASSUME NEW z \in Int
    PROVE  z * MAX_COLS \in Int /\ (z - 1) * MAX_COLS = z * MAX_COLS - MAX_COLS
BY Sizes

\* What does not fill its last row is no number of rows.
LEMMA NoRows ==
    ASSUME NEW n \in Nat, n % MAX_COLS # 0, NEW z \in Int
    PROVE  n # z * MAX_COLS
<1> DEFINE q == n \div MAX_COLS
<1>1. q \in Int /\ n % MAX_COLS \in 1 .. MAX_COLS - 1 /\ n = q * MAX_COLS + (n % MAX_COLS)
  BY Sizes, DivMod
<1> HIDE DEF q
<1>2. PICK x \in 1 .. MAX_COLS - 1 : n = q * MAX_COLS + x
  BY <1>1
<1>3. q * MAX_COLS \in Int /\ (q + 1) * MAX_COLS = q * MAX_COLS + MAX_COLS /\ MAX_COLS \in Nat
  BY <1>1, Sizes
<1>4. z <= q => z * MAX_COLS <= q * MAX_COLS
  BY <1>1, Sizes, Times
<1>5. q + 1 <= z => (q + 1) * MAX_COLS <= z * MAX_COLS
  BY <1>1, Sizes, Times
<1>6. z * MAX_COLS \in Int /\ (z <= q \/ q + 1 <= z)
  BY <1>1, Sizes
<1>7. QED
  BY <1>2, <1>3, <1>4, <1>5, <1>6

\* A prompt that does not fill its last row ends on the screen, from the start of any
\* row down to the second one below the screen.
LEMMA PromptEnds ==
    ASSUME NEW scr \in Screens, NEW r \in 0 .. MAX_ROWS + 1, scr.cursor = r * MAX_COLS,
           NEW str \in Seq(Glyph), Len(str) >= 2, Len(str) % MAX_COLS # 0
    PROVE  WriteString(scr, str).cursor \in 0 .. Size - 1
<1> DEFINE n == Len(str)
<1>1. n \in Nat /\ n >= 2 /\ n % MAX_COLS # 0 /\ \A k \in 1 .. n : str[k] \in Glyph
  OBVIOUS
<1>2. str \in Seq(Character) /\ \A x \in Glyph : x \in Character /\ x # Newline
  BY DEF Character, Glyph, Char, Blank, Null, Newline, Escape
<1>3. PICK w : /\ IsWriting(w, scr, str)
               /\ WriteString(scr, str) =
                     SetCursor(w[n].scr, w[n].at \div MAX_COLS, w[n].at % MAX_COLS)
  BY <1>2, WriteStringIs
<1>4. \A k \in 0 .. n : w[k] \in Strips
  BY <1>2, <1>3, WritingType
<1>5. \A k \in 1 .. n : w[k] = WriteNext(w[k - 1], str[k])
  BY <1>3 DEF IsWriting
<1> HIDE DEF n
<1>6. ASSUME NEW k \in 1 .. n
      PROVE  /\ w[k - 1].at \in Nat /\ w[k].at \in Nat
             /\ w[k].at = (IF w[k - 1].at >= Size THEN w[k - 1].at - MAX_COLS ELSE w[k - 1].at) + 1
  <2>1. k - 1 \in 0 .. n /\ k \in 0 .. n
    BY <1>1
  <2>2. w[k - 1] \in Strips /\ w[k] \in Strips /\ str[k] \in Character /\ str[k] # Newline
    BY <1>1, <1>2, <1>4, <2>1
  <2>3. w[k].at = Offset(w[k - 1]) + 1
    <3>1. w[k] = WriteNext(w[k - 1], str[k])
      BY <1>5
    <3>2. WriteNext(w[k - 1], str[k]).at = Offset(w[k - 1]) + 1
      BY <2>2, WriteNextType
    <3>3. QED
      BY <3>1, <3>2
  <2>4. QED
    BY <2>2, <2>3 DEF Strips, Offset
<1>7. w[0].at = r * MAX_COLS /\ r * MAX_COLS \in Nat /\ r * MAX_COLS <= Size + MAX_COLS
  <2>1. r * MAX_COLS \in Nat /\ r * MAX_COLS <= (MAX_ROWS + 1) * MAX_COLS
    BY Sizes, Times
  <2>2. (MAX_ROWS + 1) * MAX_COLS = Size + MAX_COLS
    BY Sizes
  <2>3. scr.cursor \in Near
    BY <2>1, <2>2, Sizes DEF Near
  <2>4. QED
    BY <1>3, <2>1, <2>2, <2>3, StartIs DEF IsWriting
<1> DEFINE Fits(k)  == w[k].at <= IF k = 0 THEN Size + MAX_COLS ELSE IF k = 1 THEN Size + 1 ELSE Size
           Along(k) == \E z \in Int : w[k].at = z * MAX_COLS + k
           T == {k \in Nat : k <= n => Fits(k) /\ Along(k)}
<1>8. 0 \in T
  <2>1. r \in Int /\ w[0].at = r * MAX_COLS + 0
    BY <1>7, Sizes
  <2>2. w[0].at <= Size + MAX_COLS
    BY <1>7
  <2>3. Fits(0) /\ Along(0)
    BY <2>1, <2>2
  <2>4. QED
    BY <2>3
<1>9. ASSUME NEW k \in Nat, k \in T PROVE k + 1 \in T
  <2> SUFFICES ASSUME k + 1 <= n PROVE Fits(k + 1) /\ Along(k + 1)
    OBVIOUS
  <2>1. k + 1 \in 1 .. n /\ (k + 1) - 1 = k /\ k <= n
    BY <1>1
  <2>2. PICK z \in Int : w[k].at = z * MAX_COLS + k
    BY <1>9, <2>1
  <2>3. /\ w[k].at \in Nat /\ w[k + 1].at \in Nat
        /\ w[k + 1].at = (IF w[k].at >= Size THEN w[k].at - MAX_COLS ELSE w[k].at) + 1
    BY <1>6, <2>1
  <2>4. Along(k + 1)
    <3>1. z - 1 \in Int /\ z * MAX_COLS \in Int /\ (z - 1) * MAX_COLS = z * MAX_COLS - MAX_COLS
      <4>1. z - 1 \in Int
        BY <2>2
      <4>2. z * MAX_COLS \in Int /\ (z - 1) * MAX_COLS = z * MAX_COLS - MAX_COLS
        BY <2>2, RowMore
      <4>3. QED
        BY <4>1, <4>2
    <3>2. \/ w[k + 1].at = z * MAX_COLS + (k + 1)
          \/ w[k + 1].at = (z - 1) * MAX_COLS + (k + 1)
      BY <2>2, <2>3, <3>1, Sizes
    <3>3. QED
      BY <3>1, <3>2
  <2>5. Fits(k + 1)
    <3>1. Fits(k) /\ MAX_COLS \in Nat \ {0} /\ MAX_COLS # 1 /\ Size \in Nat
      <4>1. MAX_COLS # 1
        BY <1>1
      <4>2. QED
        BY <1>9, <2>1, <4>1, Sizes
    <3>2. PICK a \in Nat : a = w[k].at
      BY <2>3
    <3>3. w[k + 1].at = (IF a >= Size THEN a - MAX_COLS ELSE a) + 1
      BY <2>3, <3>2
    <3>4. a <= IF k = 0 THEN Size + MAX_COLS ELSE IF k = 1 THEN Size + 1 ELSE Size
      BY <3>1, <3>2
    <3>5. k + 1 # 0 /\ (k + 1 = 1 <=> k = 0)
      OBVIOUS
    <3>6. QED
      BY <3>1, <3>3, <3>4, <3>5
  <2>6. QED
    BY <2>4, <2>5
<1>10. Nat \subseteq T
  <2> HIDE DEF T
  <2>1. QED
    BY <1>8, <1>9, InductiveSet
<1>11. w[n].at \in 0 .. Size - 1
  <2>1. w[n].at \in Nat /\ w[n].at <= Size
    <3>1. n \in T /\ n # 0 /\ n # 1 /\ w[n] \in Strips
      BY <1>1, <1>4, <1>10
    <3>2. QED
      BY <1>1, <3>1 DEF Strips
  <2>2. w[n].at # Size
    <3>1. PICK z \in Int : w[n].at = z * MAX_COLS + n
      BY <1>1, <1>10
    <3>2. MAX_ROWS - z \in Int /\ n # (MAX_ROWS - z) * MAX_COLS
      <4>1. MAX_ROWS - z \in Int
        BY <3>1, Sizes
      <4>2. QED
        BY <1>1, <4>1, NoRows
    <3>3. (MAX_ROWS - z) * MAX_COLS = Size - z * MAX_COLS /\ z * MAX_COLS \in Int
      BY Sizes
    <3>4. QED
      BY <1>1, <3>1, <3>2, <3>3, Sizes
  <2>3. QED
    BY <2>1, <2>2, Sizes
<1>12. WriteString(scr, str).cursor = w[n].at
  <2>1. w[n].at \in Near /\ w[n].scr \in Screens
    BY <1>1, <1>4, <1>11, Sizes DEF Near, Strips
  <2>2. QED
    BY <1>3, <2>1, CursorIs
<1>13. QED
  BY <1>11, <1>12

(***************************************************************************)
(* Keys.                                                                   *)
(***************************************************************************)

\* The echo of a character leaves a screen.
LEMMA EchoedType ==
    ASSUME NEW scr \in Screens, NEW ch \in Glyph
    PROVE  Echoed(scr, ch) \in Screens
<1> DEFINE last == Row(scr) = MAX_ROWS - 1 /\ Col(scr) = MAX_COLS - 1
           at   == Position(Row(scr), Col(scr)) - (IF last THEN MAX_COLS ELSE 0)
           s    == IF last THEN Scrolled(scr) ELSE scr
<1>1. Echoed(scr, ch) = SetCursor(Put(s, at \div MAX_COLS, at % MAX_COLS, ch),
                                  at \div MAX_COLS, (at % MAX_COLS) + 1)
  BY DEF Echoed
<1>2. s \in Screens
  BY ScrolledType
<1>3. at \in Int
  <2>1. Position(Row(scr), Col(scr)) \in Int
    BY ScreenParts, PositionType, Sizes DEF Positions
  <2>2. QED
    BY <2>1, Sizes
<1> HIDE DEF at, s
<1>4. at \div MAX_COLS \in Int /\ at % MAX_COLS \in Int /\ (at % MAX_COLS) + 1 \in Int
  BY <1>3, Sizes, DivMod
<1>5. QED
  BY <1>1, <1>2, <1>4, PutType, SetCursorType

\* The echo is where the cursor was, one row up when the screen was scrolled, and the
\* cursor is behind it.
LEMMA EchoedIs ==
    ASSUME NEW scr \in Screens, NEW ch \in Glyph, scr.cursor \in 0 .. Size - 1
    PROVE  LET d == IF scr.cursor = Size - 1 THEN MAX_COLS ELSE 0
               e == Echoed(scr, ch)
           IN  /\ e.cursor = scr.cursor - d + 1 /\ e.cursor \in 1 .. Size - 1
               /\ \A o \in Cell :
                     /\ o = scr.cursor - d => e.cells[o] = ch
                     /\ o < scr.cursor - d => e.cells[o] = scr.cells[o + d]
<1> DEFINE p    == scr.cursor
           r    == Row(scr)
           c    == Col(scr)
           last == r = MAX_ROWS - 1 /\ c = MAX_COLS - 1
           at   == Position(r, c) - (IF last THEN MAX_COLS ELSE 0)
           s    == IF last THEN Scrolled(scr) ELSE scr
           e    == Echoed(scr, ch)
<1>1. e = SetCursor(Put(s, at \div MAX_COLS, at % MAX_COLS, ch),
                                  at \div MAX_COLS, (at % MAX_COLS) + 1)
  BY DEF Echoed
<1>2. /\ p \in Near /\ p \in Nat /\ p < Size
      /\ r \in 0 .. MAX_ROWS + 1 /\ c \in 0 .. MAX_COLS - 1 /\ p = r * MAX_COLS + c
  <2>1. p \in Near /\ p \in Nat /\ p < Size
    BY Sizes DEF Near
  <2>2. QED
    BY <2>1, PositionKept
<1>3. Position(r, c) = p
  <2>1. c \in 0 .. MAX_COLS
    BY <1>2, Sizes
  <2>2. QED
    BY <1>2, <2>1, PositionIs
<1>4. last <=> p = Size - 1
  <2>1. r \in Int /\ c \in Int /\ c <= MAX_COLS - 1 /\ 0 <= c
    BY <1>2, Sizes
  <2>2. (MAX_ROWS - 1) * MAX_COLS = Size - MAX_COLS
    BY Sizes
  <2>3. r <= MAX_ROWS - 2 => r * MAX_COLS <= (MAX_ROWS - 2) * MAX_COLS
    BY <2>1, Sizes, Times
  <2>4. (MAX_ROWS - 2) * MAX_COLS = Size - MAX_COLS - MAX_COLS
    BY Sizes
  <2>5. MAX_ROWS <= r => MAX_ROWS * MAX_COLS <= r * MAX_COLS
    BY <2>1, Sizes, Times
  <2>6. r * MAX_COLS \in Int
    BY <2>1, Sizes
  <2>7. last => p = Size - 1
    BY <1>2, <2>1, <2>2, Sizes
  <2>8. p = Size - 1 => r = MAX_ROWS - 1
    BY <1>2, <2>1, <2>3, <2>4, <2>5, <2>6, Sizes
  <2>9. p = Size - 1 /\ r = MAX_ROWS - 1 => c = MAX_COLS - 1
    BY <1>2, <2>1, <2>2, Sizes
  <2>10. QED
    BY <2>7, <2>8, <2>9
<1> DEFINE d == IF p = Size - 1 THEN MAX_COLS ELSE 0
<1>5. at = p - d /\ s = IF p = Size - 1 THEN Scrolled(scr) ELSE scr
  BY <1>3, <1>4
<1>6. s \in Screens
  BY ScrolledType
<1>7. at \in Near /\ at \in Nat /\ at < Size - 1 /\ d \in Nat
  <2>1. MAX_COLS < Size /\ MAX_COLS \in Nat \ {0} /\ Size \in Nat
    BY Sizes, ScreenSize
  <2>2. at = p - d /\ p \in Nat /\ p < Size /\ p \in Near
    BY <1>2, <1>5
  <2>3. d \in Nat /\ d <= MAX_COLS /\ (p = Size - 1 => d = MAX_COLS) /\ (p # Size - 1 => d = 0)
    BY <2>1
  <2> HIDE DEF at, p, d
  <2>4. at \in Nat /\ at < Size - 1
    BY <2>1, <2>2, <2>3
  <2>5. QED
    BY <2>1, <2>3, <2>4 DEF Near
<1> HIDE DEF at, s, p, r, c, last, d, e
<1>8. /\ at \div MAX_COLS \in 0 .. MAX_ROWS + 1 /\ at % MAX_COLS \in 0 .. MAX_COLS - 1
      /\ at = (at \div MAX_COLS) * MAX_COLS + (at % MAX_COLS)
  <2>1. PICK z : z = [cursor |-> at]
    OBVIOUS
  <2>2. QED
    BY <1>7, <2>1, PositionKept
<1>9. /\ at \div MAX_COLS \in Int /\ at % MAX_COLS \in Int /\ (at % MAX_COLS) + 1 \in Int
      /\ at % MAX_COLS \in 0 .. MAX_COLS /\ (at % MAX_COLS) + 1 \in 0 .. MAX_COLS
  <2>1. PICK x : x = at % MAX_COLS
    OBVIOUS
  <2>2. x \in 0 .. MAX_COLS - 1
    BY <1>8, <2>1
  <2>3. MAX_COLS \in Nat \ {0}
    BY Sizes
  <2>4. /\ x \in Int /\ x + 1 \in Int /\ x \in 0 .. MAX_COLS /\ x + 1 \in 0 .. MAX_COLS
    BY <2>2, <2>3
  <2>5. at \div MAX_COLS \in Int
    BY <1>7, <2>3
  <2>6. QED
    BY <2>1, <2>4, <2>5
<1>10. /\ Position(at \div MAX_COLS, at % MAX_COLS) = at
       /\ Position(at \div MAX_COLS, (at % MAX_COLS) + 1)
             = (at \div MAX_COLS) * MAX_COLS + ((at % MAX_COLS) + 1)
       /\ (at \div MAX_COLS) * MAX_COLS \in Nat
  BY <1>8, <1>9, PositionIs
<1>11. Position(at \div MAX_COLS, (at % MAX_COLS) + 1) = at + 1
  BY <1>8, <1>9, <1>10
<1> DEFINE v == Put(s, at \div MAX_COLS, at % MAX_COLS, ch)
<1>12. v \in Screens /\ \A o \in Cell : v.cells[o] = IF o = at THEN ch ELSE s.cells[o]
  BY <1>6, <1>9, <1>10, PutType
<1> HIDE DEF v
<1>13. e.cursor = at + 1 /\ e.cells = v.cells
  <2>1. e = SetCursor(v, at \div MAX_COLS, (at % MAX_COLS) + 1)
    BY <1>1 DEF v
  <2>2. QED
    BY <1>9, <1>11, <1>12, <2>1, SetCursorType
<1>14. ASSUME NEW o \in Cell, o < at
       PROVE  s.cells[o] = scr.cells[o + d]
  <2>1. CASE p = Size - 1
    <3>1. o + MAX_COLS \in Cell
      BY <1>2, <1>5, <1>7, <1>14, <2>1, Sizes DEF d
    <3>2. QED
      BY <1>5, <2>1, <3>1, ScrolledType DEF d
  <2>2. CASE p # Size - 1
    <3>1. o + d = o
      BY <2>2, Sizes DEF d
    <3>2. QED
      BY <1>5, <2>2, <3>1
  <2>3. QED
    BY <2>1, <2>2
<1>15. \A o \in Cell : /\ o = at => e.cells[o] = ch
                       /\ o < at => e.cells[o] = scr.cells[o + d]
  BY <1>7, <1>12, <1>13, <1>14, Sizes
<1>16. e.cursor = p - d + 1 /\ e.cursor \in 1 .. Size - 1
  BY <1>5, <1>7, <1>13, Sizes
<1>17. QED
  BY <1>5, <1>15, <1>16 DEF p, d, e

\* Backspace leaves a screen.
LEMMA ErasedType ==
    ASSUME NEW scr \in Screens
    PROVE  Erased(scr) \in Screens
<1> DEFINE r == IF Col(scr) = 0 THEN Row(scr) - 1 ELSE Row(scr)
           c == IF Col(scr) = 0 THEN MAX_COLS - 1 ELSE Col(scr) - 1
<1>1. r \in Int /\ c \in Int
  BY ScreenParts, Sizes
<1>2. Erased(scr) = Put(SetCursor(scr, r, c), r, c, Null)
  BY DEF Erased
<1> HIDE DEF r, c
<1>3. Null \in Glyph
  BY DEF Glyph, Char
<1>4. QED
  BY <1>1, <1>2, <1>3, SetCursorType, PutType

\* Backspace blanks the cell before the cursor and no other.
LEMMA ErasedIs ==
    ASSUME NEW scr \in Screens, scr.cursor \in 1 .. Size - 1
    PROVE  /\ Erased(scr).cursor = scr.cursor - 1
           /\ \A o \in Cell : o # scr.cursor - 1 => Erased(scr).cells[o] = scr.cells[o]
<1> DEFINE p == scr.cursor
           r == IF Col(scr) = 0 THEN Row(scr) - 1 ELSE Row(scr)
           c == IF Col(scr) = 0 THEN MAX_COLS - 1 ELSE Col(scr) - 1
<1>1. Erased(scr) = Put(SetCursor(scr, r, c), r, c, Null)
  BY DEF Erased
<1>2. /\ p \in Nat /\ 1 <= p /\ Row(scr) \in 0 .. MAX_ROWS + 1 /\ Col(scr) \in 0 .. MAX_COLS - 1
      /\ p = Row(scr) * MAX_COLS + Col(scr)
  <2>1. p \in Near /\ p \in Nat /\ 1 <= p
    BY Sizes DEF Near
  <2>2. QED
    BY <2>1, PositionKept
<1>3. r \in 0 .. MAX_ROWS + 1 /\ c \in 0 .. MAX_COLS - 1 /\ r * MAX_COLS + c = p - 1
  <2>1. PICK x \in 0 .. MAX_ROWS + 1, y \in 0 .. MAX_COLS - 1 : x = Row(scr) /\ y = Col(scr)
    BY <1>2
  <2>2. p = x * MAX_COLS + y
    BY <1>2, <2>1
  <2>3. MAX_COLS \in Nat \ {0} /\ MAX_ROWS \in Nat
    BY Sizes
  <2>4. CASE y = 0
    <3>1. x # 0
      BY <1>2, <2>2, <2>3, <2>4
    <3>2. r = x - 1 /\ c = MAX_COLS - 1
      BY <2>1, <2>4
    <3>3. (x - 1) * MAX_COLS = x * MAX_COLS - MAX_COLS /\ x * MAX_COLS \in Int
      BY <2>3
    <3> HIDE DEF p, r, c
    <3>4. QED
      BY <2>2, <2>3, <2>4, <3>1, <3>2, <3>3
  <2>5. CASE y # 0
    <3>1. r = x /\ c = y - 1
      BY <2>1, <2>5
    <3>2. x * MAX_COLS \in Int
      BY <2>3
    <3> HIDE DEF p, r, c
    <3>3. QED
      BY <2>2, <2>3, <2>5, <3>1, <3>2
  <2>6. QED
    BY <2>4, <2>5
<1> HIDE DEF r, c, p
<1>4. Position(r, c) = p - 1 /\ r \in Int /\ c \in Int
  <2>1. c \in 0 .. MAX_COLS
    BY <1>3, Sizes
  <2>2. QED
    BY <1>3, <2>1, PositionIs
<1> DEFINE v == SetCursor(scr, r, c)
<1>5. v \in Screens /\ v.cells = scr.cells /\ v.cursor = p - 1
  BY <1>4, SetCursorType
<1>6. Null \in Glyph
  BY DEF Glyph, Char
<1> HIDE DEF v
<1>7. Erased(scr) = Put(v, r, c, Null)
  BY <1>1 DEF v
<1>8. Erased(scr).cursor = v.cursor
  BY <1>4, <1>5, <1>6, <1>7, PutType
<1>9. \A o \in Cell : o # Position(r, c) => Erased(scr).cells[o] = v.cells[o]
  BY <1>4, <1>5, <1>6, <1>7, PutType
<1>10. QED
  BY <1>4, <1>5, <1>8, <1>9 DEF p

(***************************************************************************)
(* The types.                                                              *)
(***************************************************************************)
Latched   == irq => fifo # <<>>
ScreenInv == TypeOK /\ screen \in Screens /\ Latched

\* The strings that are written are made of characters.
LEMMA Strings ==
    /\ \A str \in Outputs \cup Refusals : str \in Seq(Character)
    /\ \A str \in Prompts : str \in Seq(Character)
    /\ <<Newline>> \in Seq(Character)
<1>1. Glyph \subseteq Character /\ Newline \in Character
  BY DEF Character
<1>2. QED
  BY <1>1, StringsAreText, PromptsAreText DEF Character

\* What TypeOK says of a screen.
LEMMA ScreenTypes ==
    ASSUME NEW scr \in Screens
    PROVE  DOMAIN scr = {"cells", "cursor"} /\ DOMAIN scr.cells = Cell /\ scr.cursor \in Positions
BY DEF Screens

\* No table has a character but those the handler tells apart; the escape comes from ESC.
LEMMA MappedIs ==
    ASSUME NEW code \in Writing, NEW shift, NEW caps
    PROVE  /\ Mapped(code, shift, caps) \in Char \cup {Newline, Backspace}
           /\ code # "esc" => Mapped(code, shift, caps) # Escape
<1>1. Writing = {"letter", "enter", "back", "ctrl", "esc", "left"}
  BY DEF Writing, keyboard_scancode_1_to_ascii_map
<1>2. QED
  BY <1>1 DEF Mapped, keyboard_scancode_1_to_ascii_map, scancode_capital_letters, Char,
              Newline, Backspace, Escape, Null

\* The types at the start, and from step to step.
LEMMA TypeInit == Init => ScreenInv
<1> SUFFICES ASSUME Init PROVE ScreenInv
  OBVIOUS
<1>1. 0 \in Positions /\ 0 \in Index
  <2>1. (Byte - 1) * MAX_COLS \in Nat
    BY Sizes
  <2>2. QED
    BY <2>1, Sizes DEF Positions, Index
<1>2. screen \in Screens
  BY <1>1 DEF Init, Screens, Glyph
<1>3. EmptyBuffer \in [Index -> Char]
  BY DEF EmptyBuffer, Char
<1>4. fifo \in Seq(Scancodes) /\ Len(fifo) <= Fifo
  BY KnownScancodes DEF Init
<1>5. /\ irq \in BOOLEAN /\ inService \in BOOLEAN /\ input_on \in BOOLEAN
      /\ shift_pressed \in BOOLEAN /\ caps_cond \in BOOLEAN /\ ~irq
  BY DEF Init
<1>6. /\ buffer_index \in Index /\ keyboard_buffer \in [Index -> Char] /\ line \in [Index -> Char]
      /\ tempCode \in Writing \cup {NoCode} /\ pc = "prompt"
  BY <1>1, <1>3 DEF Init
<1>7. QED
  BY <1>2, <1>4, <1>5, <1>6, ScreenTypes DEF ScreenInv, TypeOK, Latched

\* Every step keeps the types, the screen's included.
LEMMA TypeStep == ScreenInv /\ [Next]_vars => ScreenInv'
<1> SUFFICES ASSUME ScreenInv, [Next]_vars PROVE ScreenInv'
  OBVIOUS
<1>1. TypeOK /\ screen \in Screens /\ Latched
  BY DEF ScreenInv
<1>2. EmptyBuffer \in [Index -> Char] /\ 0 \in Index /\ Byte \in Nat \ {0}
  BY Sizes DEF EmptyBuffer, Char, Index
<1>3. ASSUME NEW code \in Scancodes, Press(code) PROVE ScreenInv'
  <2>1. fifo' \in Seq(Scancodes) /\ Len(fifo') <= Fifo
    BY <1>1, <1>3, KnownScancodes DEF Press, TypeOK
  <2>2. QED
    BY <1>1, <1>3, <2>1 DEF Press, keyboard_state, ScreenInv, TypeOK, Latched
<1>4. CASE IgnoreKey
  BY <1>1, <1>2, <1>4 DEF IgnoreKey, PicAck, ScreenInv, TypeOK, Latched
<1>5. CASE ServeKey
  <2>1. fifo # <<>> /\ Head(fifo) \in Scancodes /\ fifo' \in Seq(Scancodes) /\ Len(fifo') <= Fifo
    <3>1. fifo # <<>> /\ fifo' = Tail(fifo)
      BY <1>1, <1>5 DEF ServeKey, Deliver, HandleCode, ReadPort, Latched
    <3>2. fifo \in Seq(Scancodes) /\ Len(fifo) <= Fifo /\ Fifo \in Nat
      BY <1>1, KnownScancodes DEF TypeOK
    <3>3. QED
      BY <3>1, <3>2
  <2>2. irq' = (fifo' # <<>>) /\ inService' = FALSE /\ pc' = pc /\ line' = line
    BY <1>5 DEF ServeKey, HandleCode, ReadPort, PicAck
  <2>3. CASE UNCHANGED <<keyboard_state, screen>>
    BY <1>1, <2>1, <2>2, <2>3 DEF keyboard_state, ScreenInv, TypeOK, Latched
  <2>4. CASE Modifier(Head(fifo))
    <3>1. shift_pressed' \in BOOLEAN /\ caps_cond' \in BOOLEAN
      BY <2>4 DEF Modifier
    <3>2. UNCHANGED <<input_on, buffer_index, keyboard_buffer, screen>> /\ tempCode' = NoCode
      BY <2>4 DEF Modifier
    <3>3. QED
      BY <1>1, <2>1, <2>2, <3>1, <3>2 DEF ScreenInv, TypeOK, Latched
  <2>5. ASSUME NEW code \in Writing, NEW ch, ch = Mapped(code, shift_pressed, caps_cond),
               Written(code, ch)
        PROVE  ScreenInv'
    <3>1. UNCHANGED <<shift_pressed, caps_cond>> /\ tempCode' \in Writing
      BY <2>5 DEF Written
    <3>2. ch \in Char \cup {Newline, Backspace}
      BY <2>5, MappedIs
    <3>3. /\ input_on' \in BOOLEAN /\ buffer_index' \in Index
          /\ keyboard_buffer' \in [Index -> Char] /\ screen' \in Screens
      <4>1. CASE UNCHANGED <<input_on, buffer_index, keyboard_buffer, screen>>
        BY <1>1, <4>1 DEF TypeOK
      <4>2. CASE Erase
        <5>1. buffer_index - 1 \in Index
          BY <1>1, <4>2, Sizes DEF Erase, TypeOK, Index
        <5>2. Erased(screen) \in Screens
          BY <1>1, ErasedType
        <5>3. QED
          BY <1>1, <4>2, <5>1, <5>2 DEF Erase, TypeOK, Char
      <4>3. CASE EndLine
        BY <1>1, <4>3 DEF EndLine, TypeOK
      <4>4. CASE ch \notin {Backspace, Newline} /\ Echo(ch)
        <5>1. ch \in Char /\ ch \in Glyph
          BY <3>2, <4>4 DEF Glyph
        <5>2. (buffer_index + 1) % Byte \in Index
          <6>1. buffer_index + 1 \in Int
            BY <1>1 DEF TypeOK, Index
          <6>2. QED
            BY <1>2, <6>1, DivMod DEF Index
        <5>3. Echoed(screen, ch) \in Screens /\ Cleared \in Screens
          BY <1>1, <5>1, EchoedType, ClearedType
        <5>4. QED
          BY <1>1, <1>2, <4>4, <5>1, <5>2, <5>3 DEF Echo, TypeOK
      <4>5. CASE MoveLeft
        <5>1. Row(screen) \in Int /\ Col(screen) - 1 \in Int
          BY <1>1, ScreenParts
        <5>2. SetCursor(screen, Row(screen), Col(screen) - 1) \in Screens
          BY <1>1, <5>1, SetCursorType
        <5>3. QED
          BY <1>1, <4>5, <5>2 DEF MoveLeft, TypeOK
      <4>6. QED
        BY <2>5, <4>1, <4>2, <4>3, <4>4, <4>5 DEF Written
    <3>4. QED
      BY <1>1, <2>1, <2>2, <3>1, <3>3, ScreenTypes DEF ScreenInv, TypeOK, Latched
  <2>6. QED
    BY <1>5, <2>3, <2>4, <2>5 DEF ServeKey, HandleCode, Repeated
<1>6. CASE Shell
  <2>1. UNCHANGED <<fifo, irq, inService, shift_pressed, caps_cond, tempCode>>
    BY <1>6 DEF Shell, ReadLine, GetBuffer, ResetBuffer, StartOutput, WriteOut, Refuse, Clear, NextLine,
                PrintHome, hardware, keyboard_state
  <2>2. /\ input_on' \in BOOLEAN /\ buffer_index' \in Index
        /\ pc' \in {"prompt", "read", "spin", "reset", "command", "output"}
        /\ keyboard_buffer' \in [Index -> Char] /\ line' \in [Index -> Char]
    BY <1>1, <1>2, <1>6
       DEF Shell, ReadLine, GetBuffer, ResetBuffer, StartOutput, WriteOut, Refuse, Clear, NextLine,
           PrintHome, Goto, keyboard_state, TypeOK
  <2>3. screen' \in Screens
    <3>1. \A str \in Outputs \cup Refusals : WriteString(screen, str) \in Screens
      BY <1>1, Strings, WriteStringType
    <3>2. /\ WriteString(screen, <<Newline>>) \in Screens
          /\ \A str \in Prompts : WriteString(screen, str) \in Screens
      BY <1>1, Strings, WriteStringType
    <3>3. \A str \in Prompts : WriteString(SetCursor(Cleared, 0, 0), str) \in Screens
      BY ClearedType, SetCursorType, Strings, WriteStringType
    <3>4. SetCursor(screen, Row(screen) + 1, 0) \in Screens
      <4>1. Row(screen) + 1 \in Int /\ 0 \in Int
        BY <1>1, ScreenParts
      <4>2. QED
        BY <1>1, <4>1, SetCursorType
    <3>5. QED
      BY <1>1, <1>6, <3>1, <3>2, <3>3, <3>4
         DEF Shell, ReadLine, GetBuffer, ResetBuffer, StartOutput, WriteOut, Refuse, Clear, NextLine,
             PrintHome
  <2>4. QED
    BY <1>1, <2>1, <2>2, <2>3, ScreenTypes DEF ScreenInv, TypeOK, Latched
<1>7. CASE UNCHANGED vars
  BY <1>1, <1>7 DEF vars, hardware, keyboard_state, ScreenInv, TypeOK, Latched
<1>8. QED
  BY <1>3, <1>4, <1>5, <1>6, <1>7 DEF Next, keyboard_isr

(***************************************************************************)
(* The echo.                                                               *)
(***************************************************************************)

\* Keys that keep the cursor as far from the line's start as the index is from 0: ESC
\* and the left arrow part them.
TypedKeys == Scancodes \cap {"esc", "left"} = {}

\* What leaves the cursor on the screen for the next reading: a refusal may end below
\* it, and a prompt that fills its last row may end behind the last cell.
Plain == TypedKeys /\ Refusals = {} /\ \A str \in Prompts : Len(str) % MAX_COLS # 0

\* Where the cursor may be.
Placed ==
    /\ pc \in {"read", "spin", "reset", "command"} => screen.cursor \in 0 .. Size - 1
    /\ pc = "output" => screen.cursor \in 0 .. Size
    /\ pc = "prompt" => \E r \in 0 .. MAX_ROWS + 1 : screen.cursor = r * MAX_COLS

EchoInv == ScreenInv /\ Quiet /\ EchoMatches

\* A character that is echoed joins the line in the buffer and on the screen.
LEMMA EchoKept ==
    ASSUME ScreenInv, screen.cursor \in 0 .. Size - 1, EchoMatches, input_on,
           NEW ch \in Char, ch # Escape, Echo(ch)
    PROVE  EchoMatches' /\ screen'.cursor \in 0 .. Size - 1
<1> DEFINE p == screen.cursor
           n == buffer_index
           d == IF p = Size - 1 THEN MAX_COLS ELSE 0
           e == Echoed(screen, ch)
<1>1. /\ screen' = e /\ n' = (n + 1) % Byte /\ input_on'
      /\ keyboard_buffer' = [keyboard_buffer EXCEPT ![n] = ch]
  BY DEF Echo
<1>2. /\ screen \in Screens /\ n \in 0 .. Byte - 1 /\ keyboard_buffer \in [0 .. Byte - 1 -> Char]
      /\ p \in n .. Size - 1
      /\ \A i \in 0 .. n - 1 : screen.cells[p - n + i] = keyboard_buffer[i]
  BY DEF ScreenInv, TypeOK, Index, EchoMatches
<1>3. ch \in Glyph
  BY DEF Glyph
<1>4. /\ e.cursor = p - d + 1 /\ e.cursor \in 1 .. Size - 1
      /\ \A o \in Cell : /\ o = p - d => e.cells[o] = ch
                         /\ o < p - d => e.cells[o] = screen.cells[o + d]
  BY <1>2, <1>3, EchoedIs
<1> HIDE DEF e
<1>5. e.cursor \in 0 .. Size - 1
  BY <1>4, Sizes
<1>6. CASE n + 1 = Byte
  <2>1. n' = 0
    BY <1>1, <1>6, Sizes
  <2>2. QED
    BY <1>1, <1>5, <2>1 DEF EchoMatches
<1>7. CASE n + 1 # Byte
  <2>1. n' = n + 1 /\ n + 1 \in 0 .. Byte - 1 /\ n \in Nat
    <3>1. n \in Nat /\ n + 1 < Byte /\ Byte \in Nat \ {0}
      BY <1>2, <1>7, Sizes
    <3>2. (n + 1) % Byte = n + 1
      BY <3>1
    <3>3. QED
      BY <1>1, <3>1, <3>2
  <2>2. d \in Nat /\ n + 1 <= p - d + 1 /\ p \in Nat /\ p < Size
    BY <1>2, <2>1, Sizes
  <2>3. ASSUME NEW i \in 0 .. n
        PROVE  e.cells[(p - d + 1) - (n + 1) + i] = keyboard_buffer'[i]
    <3> DEFINE o == p - d - n + i
    <3>1. /\ o \in Cell /\ (p - d + 1) - (n + 1) + i = o
          /\ i \in 0 .. Byte - 1
      <4>1. /\ i \in Nat /\ i <= n /\ n \in Nat /\ n + 1 <= Byte - 1 /\ Byte \in Nat /\ Size \in Nat
            /\ Cell = 0 .. Size - 1
        BY <2>1, Sizes
      <4> HIDE DEF d, p, n
      <4>2. o \in Cell /\ (p - d + 1) - (n + 1) + i = o
        BY <2>2, <4>1
      <4>3. QED
        BY <4>1, <4>2
    <3>2. CASE i = n
      <4>1. o = p - d
        BY <2>1, <2>2, <3>2
      <4>2. QED
        BY <1>1, <1>2, <1>4, <3>1, <3>2, <4>1
    <3>3. CASE i # n
      <4>1. o < p - d /\ o + d = p - n + i /\ i \in 0 .. n - 1
        BY <2>1, <2>2, <3>3
      <4> HIDE DEF o, d, p
      <4>2. e.cells[o] = screen.cells[p - n + i]
        BY <1>4, <3>1, <4>1
      <4>3. keyboard_buffer'[i] = keyboard_buffer[i]
        BY <1>1, <1>2, <3>1, <3>3
      <4>4. QED
        BY <1>2, <3>1, <4>1, <4>2, <4>3
    <3>4. QED
      BY <3>2, <3>3
  <2> HIDE DEF d, p
  <2>4. e.cursor \in n + 1 .. Size - 1
    BY <1>4, <2>1, <2>2, Sizes
  <2>5. \A i \in 0 .. n' - 1 : screen'.cells[screen'.cursor - n' + i] = keyboard_buffer'[i]
    BY <1>1, <1>4, <2>1, <2>3
  <2>6. QED
    BY <1>1, <1>5, <2>1, <2>4, <2>5 DEF EchoMatches
<1>8. QED
  BY <1>6, <1>7

\* Backspace takes the last character from both.
LEMMA EraseKept ==
    ASSUME ScreenInv, EchoMatches, input_on, Erase
    PROVE  EchoMatches' /\ screen'.cursor \in 0 .. Size - 1
<1> DEFINE p == screen.cursor
           n == buffer_index
           e == Erased(screen)
<1>1. /\ n > 0 /\ screen' = e /\ n' = n - 1 /\ input_on'
      /\ keyboard_buffer' = [keyboard_buffer EXCEPT ![n - 1] = Null]
  BY DEF Erase
<1>2. /\ screen \in Screens /\ n \in 0 .. Byte - 1 /\ keyboard_buffer \in [0 .. Byte - 1 -> Char]
      /\ p \in n .. Size - 1
      /\ \A i \in 0 .. n - 1 : screen.cells[p - n + i] = keyboard_buffer[i]
  BY DEF ScreenInv, TypeOK, Index, EchoMatches
<1>3. p \in 1 .. Size - 1 /\ n \in Nat /\ p \in Nat /\ n <= p /\ p < Size
  BY <1>1, <1>2, Sizes
<1>4. e.cursor = p - 1 /\ \A o \in Cell : o # p - 1 => e.cells[o] = screen.cells[o]
  BY <1>2, <1>3, ErasedIs
<1> HIDE DEF e, p
<1>5. ASSUME NEW i \in 0 .. n - 2
      PROVE  e.cells[(p - 1) - (n - 1) + i] = keyboard_buffer'[i]
  <2>1. /\ (p - 1) - (n - 1) + i = p - n + i /\ p - n + i \in Cell /\ p - n + i # p - 1
        /\ i \in 0 .. n - 1 /\ i # n - 1 /\ i \in 0 .. Byte - 1
    BY <1>1, <1>2, <1>3, Sizes
  <2>2. e.cells[p - n + i] = keyboard_buffer[i]
    BY <1>2, <1>4, <2>1 DEF p
  <2>3. QED
    BY <1>1, <1>2, <2>1, <2>2
<1>6. screen'.cursor \in n' .. Size - 1 /\ screen'.cursor \in 0 .. Size - 1
  BY <1>1, <1>3, <1>4, Sizes
<1>7. \A i \in 0 .. n' - 1 : screen'.cells[screen'.cursor - n' + i] = keyboard_buffer'[i]
  BY <1>1, <1>3, <1>4, <1>5
<1>8. QED
  BY <1>6, <1>7 DEF EchoMatches

\* The invariants of the echo at the start.
LEMMA EchoInit == Init => EchoInv /\ Placed
<1> SUFFICES ASSUME Init PROVE EchoInv /\ Placed
  OBVIOUS
<1>1. 0 \in 0 .. MAX_ROWS + 1 /\ 0 = 0 * MAX_COLS
  BY Sizes
<1>2. Placed
  BY <1>1 DEF Init, Placed
<1>3. QED
  BY <1>2, TypeInit, QuietInit DEF EchoInv, Init, EchoMatches

\* A code that the handler takes changes line and screen together.
LEMMA ServedKept ==
    ASSUME TypedKeys, EchoInv, ServeKey
    PROVE  EchoMatches' /\ screen'.cursor \in 0 .. Size - 1 /\ pc = "spin" /\ pc' = "spin"
<1>1. ScreenInv /\ Quiet /\ EchoMatches
  BY DEF EchoInv
<1>2. input_on /\ pc = "spin" /\ pc' = "spin"
  BY <1>1 DEF ServeKey, HandleCode, Quiet
<1>3. screen.cursor \in 0 .. Size - 1
  BY <1>1, <1>2, Sizes DEF EchoMatches, ScreenInv, TypeOK, Index
<1>4. Head(fifo) \in Scancodes
  BY <1>1 DEF ServeKey, Deliver, ScreenInv, Latched, TypeOK
<1>5. CASE UNCHANGED <<input_on, buffer_index, keyboard_buffer, screen>>
  BY <1>1, <1>2, <1>3, <1>5 DEF EchoMatches
<1>6. CASE Modifier(Head(fifo)) \/ Repeated(Head(fifo))
  BY <1>5, <1>6 DEF Modifier, Repeated, keyboard_state
<1>7. ASSUME NEW code \in Writing, code \in Scancodes, NEW ch,
             ch = Mapped(code, shift_pressed, caps_cond), Written(code, ch)
      PROVE  EchoMatches' /\ screen'.cursor \in 0 .. Size - 1
  <2>1. code \notin {"esc", "left"}
    BY <1>7 DEF TypedKeys
  <2>2. ch \in Char \cup {Newline, Backspace} /\ ch # Escape
    BY <1>7, <2>1, MappedIs
  <2>3. CASE Erase
    BY <1>1, <1>2, <2>3, EraseKept
  <2>4. CASE EndLine
    BY <1>1, <1>3, <2>4 DEF EndLine, EchoMatches
  <2>5. CASE ch \notin {Backspace, Newline} /\ Echo(ch)
    <3>1. ch \in Char
      BY <2>2, <2>5
    <3>2. QED
      BY <1>1, <1>2, <1>3, <2>2, <2>5, <3>1, EchoKept
  <2>6. QED
    BY <1>5, <1>7, <2>1, <2>3, <2>4, <2>5 DEF Written
<1>8. QED
  BY <1>2, <1>4, <1>6, <1>7 DEF ServeKey, HandleCode

\* Every step keeps the cursor as far from the line's start as the index is from 0, and
\* the characters between them those of the buffer, if reading starts on the screen.
LEMMA EchoStep ==
    ASSUME TypedKeys, ShellOnScreen, EchoInv, [Next]_vars
    PROVE  EchoInv'
<1>1. ScreenInv /\ Quiet /\ EchoMatches
  BY DEF EchoInv
<1>2. ScreenInv' /\ Quiet'
  BY <1>1, TypeStep, QuietStep
<1> SUFFICES EchoMatches'
  BY <1>2 DEF EchoInv
<1>3. CASE UNCHANGED <<input_on, buffer_index, keyboard_buffer, screen>>
  BY <1>1, <1>3 DEF EchoMatches
<1>4. CASE ~input_on'
  BY <1>4 DEF EchoMatches
<1>5. ASSUME NEW code \in Scancodes, Press(code) PROVE EchoMatches'
  BY <1>3, <1>5 DEF Press, keyboard_state
<1>6. CASE IgnoreKey
  BY <1>4, <1>6 DEF IgnoreKey
<1>7. CASE ServeKey
  BY <1>7, ServedKept
<1>8. CASE ReadLine
  <2>1. pc = "read" /\ screen' = screen /\ buffer_index' = 0 /\ screen.cursor < Size
    BY <1>1, <1>8 DEF ReadLine, Goto, Quiet, Between, ShellOnScreen
  <2>2. screen.cursor \in 0 .. Size - 1
    <3>1. screen.cursor \in Nat
      BY <1>1, Sizes DEF ScreenInv, TypeOK, Positions
    <3>2. QED
      BY <2>1, <3>1, Sizes
  <2>3. QED
    BY <2>1, <2>2 DEF EchoMatches
<1>9. CASE GetBuffer
  BY <1>4, <1>9 DEF GetBuffer, keyboard_state
<1>10. ASSUME pc \in {"reset"} \cup Between, input_on' = input_on PROVE EchoMatches'
  BY <1>1, <1>4, <1>10 DEF Quiet, Between
<1>11. CASE ResetBuffer
  BY <1>10, <1>11 DEF ResetBuffer, Goto
<1>12. CASE StartOutput \/ NextLine \/ \E str \in Outputs : WriteOut(str)
  BY <1>10, <1>12 DEF StartOutput, NextLine, WriteOut, Goto, keyboard_state, Between
<1>13. CASE \E str \in Refusals : Refuse(str)
  BY <1>10, <1>13 DEF Refuse, keyboard_state, Between
<1>14. CASE \E str \in Prompts : Clear(str) \/ PrintHome(str)
  BY <1>10, <1>14 DEF Clear, PrintHome, Goto, keyboard_state, Between
<1>15. CASE UNCHANGED vars
  BY <1>3, <1>15 DEF vars, keyboard_state
<1>16. QED
  BY <1>5, <1>6, <1>7, <1>8, <1>9, <1>11, <1>12, <1>13, <1>14, <1>15 DEF Next, keyboard_isr, Shell

\* Every step leaves the cursor where it may be.
LEMMA PlaceStep ==
    ASSUME Plain, EchoInv, Placed, [Next]_vars
    PROVE  Placed'
<1>1. ScreenInv /\ Quiet /\ Placed /\ screen \in Screens
  BY DEF EchoInv, ScreenInv
<1>2. CASE UNCHANGED <<screen, pc>>
  BY <1>1, <1>2 DEF Placed
<1>3. ASSUME NEW code \in Scancodes, Press(code) PROVE Placed'
  BY <1>2, <1>3 DEF Press
<1>4. CASE IgnoreKey
  BY <1>2, <1>4 DEF IgnoreKey
<1>5. CASE ServeKey
  BY <1>5, ServedKept DEF Placed, Plain
<1>6. CASE ReadLine \/ GetBuffer \/ ResetBuffer
  BY <1>1, <1>6 DEF ReadLine, GetBuffer, ResetBuffer, Goto, keyboard_state, Placed
<1>7. CASE StartOutput
  <2>1. pc = "command" /\ pc' = "output" /\ screen' = WriteString(screen, <<Newline>>)
    BY <1>7 DEF StartOutput, Goto
  <2>2. screen.cursor \in 0 .. Size
    BY <1>1, <2>1, Sizes DEF Placed
  <2>3. screen'.cursor \in 0 .. Size
    BY <1>1, <2>1, <2>2, Strings, WriteStringType
  <2>4. QED
    BY <2>1, <2>3 DEF Placed
<1>8. ASSUME NEW str \in Outputs, WriteOut(str) PROVE Placed'
  <2>1. pc = "output" /\ pc' = "output" /\ screen' = WriteString(screen, str)
    BY <1>8 DEF WriteOut, Goto
  <2>2. screen.cursor \in 0 .. Size
    BY <1>1, <2>1 DEF Placed
  <2>3. screen'.cursor \in 0 .. Size
    BY <1>1, <2>1, <2>2, Strings, WriteStringType
  <2>4. QED
    BY <2>1, <2>3 DEF Placed
<1>9. \A str \in Prompts : str \in Seq(Glyph) /\ Len(str) >= 2 /\ Len(str) % MAX_COLS # 0
  BY PromptsAreText DEF Plain
<1>10. ASSUME NEW str \in Prompts, Clear(str) PROVE Placed'
  <2>1. pc' = "read" /\ screen' = WriteString(SetCursor(Cleared, 0, 0), str)
    BY <1>10 DEF Clear, Goto
  <2>2. 0 \in 0 .. MAX_ROWS + 1 /\ 0 \in 0 .. MAX_COLS /\ 0 \in Int /\ 0 * MAX_COLS = 0
    BY Sizes
  <2>3. SetCursor(Cleared, 0, 0) \in Screens /\ SetCursor(Cleared, 0, 0).cursor = 0 * MAX_COLS
    <3>1. Position(0, 0) = 0 * MAX_COLS + 0
      BY <2>2, PositionIs
    <3>2. QED
      BY <2>2, <3>1, ClearedType, SetCursorType
  <2>4. screen'.cursor \in 0 .. Size - 1
    BY <1>9, <2>1, <2>2, <2>3, PromptEnds
  <2>5. QED
    BY <2>1, <2>4 DEF Placed
<1>11. CASE NextLine
  <2>1. pc = "output" /\ pc' = "prompt"
        /\ screen' = SetCursor(screen, Row(screen) + 1, 0)
    BY <1>11 DEF NextLine, Goto
  <2>2. screen.cursor \in Near /\ screen.cursor \in 0 .. Size
    BY <1>1, <2>1, Sizes DEF Placed
  <2>3. Row(screen) \in 0 .. MAX_ROWS
    <3>1. /\ Row(screen) \in 0 .. MAX_ROWS + 1 /\ Col(screen) \in 0 .. MAX_COLS - 1
          /\ screen.cursor = Row(screen) * MAX_COLS + Col(screen)
      BY <2>2, PositionKept
    <3>2. PICK x \in 0 .. MAX_ROWS + 1, y \in 0 .. MAX_COLS - 1 : x = Row(screen) /\ y = Col(screen)
      BY <3>1
    <3>3. x * MAX_COLS + y <= Size /\ x \in Nat /\ y \in Nat
      BY <2>2, <3>1, <3>2, Sizes
    <3>4. x # MAX_ROWS + 1
      <4>1. (MAX_ROWS + 1) * MAX_COLS = Size + MAX_COLS
        BY Sizes
      <4>2. QED
        BY <3>3, <4>1, Sizes
    <3>5. QED
      BY <3>2, <3>4, Sizes
  <2>4. PICK r \in 0 .. MAX_ROWS + 1 : r = Row(screen) + 1
    BY <2>3, Sizes
  <2>5. r \in Int /\ 0 \in Int /\ 0 \in 0 .. MAX_COLS
    BY Sizes
  <2>6. screen'.cursor = Position(r, 0) /\ Position(r, 0) = r * MAX_COLS + 0 /\ r * MAX_COLS \in Nat
    BY <1>1, <2>1, <2>4, <2>5, SetCursorType, PositionIs
  <2>7. screen'.cursor = r * MAX_COLS
    BY <2>6
  <2>8. QED
    BY <2>1, <2>7 DEF Placed
<1>12. ASSUME NEW str \in Prompts, PrintHome(str) PROVE Placed'
  <2>1. pc = "prompt" /\ pc' = "read" /\ screen' = WriteString(screen, str)
    BY <1>12 DEF PrintHome, Goto
  <2>2. PICK r \in 0 .. MAX_ROWS + 1 : screen.cursor = r * MAX_COLS
    BY <1>1, <2>1 DEF Placed
  <2>3. screen'.cursor \in 0 .. Size - 1
    BY <1>1, <1>9, <2>1, <2>2, PromptEnds
  <2>4. QED
    BY <2>1, <2>3 DEF Placed
<1>13. \A str \in Refusals : ~Refuse(str)
  BY DEF Plain
<1>14. CASE UNCHANGED vars
  BY <1>2, <1>14 DEF vars
<1>15. QED
  BY <1>3, <1>4, <1>5, <1>6, <1>7, <1>8, <1>10, <1>11, <1>12, <1>13, <1>14
     DEF Next, keyboard_isr, Shell

\* Where the cursor may be, a reading starts on the screen.
LEMMA PlacedOnScreen == EchoInv /\ Placed => ShellOnScreen
  BY Sizes DEF Placed, ShellOnScreen

\* Every variable keeps its type and the cursor stays what two bytes make of it, on
\* and off the screen, for every set of keys, of strings and of refusals.
THEOREM KeyboardTypeCorrect == Spec => []TypeOK
<1>1. ScreenInv => TypeOK
  BY DEF ScreenInv
<1>2. QED
  BY <1>1, TypeInit, TypeStep, PTL DEF Spec

\* While a line is read the screen shows it before the cursor, through the scrolling
\* and wrapping of the screen, the wrap of the index, backspaces and type-ahead, as
\* long as reading starts with the cursor on the screen: for every prompt, output and
\* refusal, and every key but ESC and the left arrow.
THEOREM EchoMatchesAlways == ASSUME TypedKeys PROVE Spec /\ []ShellOnScreen => []EchoMatches
<1>1. EchoInv => EchoMatches
  BY DEF EchoInv
<1>2. ShellOnScreen /\ EchoInv /\ [Next]_vars => EchoInv'
  BY EchoStep
<1>3. Init => EchoInv
  BY EchoInit
<1>4. QED
  BY <1>1, <1>2, <1>3, PTL DEF Spec

\* Reading starts with the cursor on the screen, whatever commands write and wherever
\* the screen scrolls, if every command ends in a prompt and none fills its last row.
THEOREM ShellOnScreenAlways == ASSUME Plain PROVE Spec => []ShellOnScreen
<1>1. Init => EchoInv /\ Placed
  BY EchoInit
<1>2. EchoInv /\ Placed => ShellOnScreen
  BY PlacedOnScreen
<1>3. EchoInv /\ Placed /\ [Next]_vars => EchoInv' /\ Placed'
  BY <1>2, EchoStep, PlaceStep DEF Plain
<1>4. QED
  BY <1>1, <1>2, <1>3, PTL DEF Spec
=============================================================================
