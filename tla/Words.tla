------------------------------- MODULE Words --------------------------------
(***************************************************************************)
(* What the shell does with the line it has read before it looks at a      *)
(* command (execute_cmd of src/src/user-shell.c): it trims the line in its *)
(* buffer, splits it into the rows of cmd, and takes a file's word apart   *)
(* into stem and extension.  Bytes that the code reads and writes outside  *)
(* of an array are those the build puts there.                             *)
(***************************************************************************)
EXTENDS Integers, Sequences, FiniteSets
S == INSTANCE SequencesExt

CONSTANTS
    NUL,                   \* the byte '\0'
    Letters,               \* the bytes without a meaning to the shell
    KEYBOARD_BUFFER_SIZE,
    Rows, Columns,         \* of cmd: 40 and 15
    NameLength, ExtLength, \* of a directory entry: 8 and 3
    Behind                 \* the bytes behind the buffer, main's home, up to a NUL

Space    == " "
Chars    == Letters \cup {Space, "/", ".", NUL}
FullName == NameLength + ExtLength + 1
Indices  == 0 .. KEYBOARD_BUFFER_SIZE - 1

ASSUME WordsAssumption ==
    /\ NUL \notin Letters \cup {Space, "/", "."}
    /\ {KEYBOARD_BUFFER_SIZE, Rows, Columns, NameLength, ExtLength} \subseteq Nat \ {0}
    /\ KEYBOARD_BUFFER_SIZE > 1 /\ Rows > 1 /\ Columns >= FullName
    /\ Behind \in Seq(Chars) /\ Len(Behind) > 1 /\ S!Last(Behind) = NUL /\ Head(Behind) \notin {Space, NUL}

VARIABLES
    line,       \* the line as the system call left it
    input,      \* the same in the shell's buffer, with the bytes behind it
    cmd,        \* its rows of words, one behind the other
    i, neff, cmd_length,
    parsed,     \* target_ext, target_name and full_name, in the order of the build
    pc

wordsVars == <<line, input, cmd, i, neff, cmd_length, parsed, pc>>

(***************************************************************************)
(* Trimming                                                                *)
(***************************************************************************)
\* Fault: the line is shifted without the byte behind it.
TrimLeftStops ==
    /\ pc = "trim" /\ input[0] = Space
    /\ input' = [p \in DOMAIN input |-> IF p < KEYBOARD_BUFFER_SIZE - 2 THEN input[p + 1] ELSE input[p]]
    /\ UNCHANGED <<line, cmd, i, neff, cmd_length, parsed, pc>>

\* One space less in front: the shift takes the byte behind the buffer in.
TrimLeft ==
    /\ pc = "trim" /\ input[0] = Space
    /\ input' = [p \in DOMAIN input |-> IF p \in Indices THEN input[p + 1] ELSE input[p]]
    /\ UNCHANGED <<line, cmd, i, neff, cmd_length, parsed, pc>>

\* Spaces behind the last byte in use go.  In an empty buffer the search for
\* that byte ends below it on the stack, at the 256 of the last system call.
LastUsed == {k \in Indices : input[k] # NUL /\ \A q \in Indices : q > k => input[q] = NUL}
Trailing == {p \in Indices : \E k \in LastUsed : p <= k /\ \A q \in p .. k : input[q] = Space}
TrimRight ==
    /\ pc = "trim" /\ input[0] # Space
    /\ input' = [p \in DOMAIN input |-> IF p \in Trailing THEN NUL ELSE input[p]]
    /\ pc' = "split"
    /\ UNCHANGED <<line, cmd, i, neff, cmd_length, parsed>>

(***************************************************************************)
(* Splitting: one round of the loop writes the row of a word and, when     *)
(* spaces follow, a row that says so.                                      *)
(***************************************************************************)
Separators  == {Space, "/", NUL}
Next_(p, Q) == {e \in DOMAIN input : e >= p /\ input[e] \in Q /\ \A q \in p .. e - 1 : input[q] \notin Q}
At(row)     == row * Columns

\* The bytes a round writes: the word in i .. e - 1, its NUL, and the space.
RowBytes(e) ==
    [p \in (At(neff) .. At(neff) + e - i) \cup (IF input[e] = Space THEN {At(neff + 1)} ELSE {}) |->
        IF input[e] = Space /\ p = At(neff + 1) THEN Space
        ELSE IF p = At(neff) + e - i THEN NUL ELSE input[i + p - At(neff)]]

\* Fault: one space is skipped where several may follow.
SplitWordOneSpace ==
    /\ pc = "split" /\ input[i] # NUL
    /\ \E e \in Next_(i, Separators) :
          /\ DOMAIN RowBytes(e) \subseteq DOMAIN cmd
          /\ cmd' = [p \in DOMAIN cmd |-> IF p \in DOMAIN RowBytes(e) THEN RowBytes(e)[p] ELSE cmd[p]]
          /\ i' = IF input[e] = NUL THEN e ELSE e + 1
          /\ neff' = neff + (IF input[e] = Space THEN 2 ELSE 1)
          /\ cmd_length' = cmd_length + (IF input[e] = Space THEN 1 ELSE 0)
    /\ UNCHANGED <<line, input, parsed, pc>>

SplitWord ==
    /\ pc = "split" /\ input[i] # NUL
    /\ \E e \in Next_(i, Separators) : \E b \in Next_(e, Chars \ {Space}) :
          /\ DOMAIN RowBytes(e) \subseteq DOMAIN cmd
          /\ cmd' = [p \in DOMAIN cmd |-> IF p \in DOMAIN RowBytes(e) THEN RowBytes(e)[p] ELSE cmd[p]]
          /\ i' = IF input[b] = "/" THEN b + 1 ELSE b
          /\ neff' = neff + (IF input[e] = Space THEN 2 ELSE 1)
          /\ cmd_length' = cmd_length + (IF input[e] = Space THEN 1 ELSE 0)
    /\ UNCHANGED <<line, input, parsed, pc>>

\* A row that does not lie within cmd goes over the shell's other variables.
RunOver ==
    /\ pc = "split" /\ input[i] # NUL
    /\ \E e \in Next_(i, Separators) : ~ DOMAIN RowBytes(e) \subseteq DOMAIN cmd
    /\ pc' = "wild"
    /\ UNCHANGED <<line, input, cmd, i, neff, cmd_length, parsed>>

EndSplit ==
    /\ pc = "split" /\ input[i] = NUL
    /\ pc' = "done"
    /\ UNCHANGED <<line, input, cmd, i, neff, cmd_length, parsed>>

(***************************************************************************)
(* parse_file_cmd goes through all the bytes of full_name and writes each  *)
(* but the dots, also those behind the word's end.  The compiler puts      *)
(* target_name behind target_ext, and full_name behind both.               *)
(***************************************************************************)
TargetName == ExtLength + 1
TargetFull == TargetName + NameLength + 1

\* Fault: the dot is taken for the first byte of the extension.
ParseByteKeepsDot(s, idx) ==
    LET c == s.m[TargetFull + idx]
    IN  IF s.stop THEN s
        ELSE IF s.ext_found \/ c = "."
        THEN IF s.x = ExtLength + 1 /\ c # NUL THEN [s EXCEPT !.stop = TRUE]
             ELSE [s EXCEPT !.ext_found = TRUE, !.m[s.x] = c, !.x = @ + 1]
        ELSE IF s.n = NameLength /\ c # NUL THEN [s EXCEPT !.stop = TRUE]
             ELSE [s EXCEPT !.m[TargetName + s.n] = c, !.n = @ + 1]

\* One byte: m is the memory of the three arrays, n and x the two indices.
ParseByte(s, idx) ==
    LET c == s.m[TargetFull + idx]
    IN  IF s.stop THEN s
        ELSE IF c = "." THEN [s EXCEPT !.ext_found = TRUE]
        ELSE IF s.ext_found
        THEN IF s.x = ExtLength + 1 /\ c # NUL THEN [s EXCEPT !.stop = TRUE]
             ELSE [s EXCEPT !.m[s.x] = c, !.x = @ + 1]
        ELSE IF s.n = NameLength /\ c # NUL THEN [s EXCEPT !.stop = TRUE]
             ELSE [s EXCEPT !.m[TargetName + s.n] = c, !.n = @ + 1]

\* The three arrays before the first byte.
Arrays(row) ==
    [p \in 0 .. TargetFull + FullName - 1 |->
        IF p < TargetFull THEN NUL ELSE cmd[At(row) + p - TargetFull]]

parse_file_cmd(row) ==
    LET Parse[k \in 0 .. FullName] ==
          IF k = 0 THEN [m |-> Arrays(row), n |-> 0, x |-> 0, ext_found |-> FALSE, stop |-> FALSE]
          ELSE ParseByte(Parse[k - 1], k - 1)
    IN  Parse[FullName].m

\* Any row may be the one a command takes for its file.
ParseFile ==
    /\ pc = "done"
    /\ \E row \in 0 .. neff - 1 : parsed' = [row |-> row, m |-> parse_file_cmd(row)]
    /\ pc' = "parsed"
    /\ UNCHANGED <<line, input, cmd, i, neff, cmd_length>>

WordsInit ==
    /\ line \in [Indices -> Chars]
    /\ input = [p \in 0 .. KEYBOARD_BUFFER_SIZE + Len(Behind) - 1 |->
                   IF p \in Indices THEN line[p] ELSE Behind[p - KEYBOARD_BUFFER_SIZE + 1]]
    /\ cmd = [p \in 0 .. Rows * Columns - 1 |-> NUL]
    /\ i = 0 /\ neff = 0 /\ cmd_length = 0
    /\ parsed = [row |-> 0, m |-> [p \in 0 .. TargetFull + FullName - 1 |-> NUL]]
    /\ pc = "trim"

Prepare   == TrimLeft \/ TrimRight \/ SplitWord \/ RunOver \/ EndSplit
WordsNext == Prepare \/ ParseFile
WordsSpec == WordsInit /\ [][WordsNext]_wordsVars
FairWords == WordsSpec /\ WF_wordsVars(Prepare)

(***************************************************************************)
(* Properties                                                              *)
(***************************************************************************)
\* The string at a in an array of bytes, as a sequence.
StringAt(f, a) ==
    LET e == CHOOSE p \in DOMAIN f : p >= a /\ f[p] = NUL /\ \A q \in a .. p - 1 : f[q] # NUL
    IN  [k \in 1 .. e - a |-> f[a + k - 1]]

\* A text as a command should see it: one space for several, no slash after a
\* space and none at the end.
Kept(t) == {p \in DOMAIN t : ~ \/ t[p] \in {Space, "/"} /\ p > 1 /\ t[p - 1] = Space
                               \/ t[p] = "/" /\ p = Len(t)}
Normal(t) ==
    LET UpTo[n \in 0 .. Len(t)] ==
          IF n = 0 THEN <<>>
          ELSE IF n \in Kept(t) THEN Append(UpTo[n - 1], t[n]) ELSE UpTo[n - 1]
    IN  UpTo[Len(t)]
CountKept(t, c) == Cardinality({p \in Kept(t) : t[p] = c})

\* No word of t is longer than a row holds.
WordsFit(t) == \A p \in 1 .. Len(t) - Columns + 1 : \E q \in p .. p + Columns - 1 : t[q] \in Separators

\* The rows put together again.
Row(r) == StringAt(cmd, At(r))
Joined ==
    LET First[n \in 0 .. neff] ==
          IF n = 0 THEN <<>>
          ELSE IF n = 1 \/ Row(n - 1) = <<Space>> \/ Row(n - 2) = <<Space>> THEN First[n - 1] \o Row(n - 1)
          ELSE First[n - 1] \o <<"/">> \o Row(n - 1)
    IN  First[neff]

\* A line that ends within the buffer; and one with spaces at one end at most.
Text == StringAt([p \in 0 .. KEYBOARD_BUFFER_SIZE |-> IF p \in Indices THEN line[p] ELSE NUL], 0)
Ended == Len(Text) < KEYBOARD_BUFFER_SIZE /\ \A p \in Indices : line[p] # NUL => p < Len(Text)
Plain ==
    /\ Ended
    /\ Text # <<>> => Space \notin {Head(Text)} \cap {S!Last(Text)}
Inner(t) ==
    LET solid == {p \in DOMAIN t : t[p] # Space}
    IN  IF solid = {} THEN <<>> ELSE SubSeq(t, S!Min(solid), S!Max(solid))

\* The rows are the words of the line, in its order, none lost, cut or joined,
\* and cmd_length tells its arguments, whatever its spaces and slashes
\* (user-shell.c:526-587).
RowsAreTheLine ==
    pc = "done" /\ Plain /\ WordsFit(Text) =>
       Joined = Normal(Inner(Text)) /\ cmd_length = CountKept(Inner(Text), Space)

\* Whatever the buffer holds, the bytes behind it included, only a line of more
\* rows than cmd has, or with a word longer than a row, is written outside of
\* cmd (user-shell.c:559-578).
StaysInside ==
    LET t == StringAt(input, 0)
    IN  pc = "wild" => ~WordsFit(t) \/ 1 + CountKept(t, "/") + 2 * CountKept(t, Space) > Rows

\* In a line of words that fit their rows, a word without a dot is a stem; in one
\* with a dot the two parts come out if the stem fills its eight bytes or all but
\* one.  Behind a word too long for its row the next row is not the word's alone
\* (user-shell.c:481-521, 559).
Dots(w) == {p \in DOMAIN w : w[p] = "."}
StemAndExtension ==
    LET w    == Row(parsed.row)
        stem == StringAt(parsed.m, TargetName)
        ext  == StringAt(parsed.m, 0)
    IN  pc = "parsed" /\ WordsFit(StringAt(input, 0)) =>
           /\ Dots(w) = {} /\ Len(w) <= NameLength => stem = w /\ ext = <<>>
           /\ \A d \in Dots(w) :
                 /\ Dots(w) = {d} /\ d - 1 \in {NameLength - 1, NameLength} /\ Len(w) - d <= ExtLength
                 => stem = SubSeq(w, 1, d - 1) /\ ext = SubSeq(w, d + 1, Len(w))

\* Every line is trimmed and split to its end, or runs over (user-shell.c:526-587).
SplitEnds == <>(pc \in {"done", "wild", "parsed"})
=============================================================================
