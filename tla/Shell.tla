------------------------------- MODULE Shell --------------------------------
(***************************************************************************)
(* The user's shell (src/src/user-shell.c) on the machine of Boot.  The    *)
(* shell is the only process and asks the driver for one thing at a time,  *)
(* so what it reads between two of its calls that write is read in one     *)
(* step.  A name is a pair of a stem and an extension; a word the user     *)
(* typed is one too, and a line is a command and the words of one or two   *)
(* paths, which Words splits it into.  ls, echo, help, clear and a command *)
(* that is not known change nothing that is modelled.  The power does not  *)
(* fail here.                                                              *)
(***************************************************************************)
EXTENDS Boot, Move
S == INSTANCE SequencesExt

CONSTANTS
    Lines,      \* the lines the user may type
    LinesTyped, \* how many of them are typed
    LongStems   \* the stems of eight characters; the others have at most six

Up    == <<"..", "">>
Here  == <<".", "">>

ASSUME LinesAssumption ==
    /\ LinesTyped \in Nat
    /\ \A l \in Lines :
          /\ l.cmd \in {"cd", "mkdir", "cat", "rm", "cp", "mv"}
          /\ l.cmd # "cd" => l.from # <<>>
          /\ l.cmd \in {"cp", "mv"} => l.to # <<>>

VARIABLES
    stack,    \* DIR_NUMBER_STACK and DIR_NAME_STACK, up to DIR_STACK_LENGTH
    saved,    \* their copies: DIR_NUMBER_STACK_TEMP and so on
    line,     \* the line being executed
    at,       \* what execute_cmd does next
    filesize, \* cp's local variable of that name, never initialised
    frames,   \* the activations of copy_folder
    source,   \* mv's src_table, by its cluster, and src_idx
    typed,    \* how many lines were typed
    home,     \* the stack when the line was typed, for the properties
    job       \* what cp was to copy and whether it can, for the properties

shellVars == <<stack, saved, line, at, filesize, frames, source, typed, home, job>>
all == <<machine, move, shellVars>>

(***************************************************************************)
(* Paths                                                                   *)
(***************************************************************************)
\* A word's first eight characters, as a name without extension.
Typed(w) == IF w[2] = "" \/ w[1] \in LongStems THEN <<w[1], "">>
            ELSE <<w[1] \o "." \o w[2], "">>

\* What parse_file_cmd makes of a word (Words): an extension behind a short stem
\* goes on into the array of the stem and clears its first byte.
Parsed(w) == IF w[2] = "" \/ w[1] \in LongStems THEN w ELSE <<"", w[2]>>

Paths     == Seq([cluster : Cluster, name : Names \cup {RootName}])
RootStack == <<[cluster |-> ROOT_CLUSTER_NUMBER, name |-> RootName]>>

Top(s)   == s[Len(s)]
Above(s) == IF Len(s) <= 1 THEN ROOT_CLUSTER_NUMBER ELSE s[Len(s) - 1].cluster

\* What the system call read_directory finds: one cluster, or none.
FolderAt(d, n) == {table[d][s].cluster : s \in {s \in Slot : FirstFolder(table[d], n, s)}}

\* Fault: the name is pushed before the directory is looked for.
ChangeDirectoryPushes(s, w) ==
    IF w = Up THEN IF Len(s) <= 1 THEN s ELSE S!Front(s)
    ELSE IF w = Here THEN s
    ELSE LET found == FolderAt(Top(s).cluster, Typed(w))
         IN  Append(s, [cluster |-> IF found = {} THEN Top(s).cluster
                                    ELSE table[CHOOSE c \in found : TRUE][0].cluster,
                        name |-> Typed(w)])

\* A directory that is not found leaves the shell where it is.
ChangeDirectory(s, w) ==
    IF w = Up THEN IF Len(s) <= 1 THEN s ELSE S!Front(s)
    ELSE IF w = Here \/ FolderAt(Top(s).cluster, Typed(w)) = {} THEN s
    ELSE LET found == CHOOSE c \in FolderAt(Top(s).cluster, Typed(w)) : TRUE
         IN  Append(s, [cluster |-> table[found][0].cluster, name |-> Typed(w)])
Walk(s, path) == S!FoldLeft(ChangeDirectory, s, path)

\* The shell lists where it is by looking its name up in the directory above.
Listed(s) == FolderAt(Above(s), Top(s).name)

\* A table that was not read is whatever the stack held: another one, or zeroes.
Garbage == {EmptyTable} \cup {table[c] : c \in Directories(table)}
TablesOf(found) == IF found = {} THEN Garbage ELSE {table[c] : c \in found}

\* The used entries a word names: the extension counts for files only.
Hits(t, w) ==
    {s \in Slot \ {0} : /\ Used(t[s]) /\ t[s].name[1] = w[1]
                        /\ t[s].attribute = "file" => t[s].name[2] = w[2]}
Lowest(Q)  == {s \in Q : \A r \in Q : s <= r}
Highest(Q) == {s \in Q : \A r \in Q : r <= s}
\* cat and cp look at the stems alone, of all the entries.
SameStem(t, w) == {s \in Slot \ {0} : t[s].name[1] = w[1]}

(***************************************************************************)
(* A line is typed                                                         *)
(***************************************************************************)
NoJob    == [from |-> 0, to |-> 0, item |-> FreeEntry, fair |-> FALSE]
Ready(a) == who = "shell" /\ pc = "idle" /\ at = a

Type ==
    /\ Ready("prompt") /\ typed < LinesTyped
    /\ \E l \in Lines :
          /\ line' = l /\ home' = stack /\ saved' = stack
          /\ \/ /\ l.cmd = "cd"
                /\ stack' = IF l.from = <<>> THEN <<stack[1]>> ELSE Walk(stack, l.from)
                /\ at' = "prompt"
             \/ /\ l.cmd # "cd"
                /\ stack' = Walk(stack, S!Front(l.from))
                /\ at' = l.cmd
    /\ typed' = typed + 1 /\ job' = NoJob
    /\ UNCHANGED <<machine, move, filesize, frames, source>>

Word == S!Last(line.from)
File == Parsed(Word)
Cwd  == Top(stack).cluster
EndsWith(next) ==
    /\ at' = next
    /\ UNCHANGED <<pageVars, bootVars, move, stack, saved, line, filesize, frames, source,
                   typed, home, job>>

\* Fault: the entries the walk wrote over are not put back, only the length is.
RestoreLength ==
    /\ Ready("restore")
    /\ stack' = [k \in DOMAIN saved |-> IF k \in DOMAIN stack THEN stack[k] ELSE saved[k]]
    /\ at' = "prompt"
    /\ UNCHANGED <<machine, move, saved, line, filesize, frames, source, typed, home, job>>

Restore ==
    /\ Ready("restore")
    /\ stack' = saved
    /\ at' = "prompt"
    /\ UNCHANGED <<machine, move, saved, line, filesize, frames, source, typed, home, job>>

(***************************************************************************)
(* mkdir, cat and rm                                                       *)
(***************************************************************************)
MakeDirectoryCommand ==
    /\ Ready("mkdir")
    /\ Write(Cwd, Typed(Word), 0, ShellText)
    /\ EndsWith("restore")

\* The entry found by its stem gives the size, the word itself the name.
CatCommand ==
    /\ Ready("cat")
    /\ \E t \in TablesOf(Listed(stack)) :
          \/ SameStem(t, File) = {} /\ UNCHANGED vars
          \/ \E s \in Lowest(SameStem(t, File)) :
                Read(Cwd, <<Typed(Word)[1], File[2]>>, t[s].filesize)
    /\ EndsWith("restore")

\* The first entry the word names goes, if the directory can be listed.
remove(w) ==
    \/ (\A c \in Listed(stack) : Hits(table[c], w) = {}) /\ UNCHANGED vars
    \/ \E c \in Listed(stack) : \E s \in Lowest(Hits(table[c], w)) : Delete(Cwd, table[c][s].name)

RemoveCommand ==
    /\ Ready("rm")
    /\ remove(File)
    /\ EndsWith("restore")

(***************************************************************************)
(* cp.  A frame of copy_folder has the entries it has yet to copy, the     *)
(* directory they are in, and the one they go to.  The file or directory   *)
(* that is copied first is an entry too.                                   *)
(***************************************************************************)
Activation(n, items, from, to) == [name |-> n, items |-> items, from |-> from, to |-> to]
Item(attribute) == [name |-> File, attribute |-> attribute, cluster |-> 0, filesize |-> filesize']

\* No two entries of d, its own included, have one name.
Distinct(d) == \A s, r \in Slot :
    Used(table[d][s]) /\ Used(table[d][r]) /\ table[d][s].name = table[d][r].name => s = r

\* A directory is there, has no two entries of a name in any directory, and
\* goes to one that is not below it and has no entry of its name.
Fair(from, to, n) ==
    /\ \A r \in Slot : table[to][r].name # n
    /\ \E c \in FolderAt(from, n) :
          c # from /\ to \notin Below(table, c) /\ \A d \in Below(table, c) : Distinct(d)

CopyCommand ==
    /\ Ready("cp")
    /\ ReadDirectory(Above(stack), Top(stack).name, 0)
    /\ IF File[2] # "" THEN filesize' = filesize
       ELSE \E t \in TablesOf(Listed(stack)) :
               filesize' \in IF SameStem(t, File) = {} THEN {filesize}
                             ELSE {t[s].filesize : s \in Lowest(SameStem(t, File))}
    /\ stack' = Walk(saved, line.to)
    /\ LET to   == Top(stack').cluster
           item == Item(IF File[2] = "" THEN "dir" ELSE "file")
       IN  /\ frames' = <<Activation(NoName, <<item>>, Cwd, to)>>
           /\ job' = [from |-> Cwd, to |-> to, item |-> item,
                      fair |-> item.attribute = "dir" /\ Fair(Cwd, to, File)]
    /\ at' = "copy"
    /\ UNCHANGED <<pageVars, bootVars, move, saved, line, source, typed, home>>

Current == S!Last(frames)
Popped  == Append(S!Front(frames), [Current EXCEPT !.items = Tail(@)])
Goes(next, rest) ==
    /\ at' = next /\ frames' = rest
    /\ job' = [job EXCEPT !.fair = @ /\ out.code = 0]
    /\ UNCHANGED <<pageVars, bootVars, move, stack, saved, line, filesize, source, typed, home>>

\* Fault: the loop over the entries starts one late.
ChildrenLate(t) == SelectSeq([k \in 1 .. TableSlots - 2 |-> t[k + 1]], Used)

\* The entries of a table that was read, in its order.
Children(t) == SelectSeq([k \in 1 .. TableSlots - 1 |-> t[k]], Used)

\* copy_folder reads the directory, found or not, then makes the new one.
CopyFolder ==
    /\ Ready("copy") /\ Current.items # <<>> /\ Head(Current.items).attribute = "dir"
    /\ LET n == <<Head(Current.items).name[1], "">> IN
       \E t \in TablesOf(FolderAt(Current.from, n)) :
          /\ Write(Current.to, n, 0, ShellText)
          /\ Goes("made", Append(Popped, Activation(n, Children(t), t[0].cluster, 0)))

\* Fault: a directory that was refused is asked for again.
EnterCopyRetries ==
    /\ Ready("made") /\ UNCHANGED vars
    /\ \/ /\ out.code # 0
          /\ Goes("copy", Append(S!Front(S!Front(frames)), [S!Last(S!Front(frames)) EXCEPT !.items =
                               <<[FreeEntry EXCEPT !.name = Current.name, !.attribute = "dir"]>> \o @]))
       \/ /\ out.code = 0
          /\ \E c \in FolderAt(S!Last(S!Front(frames)).to, Current.name) :
                Goes("copy", Append(S!Front(frames), [Current EXCEPT !.to = table[c][0].cluster]))

\* It gives up when it cannot; else it looks the new directory up.
EnterCopy ==
    /\ Ready("made") /\ UNCHANGED vars
    /\ \/ out.code # 0 /\ Goes("copy", S!Front(frames))
       \/ /\ out.code = 0
          /\ \E c \in FolderAt(S!Last(S!Front(frames)).to, Current.name) :
                Goes("copy", Append(S!Front(frames), [Current EXCEPT !.to = table[c][0].cluster]))

CopyFile ==
    /\ Ready("copy") /\ Current.items # <<>> /\ Head(Current.items).attribute = "file"
    /\ Read(Current.from, Head(Current.items).name, Head(Current.items).filesize)
    /\ Goes("read", frames)

WriteCopy ==
    /\ Ready("read")
    /\ \/ out.code # 0 /\ UNCHANGED vars
       \/ /\ out.code = 0
          /\ \E p \in Payloads :
                /\ out.blocks[1] # NoBlock => out.blocks[1][1] = p
                /\ Write(Current.to, Head(Current.items).name, Head(Current.items).filesize, p)
    /\ Goes("copy", Popped)

LeaveCopy ==
    /\ Ready("copy") /\ Current.items = <<>>
    /\ Goes(IF Len(frames) = 1 THEN "restore" ELSE "copy", S!Front(frames))
    /\ UNCHANGED vars

(***************************************************************************)
(* mv.  When the source or the destination cannot be listed, or there is   *)
(* no such entry, it returns at once: the stack is not put back.           *)
(***************************************************************************)
GiveUp ==
    /\ \/ Ready("mv") /\ \A c \in Listed(stack) : Hits(table[c], File) = {}
       \/ Ready("move") /\ Listed(stack) = {}
    /\ EndsWith("prompt")
    /\ UNCHANGED vars

FindSource ==
    /\ Ready("mv")
    /\ \E c \in Listed(stack) : \E s \in Highest(Hits(table[c], File)) : source' = <<c, s>>
    /\ stack' = Walk(saved, line.to)
    /\ at' = "move"
    /\ UNCHANGED <<machine, move, saved, line, filesize, frames, typed, home, job>>

MoveCommand ==
    /\ Ready("move")
    /\ \E d \in Listed(stack) : MoveEntry(source[1], d, source[2])
    /\ at' = "restore"
    /\ UNCHANGED <<pageVars, bootVars, stack, saved, line, filesize, frames, source, typed, home, job>>

(***************************************************************************)
(* The machine                                                             *)
(***************************************************************************)
ShellInit ==
    /\ BootInit /\ move = NoMove
    /\ stack = RootStack
    /\ saved = stack /\ home = stack
    /\ line = [cmd |-> "cd", from |-> <<>>, to |-> <<>>] /\ at = "prompt" /\ typed = 0
    /\ filesize = 0 /\ frames = <<>> /\ source = <<0, 0>> /\ job = NoJob

Execute ==
    \/ MakeDirectoryCommand \/ CatCommand \/ RemoveCommand \/ Restore
    \/ CopyCommand \/ CopyFolder \/ EnterCopy \/ CopyFile \/ WriteCopy \/ LeaveCopy
    \/ GiveUp \/ FindSource \/ MoveCommand
    \/ Work /\ UNCHANGED <<move, shellVars>>
    \/ (MoveSource \/ MoveDest) /\ UNCHANGED <<pageVars, bootVars, shellVars>>

ShellNext == Type \/ Execute
ShellSpec == ShellInit /\ [][ShellNext]_all
FairShellSpec == ShellSpec /\ WF_all(Execute)

(***************************************************************************)
(* where_is, for a word whose name is n: the directories whose path it     *)
(* prints.  It goes through the tree by name, as the shell's listing does. *)
(***************************************************************************)
\* The directories that tables show in some of their slots, and the path to one.
FoldersOf(T, Q) == {e \in {t[k] : t \in T, k \in Q} : e.attribute = "dir"}
Into(s, e)      == Append(s, [cluster |-> e.cluster, name |-> e.name])

\* Fault: the loop over the directories starts one late.
WhereIsSkips(n) ==
    LET Printed[s \in Paths] ==
          {Top(s).cluster : t \in {t \in TablesOf(Listed(s)) : Hits(t, n) # {}}}
            \cup UNION {Printed[Into(s, e)] : e \in FoldersOf(TablesOf(Listed(s)), Slot \ {0, 1})}
    IN  Printed[RootStack]

WhereIs(n) ==
    LET Printed[s \in Paths] ==
          {Top(s).cluster : t \in {t \in TablesOf(Listed(s)) : Hits(t, n) # {}}}
            \cup UNION {Printed[Into(s, e)] : e \in FoldersOf(TablesOf(Listed(s)), Slot \ {0})}
    IN  Printed[RootStack]

(***************************************************************************)
(* Properties                                                              *)
(***************************************************************************)
\* Whatever path a command walks, found or not, and whatever the driver answers,
\* the prompt comes back where the line was typed; but a cd changes it, and a mv
\* that gives up stays where its path led (user-shell.c:731-745, 1137, 1172).
StackKept ==
    [][at # "prompt" /\ at' = "prompt" /\ stack' # home => at \in {"mv", "move"}]_all

\* Each directory on the stack is the first of its name in the one before.
IsPath(s) ==
    /\ s[1] = RootStack[1]
    /\ \A k \in 2 .. Len(s) : s[k].cluster \in FolderAt(s[k - 1].cluster, s[k].name)

\* The stack goes on naming the directories its clusters hold: only a line with
\* ".." can take away, move or hide a directory the shell is in, for only such a
\* line works above it (user-shell.c:112-118).
GoesUp(l) == Up \in {l.from[k] : k \in DOMAIN l.from} \cup {l.to[k] : k \in DOMAIN l.to}
StackGoesStaleUpwards == [][IsPath(home) /\ ~IsPath(home)' => GoesUp(line)]_all

\* Until the stack is stale, all that the shell has written goes to directories
\* that are linked from the root: what the driver takes for granted of a request.
WritesLiveDirectories ==
    [][Ready(at) /\ pc' \notin {"idle", "off"} /\ IsPath(home) =>
          IF pc' = "move_src" THEN {move'.from, move'.to} \subseteq Directories(table)
          ELSE call'.dir \in Directories(table)]_all

\* The same entries below two directories, whatever their order and clusters.
BlocksOf(e) == LET q == Chain(fat, e.cluster, 0) IN [k \in DOMAIN q |-> BlockAt(q[k])]
SameTree(c, d) ==
    LET Children_(x) == {s \in Slot \ {0} : Used(table[x][s])}
        Alike(e, f) == e.name = f.name /\ e.attribute = f.attribute /\ e.filesize = f.filesize
        Same[x \in Cluster \X Cluster] ==
          /\ Cardinality(Children_(x[1])) = Cardinality(Children_(x[2]))
          /\ \A s \in Children_(x[1]) : \E r \in Children_(x[2]) :
                LET e == table[x[1]][s]
                    f == table[x[2]][r]
                IN  /\ Alike(e, f)
                    /\ e.attribute = "dir" => Same[<<e.cluster, f.cluster>>]
                    /\ e.attribute = "file" => BlocksOf(e) = BlocksOf(f)
    IN  Same[<<c, d>>]

\* A directory that cp copies without any call being refused, to where there is
\* none of its name and from where no two entries share one, has then the same
\* tree of files, of the same content, in both places (user-shell.c:411-467).
TreeCopied ==
    [][at = "copy" /\ at' = "restore" /\ job'.fair =>
          \E c \in FolderAt(job.from, job.item.name), d \in FolderAt(job.to, job.item.name) :
             c # d /\ SameTree(c, d)]_all

\* Every command comes back to the prompt, also when cp copies a directory below
\* itself until no cluster is free (user-shell.c:411-467).
CommandsEnd == at # "prompt" ~> at = "prompt"

\* The root can be listed by its name, and d shows each directory in it once, by
\* a name that nothing else in d has, and in a slot that whereis goes through.
RootListed == ROOT_CLUSTER_NUMBER \in FolderAt(ROOT_CLUSTER_NUMBER, RootName)
Clear(d)   == Distinct(d) /\ (table[d][0].attribute = "dir" => IsSelfEntry(table, d, 0))

\* whereis finds a name in exactly the directories that hold it, as long as no
\* directory holds two entries of a name, its own included, and no write into a
\* full table has put another entry in the place of that one: without it the root
\* is not found, and a directory in its place is not looked at (user-shell.c:268).
WhereIsComplete ==
    at = "prompt" /\ pc = "idle" /\ RootListed /\ (\A d \in Directories(table) : Clear(d)) =>
       \A n \in Names : WhereIs(n) = {d \in Directories(table) : Hits(table[d], n) # {}}
=============================================================================
