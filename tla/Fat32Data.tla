----------------------------- MODULE Fat32Data -----------------------------
(***************************************************************************)
(* What the FAT32 driver works on: directory tables, the file allocation   *)
(* table (FAT) and the searches of src/src/filesystem/fat32.c in them.     *)
(* A name stands for the (name, ext) pair the code compares; a directory's *)
(* has an empty ext.                                                       *)
(***************************************************************************)
EXTENDS Integers, Sequences, FiniteSets

CONSTANTS
    CLUSTER_MAP_SIZE,  \* cells of the file allocation table (512 in the code)
    BlockCells,        \* cells in one block of the disk: the FAT's cluster has
                       \* CLUSTER_MAP_SIZE of them (128 in the code)
    TableSlots,        \* entries of a directory table (64 in the code)
    Names,             \* names a request may carry
    NoName,            \* the all-zero name
    RootName,          \* the name create_fat32 gives the root directory
    Payloads,          \* what a file may hold
    Lengths,           \* lengths of files in clusters: buffer_size/CLUSTER_SIZE
    StrayWords,        \* what a word beyond the end of cluster_map may hold
    Requests,          \* the driver's operations that are called
    PowerFailsIn       \* the activities during which the power may fail

FAT32_FAT_EMPTY_ENTRY == 0
FAT32_FAT_END_OF_FILE == 268435455     \* 0x0FFFFFFF, also CLUSTER_1_VALUE
CLUSTER_0_VALUE       == 268435440     \* 0x0FFFFFF0
ROOT_CLUSTER_NUMBER   == 2

Activities == {"idle", "format", "mkdir", "file", "delete"}

ASSUME SizeAssumption ==
    CLUSTER_MAP_SIZE \in Nat /\ CLUSTER_MAP_SIZE > 3 /\ CLUSTER_MAP_SIZE < CLUSTER_0_VALUE
ASSUME BlockAssumption == BlockCells \in Nat \ {0}
ASSUME SlotsAssumption == TableSlots \in Nat /\ TableSlots > 1
ASSUME NamesAssumption == NoName \notin Names \cup {RootName}
ASSUME LengthsAssumption == Lengths \subseteq Nat \ {0}
ASSUME StrayAssumption ==
    /\ StrayWords \subseteq {FAT32_FAT_EMPTY_ENTRY, CLUSTER_0_VALUE, FAT32_FAT_END_OF_FILE}
    /\ FAT32_FAT_EMPTY_ENTRY \in StrayWords
ASSUME RequestsAssumption == Requests \subseteq {"read_directory", "read", "write", "delete"}
ASSUME PowerAssumption == PowerFailsIn \subseteq Activities

Cell     == 0 .. CLUSTER_MAP_SIZE - 1
Cluster  == ROOT_CLUSTER_NUMBER .. CLUSTER_MAP_SIZE - 1
FatValue == Cell \cup {CLUSTER_0_VALUE, FAT32_FAT_END_OF_FILE}
Slot     == 0 .. TableSlots - 1

FreeEntry == [name |-> NoName, attribute |-> "none", cluster |-> 0, filesize |-> 0]
UsedEntry == [name : Names \cup {RootName}, attribute : {"dir", "file"},
              cluster : Cluster, filesize : Nat]
Table     == [Slot -> UsedEntry \cup {FreeEntry}]
NoBlock   == <<>>
Block     == (Payloads \X Nat) \cup {NoBlock}

EmptyTable == [s \in Slot |-> FreeEntry]
EmptyFat   == [c \in Cell |-> FAT32_FAT_EMPTY_ENTRY]

Used(e) == e.attribute # "none"

\* init_directory_table(dir_table, name, cluster) in a cleared table.
NewTable(n, c) ==
    [EmptyTable EXCEPT ![0] =
        [name |-> n, attribute |-> "dir", cluster |-> c, filesize |-> 0]]

\* Fault: the search stops one entry short of the table's end.
TakesSlotShort(t, s) ==
    \/ ~Used(t[s]) /\ \A r \in Slot : r < s => Used(t[r])
    \/ s = 0 /\ \A r \in 0 .. TableSlots - 2 : Used(t[r])

\* The slot write() takes: the first free one, and slot 0 when none is.
TakesSlot(t, s) ==
    \/ ~Used(t[s]) /\ \A r \in Slot : r < s => Used(t[r])
    \/ s = 0 /\ \A r \in Slot : Used(t[r])

\* The slot read() and delete() settle on: the first match after slot 0.
Matches(t, n) == {s \in Slot \ {0} : t[s].name = n}
FirstMatch(t, n, s) == s \in Matches(t, n) /\ \A r \in Matches(t, n) : s <= r

\* The slot read_directory() settles on; it looks at slot 0 too.
Folders(t, n) == {s \in Slot : t[s].name = n /\ t[s].attribute = "dir"}
FirstFolder(t, n, s) == s \in Folders(t, n) /\ \A r \in Folders(t, n) : s <= r

\* Fault: the test for an empty directory starts one slot late.
VacantLate(t) == \A s \in Slot \ {0, 1} : ~Used(t[s])

\* delete()'s test for an empty directory leaves slot 0 out.
Vacant(t) == \A s \in Slot \ {0} : ~Used(t[s])

\* The n lowest free clusters in ascending order, as write() collects them.
Free(f) == {c \in Cluster : f[c] = FAT32_FAT_EMPTY_ENTRY}
Allocation(f, n) ==
    {q \in [1 .. n -> Free(f)] :
        /\ \A i, j \in 1 .. n : i < j => q[i] < q[j]
        /\ \A c \in Free(f) : c < q[n] => \E i \in 1 .. n : q[i] = c}

\* cluster_map after write() has linked the clusters of q.
Linked(f, q) ==
    [c \in Cell |-> IF \E i \in DOMAIN q : q[i] = c
                    THEN LET i == CHOOSE i \in DOMAIN q : q[i] = c
                         IN  IF i = Len(q) THEN FAT32_FAT_END_OF_FILE ELSE q[i + 1]
                    ELSE f[c]]

\* The FAT on a disk that has g when only the first n blocks of f are written.
FatBlocks == {c \div BlockCells : c \in Cell}
Torn(g, f, n) == [c \in Cell |-> IF c \div BlockCells < n THEN f[c] ELSE g[c]]

\* cluster_map[c]: an index beyond the map reads a stray word of memory.
Lookup(f, c, stray) == IF c \in Cell THEN f[c] ELSE stray

\* The clusters read() goes through from cluster c on; a walk that has gone
\* through more of them than there are indices goes round for ever.
After(f, q, stray) == Lookup(f, q[Len(q)], stray)
Chain(f, c, stray) ==
    LET Walk[q \in Seq(FatValue)] ==
          IF After(f, q, stray) = FAT32_FAT_END_OF_FILE \/ Len(q) > CLUSTER_MAP_SIZE + 2
          THEN q ELSE Walk[Append(q, After(f, q, stray))]
    IN  Walk[<<c>>]
Ends(f, q, stray) == After(f, q, stray) = FAT32_FAT_END_OF_FILE

\* Directory c and those linked from it.
Below(t, c) ==
    LET Found[S \in SUBSET Cluster] ==
          LET more == S \cup {t[x[1]][x[2]].cluster : x \in
                        {y \in S \X Slot : t[y[1]][y[2]].attribute = "dir"}}
          IN  IF more = S THEN S ELSE Found[more]
    IN  Cluster \cap Found[{c}]

\* The directories a process can name: those linked from the root.
Directories(t) == Below(t, ROOT_CLUSTER_NUMBER)
=============================================================================
