--------------------------- MODULE MachineProofs ----------------------------
(***************************************************************************)
(* The machine as a whole: the page frames; the disk and the shell that    *)
(* the inserter and every boot leave, wherever between two disk writes the *)
(* power fails; the shell's directory stack, and what whereis finds.  For  *)
(* every size of the FAT, of the tables and of the shell, and every set of *)
(* lines.                                                                  *)
(***************************************************************************)
EXTENDS Shell, MoveProofs

(***************************************************************************)
(* FramesApart for every number of page-directory entries and of calls.    *)
(***************************************************************************)
\* The user's pages have frames that were handed out, each to one page.
Handed ==
    /\ allocated \in 0 .. Allocations
    /\ allocated < Allocations => next_frame = allocated + 1
    /\ page_directory \in [Page -> [present : BOOLEAN, user : BOOLEAN, frame : Frame]]
    /\ \A p \in Page : page_directory[p].user => page_directory[p].frame \in 1 .. allocated
    /\ FramesApart

\* Before the first call the only frame in use is the kernel's.
LEMMA HandedInit == PagingInit => Handed
<1> SUFFICES ASSUME PagingInit PROVE Handed
  OBVIOUS
<1> USE PageAssumption, AllocationsAssumption DEF PagingInit, StartDirectory, KernelEntry, Absent, Page, Frame
<1>1. allocated \in 0 .. Allocations /\ (allocated < Allocations => next_frame = allocated + 1)
  OBVIOUS
<1>2. page_directory \in [Page -> [present : BOOLEAN, user : BOOLEAN, frame : Frame]]
  OBVIOUS
<1>3. \A p \in Page : ~page_directory[p].user
  OBVIOUS
<1> QED
  BY <1>1, <1>2, <1>3 DEF Handed, FramesApart

\* A call gives the page the first frame that was not handed out.
LEMMA HandedStep ==
    ASSUME Handed, allocated < Allocations,
           NEW p \in Page, allocate_single_user_page_frame(p * PAGE_FRAME_SIZE)
    PROVE  Handed'
<1> DEFINE page == ((p * PAGE_FRAME_SIZE) \div PAGE_FRAME_SIZE) % PAGE_ENTRY_COUNT
<1>1. page \in Page
  BY PageAssumption DEF Page, PAGE_FRAME_SIZE
<1>2. page_directory' = [page_directory EXCEPT ![page] = UserEntry(next_frame)]
  BY DEF allocate_single_user_page_frame
<1> HIDE DEF page
<1>3. /\ allocated' = next_frame /\ next_frame \in 1 .. Allocations
      /\ next_frame \in Frame /\ next_frame \notin 1 .. allocated /\ 1 .. allocated \subseteq 1 .. allocated'
  BY PageAssumption, AllocationsAssumption DEF Handed, allocate_single_user_page_frame, Frame
<1>4. allocated' < Allocations => next_frame' = allocated' + 1
  BY <1>3, PageAssumption, AllocationsAssumption DEF allocate_single_user_page_frame, Handed
<1>5. page_directory' \in [Page -> [present : BOOLEAN, user : BOOLEAN, frame : Frame]]
  BY <1>1, <1>2, <1>3 DEF Handed, UserEntry
<1>6. /\ page_directory'[page].frame = next_frame
      /\ \A q \in Page \ {page} : page_directory'[q] = page_directory[q]
  BY <1>1, <1>2 DEF Handed, UserEntry
<1>7. \A q \in Page : page_directory'[q].user => page_directory'[q].frame \in 1 .. allocated'
  BY <1>3, <1>6 DEF Handed
<1>8. FramesApart'
  <2> SUFFICES ASSUME NEW q \in Page, NEW r \in Page, page_directory'[q].user
               PROVE  /\ page_directory'[q].frame # 0
                      /\ page_directory'[r].user /\ q # r
                            => page_directory'[q].frame # page_directory'[r].frame
    BY DEF FramesApart
  <2>1. page_directory'[q].frame # 0
    BY <1>7, <1>3
  <2>2. CASE q # page /\ r # page
    BY <2>1, <2>2, <1>6 DEF Handed, FramesApart
  <2>3. CASE q = page \/ r = page
    BY <2>1, <2>3, <1>3, <1>6 DEF Handed
  <2> QED
    BY <2>2, <2>3
<1> QED
  BY <1>3, <1>4, <1>5, <1>7, <1>8 DEF Handed

\* Up to one call for each frame but the kernel's, no two of the user's pages
\* share a frame and none has the kernel's (allocate_single_user_page_frame).
THEOREM FramesApartAlways == PagingSpec => []FramesApart
<1>1. Handed /\ [PagingNext]_pageVars => Handed'
  <2> SUFFICES ASSUME Handed, [PagingNext]_pageVars PROVE Handed'
    OBVIOUS
  <2>1. CASE PagingNext
    BY <2>1, HandedStep DEF PagingNext
  <2>2. CASE UNCHANGED pageVars
    BY <2>2 DEF Handed, FramesApart, pageVars
  <2> QED
    BY <2>1, <2>2
<1>2. Handed => FramesApart
  BY DEF Handed
<1> QED
  BY HandedInit, <1>1, <1>2, PTL DEF PagingSpec

(***************************************************************************)
(* The invariant of the boot.                                              *)
(***************************************************************************)
\* What kernel_setup's numbers are chosen for: the shell ends right before them.  It
\* has 11 clusters, then come ikanaide, kano1 and kano2 (kernel.c:70-104).
Fits ==
    /\ KANO2_PARENT \in SHELL_SIZE + 3 .. SHELL_SIZE + 4
    /\ DAIJOUBU_PARENT \in SHELL_SIZE + 3 .. SHELL_SIZE + 5

\* Every cluster up to n is in use.
Full(f, n) == \A c \in Cluster : c <= n => f[c] # FAT32_FAT_EMPTY_ENTRY

\* The FAT of a disk that was just formatted.
FirstFat == [EmptyFat EXCEPT ![0] = CLUSTER_0_VALUE,
                             ![1] = FAT32_FAT_END_OF_FILE,
                             ![ROOT_CLUSTER_NUMBER] = FAT32_FAT_END_OF_FILE]

ShellEntry(e) == e.name = ShellName /\ e.attribute = "file" /\ e.filesize = SHELL_SIZE

\* The shell is the root's first entry, and its first block is its own.
ShellStored ==
    LET e == table[ROOT_CLUSTER_NUMBER][1]
    IN  ShellEntry(e) /\ data[e.cluster] = <<ShellText, 1>>

Inserting ==
    /\ call.op = "file" /\ call.dir = ROOT_CLUSTER_NUMBER /\ call.slot = 1
    /\ ShellEntry(NewEntry) /\ call.payload[1] = ShellText

\* The inserter formats the image and writes the shell to the first clusters.
OnHost ==
    who = "host" =>
       /\ setup \in {0, 1}
       /\ setup = 0 =>
             /\ pc \in {"off", "format_fat", "format_root", "idle"}
             /\ pc = "off" => ~signature /\ fat = EmptyFat
             /\ pc # "off" => fat = FirstFat
             /\ pc = "idle" => table[ROOT_CLUSTER_NUMBER] = NewTable(RootName, ROOT_CLUSTER_NUMBER)
       /\ setup = 1 =>
             /\ pc \in {"content", "flush_fat", "flush_parent", "idle"}
             /\ Full(fat, SHELL_SIZE + 2)
             /\ IF pc = "idle" THEN ShellStored ELSE Inserting

\* On the machine the shell stays, and each directory that kernel_setup makes takes
\* the lowest free cluster: those that it names later are in use by then.
OnMachine ==
    who # "host" =>
       /\ signature /\ pc \notin {"format_fat", "format_root"}
       /\ ShellStored
       /\ Full(diskFat, SHELL_SIZE + 2)
       /\ pc = "off" => setup = 0
       /\ pc # "off" => Full(fat, SHELL_SIZE + 2)
       /\ setup >= 3 => Full(fat, SHELL_SIZE + 3)
       /\ setup >= 4 => Full(fat, SHELL_SIZE + 4)
       /\ setup >= 5 => Full(fat, SHELL_SIZE + 5)

\* Cluster c is in no file, nor in the one that is being written.
FreeOfFiles(c) ==
    /\ OffFiles(c)
    /\ call.op = "file" => \A k \in DOMAIN call.chain : call.chain[k] # c

\* The user's page 0 is mapped to a frame of its own before anything is read to it.
Mapped ==
    IF who = "shell" \/ (who = "kernel" /\ setup > 0)
    THEN page_directory = [StartDirectory EXCEPT ![0] = UserEntry(1)]
    ELSE page_directory = StartDirectory /\ next_frame = 1

ShellRead ==
    who = "shell" =>
       \A k \in 1 .. SHELL_SIZE : k \in DOMAIN loaded /\ loaded[k] = <<ShellText, k>>

BootInv ==
    /\ TreeInv
    /\ call.op # "delete"
    /\ who \in {"host", "kernel", "shell"} /\ setup \in 0 .. 6
    /\ OnHost
    /\ OnMachine
    /\ FreeOfFiles(KANO2_PARENT) /\ FreeOfFiles(DAIJOUBU_PARENT)
    /\ Mapped
    /\ ShellRead

\* The clusters and the names of the boot.
LEMMA BootConstants ==
    ASSUME Fits
    PROVE  /\ SHELL_SIZE \in Nat \ {0} /\ SHELL_SIZE \in Lengths /\ SHELL_SIZE + 3 < CLUSTER_MAP_SIZE
           /\ DAIJOUBU_SIZE \in Nat \ {0} /\ DAIJOUBU_SIZE \in Lengths
           /\ ShellName \in Names /\ ShellName # NoName
           /\ {Ikanaide, Kano1, Kano2, Daijoubu} \subseteq Names
           /\ {ShellText, DaijoubuText} \subseteq Payloads
           /\ SHELL_BUFFER \in Nat /\ SHELL_SIZE <= SHELL_BUFFER
           /\ KANO2_PARENT \in Cluster /\ KANO2_PARENT > SHELL_SIZE + 2 /\ KANO2_PARENT <= SHELL_SIZE + 4
           /\ DAIJOUBU_PARENT \in Cluster /\ DAIJOUBU_PARENT > SHELL_SIZE + 2
           /\ DAIJOUBU_PARENT <= SHELL_SIZE + 5
<1>1. SHELL_SIZE \in Nat \ {0} /\ DAIJOUBU_SIZE \in Nat \ {0}
  BY FilesAssumption, LengthsAssumption
<1>2. ShellName \in Names /\ ShellName # NoName
  BY BootNamesAssumption, NamesAssumption
<1>3. KANO2_PARENT \in Cluster /\ DAIJOUBU_PARENT \in Cluster
  BY ParentsAssumption
<1>4. KANO2_PARENT \in Int /\ DAIJOUBU_PARENT \in Int /\ KANO2_PARENT < CLUSTER_MAP_SIZE
  BY <1>3, SizeAssumption DEF Cluster, ROOT_CLUSTER_NUMBER
<1>5. SHELL_SIZE + 3 < CLUSTER_MAP_SIZE
  BY <1>1, <1>4, SizeAssumption DEF Fits
<1>6. /\ KANO2_PARENT > SHELL_SIZE + 2 /\ KANO2_PARENT <= SHELL_SIZE + 4
      /\ DAIJOUBU_PARENT > SHELL_SIZE + 2 /\ DAIJOUBU_PARENT <= SHELL_SIZE + 5
  BY <1>1, <1>4 DEF Fits
<1>7. QED
  BY <1>1, <1>2, <1>3, <1>5, <1>6, FilesAssumption, BootNamesAssumption

(***************************************************************************)
(* What the driver takes for the boot's calls.                             *)
(***************************************************************************)

\* One more cluster is in use after the lowest free one was taken.
LEMMA LowestTaken ==
    ASSUME NEW f \in [Cell -> FatValue], NEW n \in Nat, Full(f, n), NEW q \in Allocation(f, 1)
    PROVE  Full([f EXCEPT ![q[1]] = FAT32_FAT_END_OF_FILE], n + 1)
<1> DEFINE g == [f EXCEPT ![q[1]] = FAT32_FAT_END_OF_FILE]
<1> SUFFICES ASSUME NEW c \in Cluster, c <= n + 1 PROVE g[c] # FAT32_FAT_EMPTY_ENTRY
  BY DEF Full
<1>1. q[1] \in Free(f) /\ \A x \in Free(f) : ~(x < q[1])
  <2>1. q \in [1 .. 1 -> Free(f)] /\ 1 \in 1 .. 1
    BY DEF Allocation
  <2>2. q[1] \in Free(f) /\ q[1] \in Int
    BY <2>1, SizeAssumption DEF Free, Cluster, ROOT_CLUSTER_NUMBER
  <2>3. ASSUME NEW x \in Free(f), x < q[1]
        PROVE  FALSE
    <3>1. PICK i \in 1 .. 1 : q[i] = x
      BY <2>3 DEF Allocation
    <3>2. i = 1
      OBVIOUS
    <3>3. QED
      BY <2>2, <2>3, <3>1, <3>2
  <2>4. QED
    BY <2>2, <2>3
<1>2. c \in Cell /\ q[1] \in Cluster /\ c \in Int /\ q[1] \in Int
  BY <1>1, Ranges, SizeAssumption DEF Free, Cluster, ROOT_CLUSTER_NUMBER
<1>3. CASE c = q[1]
  BY <1>2, <1>3 DEF FAT32_FAT_END_OF_FILE, FAT32_FAT_EMPTY_ENTRY
<1>4. CASE c # q[1]
  <2>1. g[c] = f[c]
    BY <1>2, <1>4
  <2>2. ASSUME f[c] = FAT32_FAT_EMPTY_ENTRY
        PROVE  FALSE
    <3>1. c \in Free(f)
      BY <2>2 DEF Free
    <3>2. q[1] < c
      BY <1>1, <1>2, <1>4, <3>1
    <3>3. q[1] <= n
      BY <1>2, <3>2
    <3>4. QED
      BY <1>1, <1>2, <3>3 DEF Free, Full
  <2>3. QED
    BY <2>1, <2>2
<1>5. QED
  BY <1>3, <1>4

\* So it is after a mkdir, whatever it answers.
LEMMA DirectoryFills ==
    ASSUME FreshInv, NEW n \in Nat, Full(fat, n), NEW d, NEW name, MakeDirectory(d, name)
    PROVE  Full(fat', n + 1)
<1>1. fat \in [Cell -> FatValue]
  BY TreeTypes
<1>2. CASE Free(fat) = {} /\ Reply(Answer(1))
  BY <1>2 DEF Free, Full, Reply
<1>3. CASE \E q \in Allocation(fat, 1) : fat' = [fat EXCEPT ![q[1]] = FAT32_FAT_END_OF_FILE]
  BY <1>1, <1>3, LowestTaken
<1>4. QED
  BY <1>2, <1>3 DEF MakeDirectory

\* What is in use stays so when a chain of free clusters is linked.
LEMMA LinkedFull ==
    ASSUME NEW f \in [Cell -> FatValue], NEW n, Full(f, n),
           NEW k \in Nat \ {0}, NEW q \in Allocation(f, k)
    PROVE  Full(Linked(f, q), n)
<1> SUFFICES ASSUME NEW c \in Cluster, c <= n PROVE Linked(f, q)[c] # FAT32_FAT_EMPTY_ENTRY
  BY DEF Full
<1>1. IsChain(Linked(f, q), q) /\ \A x \in Cell : (\A i \in DOMAIN q : q[i] # x) => Linked(f, q)[x] = f[x]
  BY LinkedChain
<1>2. CASE \E i \in DOMAIN q : q[i] = c
  BY <1>1, <1>2, ChainCells
<1>3. CASE \A i \in DOMAIN q : q[i] # c
  BY <1>1, <1>3, Ranges DEF Full
<1>4. QED
  BY <1>2, <1>3

\* A disk that was just formatted has the root's cluster in use, and no other.
LEMMA FirstFree ==
    /\ FirstFat \in [Cell -> FatValue]
    /\ FirstFat[2] = FAT32_FAT_END_OF_FILE /\ 2 \in Cell /\ 2 \in Cluster
    /\ Free(FirstFat) = 3 .. CLUSTER_MAP_SIZE - 1
<1>1. /\ FirstFat \in [Cell -> FatValue]
      /\ \A c \in Cluster : c # 2 => FirstFat[c] = FAT32_FAT_EMPTY_ENTRY
      /\ FirstFat[2] = FAT32_FAT_END_OF_FILE /\ 2 \in Cell /\ 2 \in Cluster
  <2>1. {0, 1, 2} \subseteq Cell /\ EmptyFat \in [Cell -> FatValue] /\ Cluster \subseteq Cell /\ 2 \in Cluster
    BY Ranges, EmptyTypes DEF ROOT_CLUSTER_NUMBER
  <2>2. \A c \in Cluster : c # 0 /\ c # 1
    BY SizeAssumption DEF Cluster, ROOT_CLUSTER_NUMBER
  <2>3. CLUSTER_0_VALUE \in FatValue /\ FAT32_FAT_END_OF_FILE \in FatValue
    BY DEF FatValue
  <2>4. FirstFat \in [Cell -> FatValue]
    BY <2>1, <2>3 DEF FirstFat, ROOT_CLUSTER_NUMBER
  <2>5. QED
    BY <2>1, <2>2, <2>4 DEF FirstFat, EmptyFat, ROOT_CLUSTER_NUMBER
<1>2. /\ Free(FirstFat) = 3 .. CLUSTER_MAP_SIZE - 1
  <2>1. FirstFat[2] # FAT32_FAT_EMPTY_ENTRY
    BY <1>1 DEF FAT32_FAT_END_OF_FILE, FAT32_FAT_EMPTY_ENTRY
  <2>2. QED
    BY <1>1, <2>1, SizeAssumption DEF Free, Cluster, ROOT_CLUSTER_NUMBER
<1>3. QED
  BY <1>1, <1>2

\* On a disk that was just formatted a file gets the clusters from 3 on.
LEMMA FirstChain ==
    ASSUME NEW n \in Nat \ {0}, n + 2 < CLUSTER_MAP_SIZE, NEW q \in Allocation(FirstFat, n)
    PROVE  /\ \A i \in 1 .. n : q[i] = i + 2
           /\ Full(Linked(FirstFat, q), n + 2)
<1>1. /\ FirstFat \in [Cell -> FatValue]
      /\ FirstFat[2] = FAT32_FAT_END_OF_FILE /\ 2 \in Cell /\ 2 \in Cluster
  BY FirstFree
<1>2. Free(FirstFat) = 3 .. CLUSTER_MAP_SIZE - 1
  BY FirstFree
<1>3. /\ q \in [1 .. n -> 3 .. CLUSTER_MAP_SIZE - 1]
      /\ \A i, j \in 1 .. n : i < j => q[i] < q[j]
      /\ \A c \in 3 .. CLUSTER_MAP_SIZE - 1 : c < q[n] => \E i \in 1 .. n : q[i] = c
  BY <1>2 DEF Allocation
<1> DEFINE T == {k \in Nat : \A i \in 1 .. n : i <= k => q[i] = i + 2}
<1>4. 0 \in T
  OBVIOUS
<1>5. ASSUME NEW k \in Nat, k \in T
      PROVE  k + 1 \in T
  <2> SUFFICES ASSUME k + 1 \in 1 .. n PROVE q[k + 1] = k + 3
    BY <1>5
  <2> DEFINE m == k + 1
             c == k + 3
  <2>1. /\ m \in 1 .. n /\ c \in 3 .. CLUSTER_MAP_SIZE - 1 /\ q[m] \in 3 .. CLUSTER_MAP_SIZE - 1
        /\ \A i \in 1 .. n : i < m => q[i] = i + 2
    BY <1>3, <1>5, SizeAssumption
  <2>2. q[m] >= c
    <3>1. CASE k = 0
      BY <2>1, <3>1
    <3>2. CASE k # 0
      <4>1. k \in 1 .. n /\ k < m
        BY <2>1, <3>2
      <4>2. q[k] = k + 2 /\ q[k] < q[m]
        BY <4>1, <2>1, <1>3
      <4>3. QED
        BY <4>2, <2>1
    <3>3. QED
      BY <3>1, <3>2
  <2>3. ASSUME q[m] > c
        PROVE  FALSE
    <3>1. n \in 1 .. n /\ q[n] \in 3 .. CLUSTER_MAP_SIZE - 1
      BY <1>3
    <3>2. q[m] <= q[n]
      <4>1. CASE m = n
        BY <4>1, <3>1
      <4>2. CASE m # n
        BY <4>2, <2>1, <3>1, <1>3
      <4>3. QED
        BY <4>1, <4>2
    <3>3. c < q[n]
      BY <2>1, <2>3, <3>1, <3>2
    <3>4. PICK i \in 1 .. n : q[i] = c
      BY <1>3, <2>1, <3>3
    <3>5. CASE i < m
      BY <3>4, <3>5, <2>1
    <3>6. CASE i = m
      BY <3>4, <3>6, <2>1, <2>3
    <3>7. CASE i > m
      <4>1. q[m] < q[i]
        BY <3>7, <2>1, <1>3
      <4>2. QED
        BY <4>1, <3>4, <2>1, <2>3
    <3>8. QED
      BY <2>1, <3>5, <3>6, <3>7
  <2>4. QED
    BY <2>1, <2>2, <2>3
<1> HIDE DEF T
<1>6. Nat \subseteq T
  BY <1>4, <1>5, InductiveSet
<1>7. \A i \in 1 .. n : q[i] = i + 2
  <2>1. n \in T
    BY <1>6
  <2>2. QED
    BY <2>1 DEF T
<1>8. Full(Linked(FirstFat, q), n + 2)
  <2> SUFFICES ASSUME NEW c \in Cluster, c <= n + 2
               PROVE  Linked(FirstFat, q)[c] # FAT32_FAT_EMPTY_ENTRY
    BY DEF Full
  <2>1. IsChain(Linked(FirstFat, q), q) /\ DOMAIN q = 1 .. n
        /\ \A x \in Cell : (\A i \in DOMAIN q : q[i] # x) => Linked(FirstFat, q)[x] = FirstFat[x]
    BY <1>1, <1>3, LinkedChain
  <2>2. CASE c = 2
    <3>1. Linked(FirstFat, q)[2] = FirstFat[2]
      BY <1>1, <1>7, <2>1
    <3>2. QED
      BY <1>1, <2>2, <3>1 DEF FAT32_FAT_END_OF_FILE, FAT32_FAT_EMPTY_ENTRY
  <2>3. CASE c # 2
    <3>1. c \in Int /\ c >= 2
      BY SizeAssumption DEF Cluster, ROOT_CLUSTER_NUMBER
    <3>2. c - 2 \in 1 .. n
      BY <2>3, <3>1
    <3>3. q[c - 2] = c
      BY <1>7, <3>1, <3>2
    <3>4. QED
      BY <2>1, <3>2, <3>3, ChainCells
  <2>4. QED
    BY <2>2, <2>3
<1>9. QED
  BY <1>7, <1>8

(***************************************************************************)
(* What the driver's steps keep of what the boot needs.                    *)
(***************************************************************************)

\* A step that leaves the tree as it is leaves the files where they are.
LEMMA OffFilesKept ==
    ASSUME FreshInv, FreshInv', Tree(diskFat, Shown, data), Unmoved, NEW c, OffFiles(c)
    PROVE  OffFiles(c)'
<1>1. diskFat \in [Cell -> FatValue] /\ diskFat' \in [Cell -> FatValue]
  BY DEF FreshInv, SavedInv, TypeInv, TypeOK
<1>2. AllStay(diskFat, Shown, data, diskFat', Shown', data')
  BY DEF Unmoved
<1>3. \A o \in Owners(Shown') : ItsChain(diskFat', Shown', o) = ItsChain(diskFat, Shown, o)
  BY <1>1, <1>2, TreeKept
<1>4. \A o \in Owners(Shown') : o \in Owners(Shown) /\ ItsEntry(Shown', o) = ItsEntry(Shown, o)
  BY <1>2 DEF AllStay, Stays
<1>5. QED
  BY <1>3, <1>4 DEF OffFiles

\* The shell's entry is an owner, and its first cluster is the chain's first.
LEMMA ShellOwned ==
    ASSUME ShellStored, Tree(diskFat, table, data), table \in [Cluster -> Table],
           NEW o, o = <<ROOT_CLUSTER_NUMBER, 1>>
    PROVE  /\ o \in Owners(table) /\ ItsEntry(table, o) = table[ROOT_CLUSTER_NUMBER][1]
           /\ 1 \in DOMAIN ItsChain(diskFat, table, o)
           /\ ItsChain(diskFat, table, o)[1] = table[ROOT_CLUSTER_NUMBER][1].cluster
           /\ IsChain(diskFat, ItsChain(diskFat, table, o))
<1>1. ItsEntry(table, o) = table[ROOT_CLUSTER_NUMBER][1]
  BY DEF ItsEntry
<1>2. o \in Directories(table) \X Slot
  BY DirectoriesAre, SlotsAssumption DEF Slot
<1>3. o \in Owners(table)
  BY <1>1, <1>2, OwnerIs DEF ShellStored, ShellEntry, Used, IsSelfEntry
<1>4. IsChain(diskFat, ItsChain(diskFat, table, o)) /\ ItsChain(diskFat, table, o)[1] = ItsEntry(table, o).cluster
  BY <1>3 DEF Tree, HasChain
<1>5. QED
  BY <1>1, <1>3, <1>4, ChainCells

\* The shell stays where a step leaves the tree as it is.
LEMMA ShellKept ==
    ASSUME FreshInv, FreshInv', Tree(diskFat, Shown, data), Unmoved, ShellStored,
           Shown = table, Shown' = table'
    PROVE  ShellStored'
<1> DEFINE o == <<ROOT_CLUSTER_NUMBER, 1>>
           q == ItsChain(diskFat, table, o)
           e == table[ROOT_CLUSTER_NUMBER][1]
<1>1. table \in [Cluster -> Table] /\ table' \in [Cluster -> Table]
  BY DEF FreshInv, SavedInv, TypeInv, TypeOK
<1>2. o \in Owners(table) /\ ItsEntry(table, o) = e /\ 1 \in DOMAIN q /\ q[1] = e.cluster
  BY <1>1, ShellOwned
<1>3. table'[ROOT_CLUSTER_NUMBER][1] = e
  BY <1>1, DirectoriesAre DEF Unmoved
<1>4. Owners(table') = Owners(table)
  BY <1>1, OwnersAgree DEF Unmoved
<1>5. Stays(diskFat, table, data, diskFat', table', data', o)
  BY <1>2, <1>4 DEF Unmoved, AllStay
<1> HIDE DEF q, o
<1>6. data'[q[1]] = data[q[1]]
  BY <1>2, <1>5 DEF Stays, q, ShellStored, ShellEntry
<1> HIDE DEF e
<1>7. QED
  BY <1>2, <1>3, <1>6 DEF ShellStored, e

\* It stays when another entry is committed: its slot is taken.
LEMMA ShellCommitted ==
    ASSUME TreeInv, FlushParent, call.op \in {"mkdir", "file"}, ShellStored
    PROVE  ShellStored'
<1> DEFINE o == <<ROOT_CLUSTER_NUMBER, 1>>
           x == <<call.dir, call.slot>>
           q == ItsChain(diskFat, table, o)
           e == table[ROOT_CLUSTER_NUMBER][1]
<1>1. /\ call.dir \in Cluster /\ call.slot \in Slot /\ NewEntry \in UsedEntry
      /\ table' = Put(table, call.dir, call.slot, NewEntry)
      /\ table' \in [Cluster -> Table]
      /\ \A y \in Owners(table') \ {x} :
            Stays(diskFat, table, data, diskFat, table', data', y)
  BY Committed
<1>2. /\ Prepared /\ Tree(diskFat, table, data) /\ table \in [Cluster -> Table]
  BY Writing, TreeTypes DEF TreeInv
<1>3. o \in Owners(table) /\ ItsEntry(table, o) = e /\ 1 \in DOMAIN q /\ q[1] = e.cluster
  BY <1>2, ShellOwned
<1>4. o # x
  <2> SUFFICES ASSUME call.dir = ROOT_CLUSTER_NUMBER, call.slot = 1 PROVE FALSE
    OBVIOUS
  <2>1. Used(table[ROOT_CLUSTER_NUMBER][1])
    BY DEF ShellStored, ShellEntry, Used
  <2>2. QED
    BY <1>2, <2>1 DEF Prepared, TakesSlot
<1>5. table'[ROOT_CLUSTER_NUMBER][1] = e
  <2>1. ROOT_CLUSTER_NUMBER \in Cluster /\ 1 \in Slot
    BY Ranges, SlotsAssumption DEF Slot
  <2>2. call.dir # ROOT_CLUSTER_NUMBER \/ call.slot # 1
    BY <1>4
  <2>3. QED
    BY <1>1, <1>2, <2>1, <2>2 DEF Put, Table
<1>6. o \in Owners(table')
  <2>1. o \in Directories(table') \X Slot /\ ItsEntry(table', o) = e
    BY <1>1, <1>5, DirectoriesAre, SlotsAssumption DEF Slot, ItsEntry
  <2>2. Used(e) /\ ~IsSelfEntry(table', ROOT_CLUSTER_NUMBER, 1)
    BY DEF ShellStored, ShellEntry, Used, IsSelfEntry
  <2>3. QED
    BY <2>1, <2>2, OwnerIs
<1>7. Stays(diskFat, table, data, diskFat, table', data', o)
  BY <1>1, <1>4, <1>6
<1> HIDE DEF q, o, x
<1>8. data'[q[1]] = data[q[1]]
  BY <1>3, <1>7 DEF Stays, q, ShellStored, ShellEntry
<1> HIDE DEF e
<1>9. QED
  BY <1>3, <1>5, <1>8 DEF ShellStored, e

\* The inserter's call stores it.
LEMMA ShellInserted ==
    ASSUME TreeInv, FlushParent, Inserting
    PROVE  ShellStored'
<1> DEFINE c == call.chain[1]
<1>1. call.op \in {"mkdir", "file"} /\ call.op = "file"
  BY DEF Inserting
<1>2. /\ table' = Put(table, ROOT_CLUSTER_NUMBER, 1, NewEntry)
      /\ IsChain(diskFat, call.chain)
  BY <1>1, Committed DEF Inserting
<1>3. Prepared /\ MakingFile /\ table \in [Cluster -> Table] /\ data \in [Cluster -> Block]
  BY <1>1, Writing, TreeTypes DEF TreeInv
<1>4. table'[ROOT_CLUSTER_NUMBER][1] = NewEntry
  <2>1. ROOT_CLUSTER_NUMBER \in Cluster /\ 1 \in Slot
    BY Ranges, SlotsAssumption DEF Slot
  <2>2. QED
    BY <1>2, <1>3, <2>1 DEF Put, Table
<1>5. 1 \in DOMAIN call.chain /\ c \in Cluster /\ c # call.dir /\ NewEntry.cluster = c
  BY <1>2, <1>3, ChainCells DEF Prepared
<1>6. pc = "flush_parent" /\ data' = [data EXCEPT ![call.dir] = NoBlock]
  BY DEF FlushParent, PutTable
<1>7. data[c] = <<ShellText, 1>>
  BY <1>1, <1>3, <1>5, <1>6 DEF MakingFile, Inserting
<1>8. data'[c] = <<ShellText, 1>>
  BY <1>3, <1>5, <1>6, <1>7
<1> HIDE DEF c
<1>9. QED
  BY <1>4, <1>5, <1>8 DEF ShellStored, Inserting

\* After the commit the new file is where its chain was.
LEMMA OffFilesCommitted ==
    ASSUME TreeInv, FlushParent, call.op \in {"mkdir", "file"}, NEW c, FreeOfFiles(c)
    PROVE  OffFiles(c)'
<1> DEFINE x == <<call.dir, call.slot>>
<1>1. /\ Shown = table /\ Shown' = table'
      /\ \A o \in Owners(table') \ {x} :
            Stays(diskFat, table, data, diskFat, table', data', o)
      /\ ItsEntry(table', x) = NewEntry /\ ItsChain(diskFat, table', x) = call.chain
  BY Committed
<1>2. diskFat' = diskFat /\ diskFat \in [Cell -> FatValue] /\ Tree(diskFat, table, data)
  BY TreeTypes, Writing DEF FlushParent, TreeInv
<1> HIDE DEF x
<1>3. SUFFICES ASSUME NEW o \in Owners(table'), ItsEntry(table', o).attribute = "file"
               PROVE  Apart(<<c>>, ItsChain(diskFat, table', o))
  BY <1>1, <1>2 DEF OffFiles
<1>4. CASE o = x
  <2>1. call.op = "file"
    BY <1>1, <1>3, <1>4, Writing
  <2>2. \A k \in DOMAIN call.chain : call.chain[k] # c
    BY <2>1 DEF FreeOfFiles
  <2>3. \A i \in DOMAIN <<c>> : <<c>>[i] = c
    OBVIOUS
  <2>4. QED
    BY <1>1, <1>4, <2>2, <2>3 DEF Apart
<1>5. CASE o # x
  <2>1. Stays(diskFat, table, data, diskFat, table', data', o)
    BY <1>1, <1>5
  <2>2. HasChain(diskFat, table, o)
    BY <1>2, <2>1 DEF Tree, Stays
  <2>3. ItsChain(diskFat, table', o) = ItsChain(diskFat, table, o)
    BY <1>2, <2>1, <2>2, ChainKept DEF Stays
  <2>4. QED
    BY <1>1, <1>3, <2>1, <2>3 DEF FreeOfFiles, OffFiles, Stays
<1>6. QED
  BY <1>4, <1>5

\* The driver's next disk write, when it serves a write.
LEMMA DiskWrite ==
    ASSUME TreeInv, call.op # "delete", Step, pc \notin {"format_fat", "format_root"}
    PROVE  /\ call.op \in {"mkdir", "file"} /\ Shown = table /\ Shown' = table'
           /\ fat' = fat /\ signature' = signature /\ (diskFat' = diskFat \/ diskFat' = fat)
           /\ pc \notin {"off", "idle", "lost"}
           /\ \/ FlushParent /\ pc' = "idle" /\ call'.op = "none"
              \/ /\ Unmoved /\ pc' \in {"content", "flush_fat", "flush_parent"}
                 /\ call'.op = call.op /\ call'.dir = call.dir /\ call'.slot = call.slot
                 /\ call'.parent = call.parent /\ call'.chain = call.chain
                 /\ call.op = "file" => call'.payload[1] = call.payload[1]
<1>1. ~FormatFat /\ ~FormatRoot
  BY DEF FormatFat, FormatRoot
<1>2. ~EraseDirectory /\ ~EraseCluster /\ ~EraseLast
  BY Erasing DEF EraseDirectory, EraseCluster, EraseLast
<1>3. WriteNewTable \/ WriteContent \/ FlushFat \/ FlushParent
  BY <1>1, <1>2 DEF Step
<1>4. pc \in {"new_table", "content", "flush_fat", "flush_parent"}
  BY <1>3 DEF WriteNewTable, WriteContent, FlushFat, FlushParent
<1>5. call.op \in {"mkdir", "file"} /\ call \in Calls
  BY <1>4, TreeTypes DEF TreeInv, Waiting, Calls
<1>6. Shown = table
  BY <1>5 DEF Shown
<1>7. FreshInv'
  <2>1. Next
    BY DEF Next
  <2>2. QED
    BY <2>1, FreshNext DEF TreeInv
<1>8. CASE FlushParent
  BY <1>5, <1>6, <1>8 DEF FlushParent, Return, NoCall, Shown
<1>9. CASE WriteNewTable \/ WriteContent \/ FlushFat
  <2>1. Unmoved
    BY <1>7, <1>9, TreeNewTable, TreeContent, TreeFlushFat
  <2>2. call' = call \/ (WriteContent /\ call' = [call EXCEPT !.payload[2] = call.payload[2] + 1])
    BY <1>9 DEF WriteNewTable, WriteContent, FlushFat
  <2>3. /\ call'.op = call.op /\ call'.dir = call.dir /\ call'.slot = call.slot
        /\ call'.parent = call.parent /\ call'.chain = call.chain
    BY <1>5, <2>2 DEF Calls
  <2>4. call.op = "file" => call'.payload[1] = call.payload[1]
    <3>1. call.op = "file" => call.payload \in Payloads \X Nat
      BY DEF TreeInv, MakingFile
    <3>2. QED
      BY <1>5, <2>2, <3>1 DEF Calls
  <2>5. /\ fat' = fat /\ signature' = signature /\ (diskFat' = diskFat \/ diskFat' = fat)
        /\ pc' \in {"content", "flush_fat", "flush_parent"}
    BY <1>9 DEF WriteNewTable, WriteContent, FlushFat
  <2>6. Shown' = table'
    BY <1>5, <2>3 DEF Shown
  <2>7. QED
    BY <1>4, <1>5, <1>6, <2>1, <2>3, <2>4, <2>5, <2>6
<1>10. QED
  BY <1>3, <1>8, <1>9

\* A step that leaves the disk alone leaves the tree.
LEMMA Quiet ==
    ASSUME call.op # "delete", call'.op # "delete", UNCHANGED disk
    PROVE  /\ Shown = table /\ Shown' = table'
           /\ \A c : OffFiles(c) => OffFiles(c)'
           /\ ShellStored => ShellStored'
<1>1. Shown = table /\ Shown' = table' /\ table' = table /\ diskFat' = diskFat /\ data' = data
  BY DEF Shown, disk
<1>2. QED
  BY <1>1 DEF OffFiles, ShellStored, ShellEntry

\* More is in use than needs to be.
LEMMA FullDown ==
    ASSUME NEW f, NEW n \in Nat, NEW m \in Nat, m <= n, Full(f, n)
    PROVE  Full(f, m)
<1>1. \A c \in Cluster : c \in Int
  BY SizeAssumption DEF Cluster, ROOT_CLUSTER_NUMBER
<1>2. QED
  BY <1>1 DEF Full

\* The machine has nothing in memory when it starts.
LEMMA BootInitInv == BootInit /\ Fits => BootInv
<1> SUFFICES ASSUME BootInit, Fits PROVE BootInv
  OBVIOUS
<1>1. TreeInv /\ call = NoCall
  BY TreeInit DEF BootInit, Init
<1>2. call.op = "none" /\ Shown = table
  BY <1>1 DEF NoCall, Shown
<1>3. Owners(table) = {}
  <2>1. table \in [Cluster -> Table]
    BY <1>1, TreeTypes DEF TreeInv
  <2>2. \A c \in Cluster, s \in Slot : ~Used(table[c][s])
    BY DEF BootInit, Init, EmptyTable, FreeEntry, Used
  <2>3. QED
    BY <2>1, <2>2, EmptyTree
<1>4. FreeOfFiles(KANO2_PARENT) /\ FreeOfFiles(DAIJOUBU_PARENT)
  BY <1>2, <1>3 DEF FreeOfFiles, OffFiles
<1>5. OnHost
  BY DEF OnHost, BootInit, Init
<1>6. Mapped
  BY DEF Mapped, BootInit, PagingInit
<1>7. QED
  BY <1>1, <1>2, <1>4, <1>5, <1>6 DEF BootInv, OnMachine, ShellRead, BootInit

\* The driver starts: on the empty image it signs it, on the machine it loads the FAT.
LEMMA BootStart == BootInv /\ Benign /\ Start => BootInv'
<1> SUFFICES ASSUME BootInv, Benign, Start PROVE BootInv'
  OBVIOUS
<1>1. TreeInv' /\ pc = "off" /\ call.op = "none" /\ call' = call
  <2>1. Next /\ pc = "off"
    BY DEF Start, Next, MountSigned, SignDisk
  <2>2. TreeInv'
    BY <2>1, TreeNext DEF BootInv
  <2>3. call.op = "none"
    BY <2>1, WhenIdle DEF BootInv
  <2>4. QED
    BY <2>1, <2>2, <2>3 DEF Start, MountSigned, SignDisk
<1>2. UNCHANGED <<pageVars, bootVars>>
  BY DEF Start
<1>3. FreeOfFiles(KANO2_PARENT)' /\ FreeOfFiles(DAIJOUBU_PARENT)'
  <2>1. table' = table /\ diskFat' = diskFat /\ Shown = table /\ Shown' = table'
    BY <1>1 DEF Start, MountSigned, SignDisk, disk, Shown
  <2>2. QED
    BY <1>1, <2>1 DEF FreeOfFiles, OffFiles, BootInv
<1>4. CASE who = "host"
  <2>1. setup = 0 /\ ~signature /\ fat = EmptyFat
    BY <1>1, <1>4 DEF BootInv, OnHost
  <2>2. fat' = FirstFat /\ pc' = "format_fat"
    BY <2>1 DEF Start, MountSigned, SignDisk, FirstFat
  <2>3. OnHost'
    BY <1>2, <1>4, <2>1, <2>2 DEF OnHost, bootVars
  <2>4. QED
    BY <1>1, <1>2, <1>3, <1>4, <2>3
       DEF BootInv, OnMachine, Mapped, ShellRead, pageVars, bootVars
<1>5. CASE who # "host"
  <2>1. signature /\ setup = 0 /\ ShellStored /\ Full(diskFat, SHELL_SIZE + 2)
    BY <1>1, <1>5 DEF BootInv, OnMachine
  <2>2. UNCHANGED disk /\ fat' = diskFat /\ pc' = "idle"
    BY <2>1 DEF Start, MountSigned, SignDisk
  <2>3. ShellStored' /\ signature' /\ diskFat' = diskFat
    BY <1>1, <2>1, <2>2, Quiet DEF disk
  <2>4. OnMachine'
    BY <1>2, <2>1, <2>2, <2>3 DEF OnMachine, Full, bootVars
  <2>5. QED
    BY <1>1, <1>2, <1>3, <1>5, <2>4
       DEF BootInv, OnHost, Mapped, ShellRead, pageVars, bootVars
<1>6. QED
  BY <1>4, <1>5

\* The format is the inserter's, and leaves a tree of the root alone.
LEMMA BootFormat == BootInv /\ Benign /\ Serve /\ (FormatFat \/ FormatRoot) => BootInv'
<1> SUFFICES ASSUME BootInv, Benign, Serve, FormatFat \/ FormatRoot PROVE BootInv'
  OBVIOUS
<1>1. TreeInv' /\ pc \in {"format_fat", "format_root"} /\ call.op = "none" /\ call' = call
  <2>1. Next /\ pc \in {"format_fat", "format_root"}
    BY DEF Step, Next, FormatFat, FormatRoot
  <2>2. TreeInv'
    BY <2>1, TreeNext DEF BootInv
  <2>3. call.op = "none"
    BY <2>1, WhenIdle DEF BootInv
  <2>4. QED
    BY <2>1, <2>2, <2>3 DEF FormatFat, FormatRoot
<1>2. UNCHANGED <<pageVars, bootVars>>
  BY DEF Serve
<1>3. who = "host" /\ setup = 0 /\ fat = FirstFat
  BY <1>1 DEF BootInv, OnMachine, OnHost
<1>4. /\ fat' = FirstFat /\ pc' \in {"format_root", "idle"}
      /\ pc' = "idle" => FormatRoot
  BY <1>3 DEF FormatFat, FormatRoot
<1>5. \A c \in Cluster, s \in Slot : Used(table'[c][s]) => IsSelfEntry(table', c, s)
  <2>1. table = [c \in Cluster |-> EmptyTable]
    BY <1>1 DEF BootInv, TreeInv, FormatOrder
  <2>2. \A s \in Slot : ~Used(EmptyTable[s])
    BY DEF EmptyTable, FreeEntry, Used
  <2>3. CASE FormatFat
    BY <2>1, <2>2, <2>3 DEF FormatFat
  <2>4. CASE FormatRoot
    <3>1. SUFFICES ASSUME NEW c \in Cluster, NEW s \in Slot, Used(table'[c][s])
                   PROVE  IsSelfEntry(table', c, s)
      OBVIOUS
    <3>2. c = ROOT_CLUSTER_NUMBER /\ table'[c] = NewTable(RootName, c)
      BY <2>1, <2>2, <2>4, <3>1 DEF FormatRoot
    <3>3. s = 0 /\ 0 \in Slot
      BY <2>2, <3>1, <3>2, Ranges DEF NewTable, EmptyTable
    <3>4. QED
      BY <3>2, <3>3 DEF NewTable, EmptyTable, IsSelfEntry
  <2>5. QED
    BY <2>3, <2>4
<1>6. FreeOfFiles(KANO2_PARENT)' /\ FreeOfFiles(DAIJOUBU_PARENT)'
  <2>1. table' \in [Cluster -> Table] /\ Shown' = table'
    BY <1>1, TreeTypes DEF TreeInv, Shown, FreshInv, SavedInv, TypeInv, TypeOK
  <2>2. Owners(table') = {}
    BY <1>5, <2>1, EmptyTree
  <2>3. QED
    BY <1>1, <2>1, <2>2 DEF FreeOfFiles, OffFiles
<1>7. pc' = "idle" => table'[ROOT_CLUSTER_NUMBER] = NewTable(RootName, ROOT_CLUSTER_NUMBER)
  <2>1. table \in [Cluster -> Table] /\ ROOT_CLUSTER_NUMBER \in Cluster
    BY TreeTypes, Ranges DEF BootInv, TreeInv
  <2>2. QED
    BY <1>4, <2>1 DEF FormatRoot
<1>8. OnHost'
  BY <1>2, <1>3, <1>4, <1>7 DEF OnHost, bootVars
<1>9. QED
  BY <1>1, <1>2, <1>3, <1>6, <1>8 DEF BootInv, OnMachine, Mapped, ShellRead, pageVars, bootVars

\* A disk write of a call: another file than the shell is written to clusters that
\* were free, and the inserter's commits the shell.
LEMMA BootServe ==
    BootInv /\ Fits /\ Benign /\ Serve /\ pc \notin {"format_fat", "format_root"} => BootInv'
<1> SUFFICES ASSUME BootInv, Fits, Benign, Serve, pc \notin {"format_fat", "format_root"}
             PROVE  BootInv'
  OBVIOUS
<1>1. Step /\ Next /\ TreeInv /\ call.op # "delete"
  BY DEF Serve, Next, BootInv
<1>2. TreeInv' /\ FreshInv /\ FreshInv'
  BY <1>1, TreeNext DEF TreeInv
<1>3. /\ call.op \in {"mkdir", "file"} /\ Shown = table /\ Shown' = table'
      /\ fat' = fat /\ signature' = signature /\ (diskFat' = diskFat \/ diskFat' = fat)
      /\ pc \notin {"off", "idle", "lost"}
  BY <1>1, DiskWrite
<1>4. \/ FlushParent /\ pc' = "idle" /\ call'.op = "none"
      \/ /\ Unmoved /\ pc' \in {"content", "flush_fat", "flush_parent"}
         /\ call'.op = call.op /\ call'.dir = call.dir /\ call'.slot = call.slot
         /\ call'.parent = call.parent /\ call'.chain = call.chain
         /\ call.op = "file" => call'.payload[1] = call.payload[1]
  BY <1>1, DiskWrite
<1>5. UNCHANGED <<pageVars, bootVars>>
  BY DEF Serve
<1>6. Tree(diskFat, Shown, data) /\ FreeOfFiles(KANO2_PARENT) /\ FreeOfFiles(DAIJOUBU_PARENT)
  BY DEF BootInv, TreeInv
<1>7. ASSUME NEW c, FreeOfFiles(c)
      PROVE  FreeOfFiles(c)'
  <2>1. CASE FlushParent /\ call'.op = "none"
    BY <1>1, <1>3, <1>7, <2>1, OffFilesCommitted DEF FreeOfFiles
  <2>2. CASE Unmoved /\ call'.op = call.op /\ call'.chain = call.chain
    <3>1. OffFiles(c)'
      BY <1>2, <1>6, <1>7, <2>2, OffFilesKept DEF FreeOfFiles
    <3>2. QED
      BY <1>7, <2>2, <3>1 DEF FreeOfFiles
  <2>3. QED
    BY <1>4, <2>1, <2>2
<1>8. ShellStored => ShellStored'
  <2>1. CASE FlushParent
    BY <1>1, <1>3, <2>1, ShellCommitted
  <2>2. CASE Unmoved
    BY <1>2, <1>3, <1>6, <2>2, ShellKept
  <2>3. QED
    BY <1>4, <2>1, <2>2
<1>9. FreeOfFiles(KANO2_PARENT)' /\ FreeOfFiles(DAIJOUBU_PARENT)'
  BY <1>6, <1>7
<1>10. CASE who = "host"
  <2>1. setup = 1 /\ Full(fat, SHELL_SIZE + 2) /\ Inserting
    BY <1>3, <1>10 DEF BootInv, OnHost
  <2>2. CASE FlushParent /\ pc' = "idle" /\ call'.op = "none"
    <3>1. ShellStored'
      BY <1>1, <2>1, <2>2, ShellInserted
    <3>2. OnHost'
      BY <1>3, <1>5, <2>1, <2>2, <3>1 DEF OnHost, Full, bootVars
    <3>3. QED
      BY <1>2, <1>5, <1>9, <1>10, <2>2, <3>2
         DEF BootInv, OnMachine, Mapped, ShellRead, pageVars, bootVars
  <2>3. CASE /\ pc' \in {"content", "flush_fat", "flush_parent"}
             /\ call'.op = call.op /\ call'.dir = call.dir /\ call'.slot = call.slot
             /\ call'.parent = call.parent
             /\ call.op = "file" => call'.payload[1] = call.payload[1]
    <3>1. Inserting'
      BY <2>1, <2>3 DEF Inserting, NewEntry, ShellEntry
    <3>2. OnHost'
      BY <1>3, <1>5, <2>1, <2>3, <3>1 DEF OnHost, Full, bootVars
    <3>3. QED
      BY <1>1, <1>2, <1>5, <1>9, <1>10, <2>3, <3>2
         DEF BootInv, OnMachine, Mapped, ShellRead, pageVars, bootVars
  <2>4. QED
    BY <1>4, <2>2, <2>3
<1>11. CASE who # "host"
  <2>1. /\ signature /\ ShellStored /\ Full(diskFat, SHELL_SIZE + 2) /\ Full(fat, SHELL_SIZE + 2)
        /\ setup >= 3 => Full(fat, SHELL_SIZE + 3)
        /\ setup >= 4 => Full(fat, SHELL_SIZE + 4)
        /\ setup >= 5 => Full(fat, SHELL_SIZE + 5)
    BY <1>3, <1>11 DEF BootInv, OnMachine
  <2>2. pc' \in {"idle", "content", "flush_fat", "flush_parent"} /\ call'.op # "delete"
    BY <1>1, <1>4
  <2>3. OnMachine'
    BY <1>3, <1>5, <1>8, <2>1, <2>2 DEF OnMachine, Full, bootVars
  <2>4. QED
    BY <1>2, <1>5, <1>9, <1>11, <2>2, <2>3
       DEF BootInv, OnHost, Mapped, ShellRead, pageVars, bootVars
<1>12. QED
  BY <1>10, <1>11

\* The inserter's call finds the clusters after the root's all free, and the first
\* slot after the root's own.
LEMMA BootInsert == BootInv /\ Fits /\ Benign /\ InsertShell => BootInv'
<1> SUFFICES ASSUME BootInv, Fits, Benign, InsertShell PROVE BootInv'
  OBVIOUS
<1>1. /\ who = "host" /\ setup = 0 /\ pc = "idle" /\ setup' = 1 /\ who' = who
      /\ Write(ROOT_CLUSTER_NUMBER, ShellName, SHELL_SIZE, ShellText)
      /\ UNCHANGED <<pageVars, loaded>>
  BY DEF InsertShell, Write
<1>2. /\ fat = FirstFat
      /\ table[ROOT_CLUSTER_NUMBER] = NewTable(RootName, ROOT_CLUSTER_NUMBER)
      /\ call.op = "none"
  BY <1>1, WhenIdle DEF BootInv, OnHost
<1>3. MakeFile(ROOT_CLUSTER_NUMBER, ShellName, SHELL_SIZE, ShellText)
  <2>1. ShellName # NoName /\ SHELL_SIZE # 0 /\ ~(ROOT_CLUSTER_NUMBER < ROOT_CLUSTER_NUMBER)
    BY BootConstants DEF ROOT_CLUSTER_NUMBER
  <2>2. QED
    BY <1>1, <2>1 DEF Write
<1>4. ~(Cardinality(Free(fat)) < SHELL_SIZE)
  <2>1. Free(fat) = 3 .. CLUSTER_MAP_SIZE - 1
    BY <1>2, FirstFree
  <2>2. Cardinality(3 .. CLUSTER_MAP_SIZE - 1) = CLUSTER_MAP_SIZE - 3
    BY FS_Interval, SizeAssumption
  <2>3. QED
    BY <2>1, <2>2, BootConstants, SizeAssumption
<1>5. PICK q \in Allocation(fat, SHELL_SIZE), s \in Slot :
         /\ TakesSlot(table[ROOT_CLUSTER_NUMBER], s)
         /\ fat' = Linked(fat, q)
         /\ Enter([NoCall EXCEPT
               !.op = "file", !.dir = ROOT_CLUSTER_NUMBER, !.slot = s, !.chain = q,
               !.payload = <<ShellText, 1>>,
               !.parent = [table[ROOT_CLUSTER_NUMBER] EXCEPT
                             ![s] = Entry(ShellName, "file", q[1], SHELL_SIZE)]])
         /\ pc' = "content"
         /\ UNCHANGED disk
  BY <1>3, <1>4 DEF MakeFile
<1>6. s = 1
  <2> DEFINE t == NewTable(RootName, ROOT_CLUSTER_NUMBER)
  <2>1. 0 \in Slot /\ 1 \in Slot /\ Used(t[0]) /\ \A r \in Slot \ {0} : ~Used(t[r])
    BY SlotsAssumption DEF Slot, NewTable, EmptyTable, FreeEntry, Used
  <2>2. TakesSlot(t, s)
    BY <1>2, <1>5
  <2> HIDE DEF t
  <2>3. s # 0 /\ \A r \in Slot : r < s => Used(t[r])
    BY <2>1, <2>2 DEF TakesSlot
  <2>4. s \in Int /\ s >= 1
    BY <2>3 DEF Slot
  <2>5. QED
    BY <2>1, <2>3, <2>4
<1>7. /\ \A i \in 1 .. SHELL_SIZE : q[i] = i + 2
      /\ Full(fat', SHELL_SIZE + 2) /\ DOMAIN q = 1 .. SHELL_SIZE
  <2>1. SHELL_SIZE \in Nat \ {0} /\ SHELL_SIZE + 2 < CLUSTER_MAP_SIZE
    BY BootConstants, SizeAssumption
  <2>2. q \in Allocation(FirstFat, SHELL_SIZE)
    BY <1>2, <1>5
  <2>3. \A i \in 1 .. SHELL_SIZE : q[i] = i + 2
    BY <2>1, <2>2, FirstChain
  <2>4. Full(Linked(FirstFat, q), SHELL_SIZE + 2)
    BY <2>1, <2>2, FirstChain
  <2>5. DOMAIN q = 1 .. SHELL_SIZE
    BY <2>2 DEF Allocation
  <2>6. QED
    BY <1>2, <1>5, <2>3, <2>4, <2>5
<1>8. /\ call'.op = "file" /\ call'.dir = ROOT_CLUSTER_NUMBER /\ call'.slot = 1
      /\ call'.chain = q /\ call'.payload = <<ShellText, 1>>
      /\ NewEntry' = Entry(ShellName, "file", q[1], SHELL_SIZE)
  <2>1. /\ call'.op = "file" /\ call'.dir = ROOT_CLUSTER_NUMBER /\ call'.slot = s
        /\ call'.chain = q /\ call'.payload = <<ShellText, 1>>
        /\ call'.parent = [table[ROOT_CLUSTER_NUMBER] EXCEPT
                             ![s] = Entry(ShellName, "file", q[1], SHELL_SIZE)]
    BY <1>5 DEF Enter, NoCall
  <2>2. DOMAIN table[ROOT_CLUSTER_NUMBER] = Slot
    BY <1>2 DEF NewTable, EmptyTable
  <2>3. QED
    BY <1>6, <2>1, <2>2 DEF NewEntry
<1>9. Inserting'
  BY <1>8 DEF Inserting, ShellEntry, Entry
<1>10. TreeInv'
  <2>1. /\ ShellName \in Names \cup {NoName} /\ SHELL_SIZE \in {0} \cup Lengths
        /\ ShellText \in Payloads /\ ROOT_CLUSTER_NUMBER \in Cluster
    BY BootConstants, Ranges
  <2>2. AnyRequest
    BY <1>1, <2>1 DEF AnyRequest
  <2>3. TreeInv /\ FreshInv /\ Shown = table /\ table \in [Cluster -> Table]
    BY <1>1, WhenIdle, TreeTypes DEF BootInv, TreeInv
  <2>4. FreshInv'
    BY <2>2, <2>3, AnyFresh
  <2>5. ROOT_CLUSTER_NUMBER \in Directories(Shown)
    BY <2>3, DirectoriesAre
  <2>6. OffFiles(ROOT_CLUSTER_NUMBER) /\ fat[ROOT_CLUSTER_NUMBER] # FAT32_FAT_EMPTY_ENTRY
    BY <1>1, <2>3, <2>5, DirectoryHeld
  <2>7. QED
    BY <1>1, <2>1, <2>3, <2>4, <2>6, TreeWrite
<1>11. ASSUME NEW c \in Int, c > SHELL_SIZE + 2, FreeOfFiles(c)
       PROVE  FreeOfFiles(c)'
  <2>1. OffFiles(c)'
    BY <1>2, <1>5, <1>8, <1>11, Quiet DEF FreeOfFiles
  <2>2. \A k \in DOMAIN q : q[k] # c
    BY <1>7, <1>11, BootConstants
  <2>3. QED
    BY <1>8, <2>1, <2>2 DEF FreeOfFiles
<1>12. FreeOfFiles(KANO2_PARENT)' /\ FreeOfFiles(DAIJOUBU_PARENT)'
  <2>1. KANO2_PARENT \in Int /\ DAIJOUBU_PARENT \in Int
    BY BootConstants, SizeAssumption DEF Cluster, ROOT_CLUSTER_NUMBER
  <2>2. QED
    BY <1>11, <2>1, BootConstants DEF BootInv
<1>13. OnHost'
  BY <1>1, <1>5, <1>7, <1>9 DEF OnHost
<1>14. QED
  BY <1>1, <1>8, <1>10, <1>12, <1>13 DEF BootInv, OnMachine, Mapped, ShellRead, pageVars

\* Between two calls the disk's FAT has the shell's clusters in use as memory has.
LEMMA BootSave == BootInv /\ Fits /\ Benign /\ SaveImage => BootInv'
<1> SUFFICES ASSUME BootInv, Fits, Benign, SaveImage PROVE BootInv'
  OBVIOUS
<1>1. /\ who = "host" /\ setup = 1 /\ pc = "idle" /\ who' = "kernel" /\ setup' = 0 /\ pc' = "off"
      /\ fat' = EmptyFat /\ out' = Answer(Pending) /\ UNCHANGED <<disk, call, pageVars, loaded>>
  BY DEF SaveImage
<1>2. /\ TreeInv /\ FreshInv /\ call = NoCall /\ call.op = "none" /\ Shown = table
      /\ Tree(diskFat, table, data)
  BY <1>1, WhenIdle DEF BootInv, TreeInv
<1>3. /\ signature' = signature /\ diskFat' = diskFat /\ table' = table /\ data' = data
      /\ call' = NoCall
  BY <1>1, <1>2 DEF disk
<1>4. FreshInv'
  <2>1. TypeOK
    BY <1>2 DEF FreshInv, SavedInv, TypeInv
  <2>2. Answer(Pending) \in [code : -1 .. Pending, blocks : Seq(Block), listed : {0} \cup Cluster]
    BY AnswerType DEF Pending
  <2>3. TypeOK'
    BY <1>1, <1>3, <2>1, <2>2, EmptyTypes DEF TypeOK, Phases
  <2>4. CallOK' /\ Saved' /\ Fresh'
    BY <1>1, <1>3 DEF CallOK, Saved, Fresh
  <2>5. QED
    BY <2>3, <2>4 DEF FreshInv, SavedInv, TypeInv
<1>5. signature /\ Reserved(diskFat)
  BY <1>1, <1>2 DEF TreeInv, FormatOrder
<1>6. TreeInv'
  <2>1. FormatOrder'
    BY <1>1, <1>3, <1>5 DEF FormatOrder, Reserved
  <2>2. Tree(diskFat', table', data')
    BY <1>2, <1>3
  <2>3. QED
    BY <1>1, <1>3, <1>4, <2>1, <2>2, AtRest
<1>7. Full(diskFat, SHELL_SIZE + 2)
  <2>1. Agree /\ Full(fat, SHELL_SIZE + 2)
    BY <1>1, <1>2 DEF BootInv, OnHost, FreshInv, SavedInv, Saved
  <2>2. SUFFICES ASSUME NEW c \in Cluster, c <= SHELL_SIZE + 2
                 PROVE  diskFat[c] # FAT32_FAT_EMPTY_ENTRY
    BY DEF Full
  <2>3. c + 1 # CLUSTER_MAP_SIZE /\ c \in Cell
    BY <2>2, BootConstants, SizeAssumption, Ranges DEF Cluster, ROOT_CLUSTER_NUMBER
  <2>4. fat[c] = diskFat[c]
    BY <2>1, <2>3 DEF Agree
  <2>5. QED
    BY <2>1, <2>2, <2>4 DEF Full
<1>8. ShellStored /\ FreeOfFiles(KANO2_PARENT) /\ FreeOfFiles(DAIJOUBU_PARENT)
  BY <1>1 DEF BootInv, OnHost
<1>9. ShellStored' /\ FreeOfFiles(KANO2_PARENT)' /\ FreeOfFiles(DAIJOUBU_PARENT)'
  <2>1. call'.op = call.op /\ call.op # "delete"
    BY <1>2, <1>3
  <2>2. QED
    BY <1>1, <1>2, <1>8, <2>1, Quiet DEF FreeOfFiles
<1>10. OnMachine'
  BY <1>1, <1>3, <1>5, <1>7, <1>9 DEF OnMachine, Full
<1>11. Mapped'
  BY <1>1 DEF BootInv, Mapped, pageVars
<1>12. QED
  BY <1>1, <1>2, <1>3, <1>6, <1>9, <1>10, <1>11 DEF BootInv, OnHost, ShellRead

\* The first call of the allocator maps page 0 to the first frame after the kernel's.
LEMMA BootAllocate == BootInv /\ Benign /\ AllocateUserPage => BootInv'
<1> SUFFICES ASSUME BootInv, Benign, AllocateUserPage PROVE BootInv'
  OBVIOUS
<1>1. /\ who = "kernel" /\ setup = 0 /\ pc = "idle" /\ setup' = 1 /\ UNCHANGED <<vars, who, loaded>>
      /\ allocate_single_user_page_frame(0)
  BY DEF AllocateUserPage
<1>2. TreeInv'
  BY <1>1, TreeNext DEF BootInv
<1>3. UNCHANGED <<signature, diskFat, table, data, fat, pc, call>> /\ Shown' = Shown
  BY <1>1 DEF vars, Shown
<1>4. FreeOfFiles(KANO2_PARENT)' /\ FreeOfFiles(DAIJOUBU_PARENT)'
  BY <1>3 DEF BootInv, FreeOfFiles, OffFiles
<1>5. OnMachine'
  BY <1>1, <1>3 DEF BootInv, OnMachine, ShellStored, ShellEntry, Full
<1>6. Mapped'
  <2>1. page_directory = StartDirectory /\ next_frame = 1
    BY <1>1 DEF BootInv, Mapped
  <2>2. (0 \div PAGE_FRAME_SIZE) % PAGE_ENTRY_COUNT = 0
    BY PageAssumption DEF PAGE_FRAME_SIZE
  <2>3. page_directory' = [StartDirectory EXCEPT ![0] = UserEntry(1)]
    BY <1>1, <2>1, <2>2 DEF allocate_single_user_page_frame
  <2>4. QED
    BY <1>1, <2>3 DEF Mapped
<1>7. QED
  BY <1>1, <1>2, <1>3, <1>4, <1>5, <1>6 DEF BootInv, OnHost, ShellRead

\* What a call of the boot leaves alone, when the driver takes it.
LEMMA BootCall ==
    ASSUME BootInv, pc = "idle", NEW d \in Cluster, NEW n \in Names, NEW size \in Nat,
           NEW p \in Payloads,
           \/ Read(d, n, size)
           \/ /\ size \in {0} \cup Lengths /\ Write(d, n, size, p)
              /\ OffFiles(d) /\ fat[d] # FAT32_FAT_EMPTY_ENTRY
    PROVE  /\ TreeInv' /\ UNCHANGED disk
           /\ pc' \in {"idle", "lost", "new_table", "content"}
           /\ \/ fat' = fat /\ call' = call
              \/ size = 0 /\ MakeDirectory(d, n) /\ call'.op \in {"none", "mkdir"}
              \/ /\ size # 0 /\ call'.op = "file"
                 /\ \E q \in Allocation(fat, size) : fat' = Linked(fat, q) /\ call'.chain = q
<1>1. FreshInv /\ TreeInv /\ call = NoCall /\ call.op = "none"
  BY WhenIdle DEF BootInv, TreeInv
<1>2. n # NoName /\ ~(d < ROOT_CLUSTER_NUMBER)
  BY NamesAssumption, SizeAssumption DEF Cluster, ROOT_CLUSTER_NUMBER
<1>3. CASE Read(d, n, size)
  <2>1. AnyRequest
    BY <1>3 DEF AnyRequest
  <2>2. TreeInv'
    BY <1>1, <1>3, <2>1, AnyFresh, TreeRead
  <2>3. UNCHANGED disk /\ fat' = fat /\ call' = call /\ pc' \in {"idle", "lost"}
    BY <1>3 DEF Read, ReadChain, Reply
  <2>4. QED
    BY <2>2, <2>3
<1>4. CASE /\ size \in {0} \cup Lengths /\ Write(d, n, size, p)
           /\ OffFiles(d) /\ fat[d] # FAT32_FAT_EMPTY_ENTRY
  <2>1. AnyRequest
    BY <1>4 DEF AnyRequest
  <2>2. TreeInv'
    BY <1>1, <1>4, <2>1, AnyFresh, TreeWrite
  <2>3. CASE size = 0 /\ MakeDirectory(d, n)
    <3>1. CASE Reply(Answer(1))
      BY <2>2, <3>1 DEF Reply
    <3>2. CASE UNCHANGED <<disk, pc, call>>
      BY <1>1, <2>2, <2>3, <3>2
    <3>3. CASE /\ UNCHANGED disk /\ pc' = "new_table"
               /\ \E q \in Allocation(fat, 1), s \in Slot :
                     Enter([NoCall EXCEPT
                            !.op = "mkdir", !.dir = d, !.slot = s, !.chain = q,
                            !.parent = [table[d] EXCEPT ![s] = Entry(n, "dir", q[1], 0)]])
      <4>1. call'.op = "mkdir"
        BY <3>3 DEF Enter, NoCall
      <4>2. QED
        BY <2>2, <2>3, <3>3, <4>1
    <3>4. QED
      BY <2>3, <3>1, <3>2, <3>3 DEF MakeDirectory
  <2>4. CASE size # 0 /\ MakeFile(d, n, size, p)
    <3>1. CASE Reply(Answer(1))
      BY <2>2, <3>1 DEF Reply
    <3>2. CASE /\ UNCHANGED disk /\ pc' = "content"
               /\ \E q \in Allocation(fat, size), s \in Slot :
                     /\ fat' = Linked(fat, q)
                     /\ Enter([NoCall EXCEPT
                          !.op = "file", !.dir = d, !.slot = s, !.chain = q, !.payload = <<p, 1>>,
                          !.parent = [table[d] EXCEPT ![s] = Entry(n, "file", q[1], size)]])
      <4>1. PICK q \in Allocation(fat, size), s \in Slot :
                     /\ fat' = Linked(fat, q)
                     /\ Enter([NoCall EXCEPT
                          !.op = "file", !.dir = d, !.slot = s, !.chain = q, !.payload = <<p, 1>>,
                          !.parent = [table[d] EXCEPT ![s] = Entry(n, "file", q[1], size)]])
        BY <3>2
      <4>2. call'.op = "file" /\ call'.chain = q
        BY <4>1 DEF Enter, NoCall
      <4>3. QED
        BY <2>2, <2>4, <3>2, <4>1, <4>2
    <3>3. QED
      BY <2>4, <3>1, <3>2 DEF MakeFile
  <2>5. QED
    BY <1>2, <1>4, <2>3, <2>4 DEF Write
<1>5. QED
  BY <1>3, <1>4

\* The calls of kernel_setup: the directories take the lowest free clusters, so those
\* that it names as parents are in use when it names them, and no file's.
LEMMA BootExamples == BootInv /\ Fits /\ Benign /\ MakeExamples => BootInv'
<1> SUFFICES ASSUME BootInv, Fits, Benign, MakeExamples PROVE BootInv'
  OBVIOUS
<1>1. /\ who = "kernel" /\ who' = who /\ setup' = setup + 1 /\ setup \in 1 .. 5
      /\ pc = "idle" /\ UNCHANGED <<pageVars, loaded>>
      /\ Example(KANO2_PARENT, DAIJOUBU_PARENT)
  BY DEF MakeExamples, Example, Read, Write
<1>2. /\ TreeInv /\ FreshInv /\ fat \in [Cell -> FatValue] /\ call.op = "none" /\ Shown = table
      /\ table \in [Cluster -> Table]
  BY <1>1, WhenIdle, TreeTypes DEF BootInv, TreeInv
<1>3. /\ signature /\ ShellStored /\ Full(diskFat, SHELL_SIZE + 2) /\ Full(fat, SHELL_SIZE + 2)
      /\ setup >= 3 => Full(fat, SHELL_SIZE + 3)
      /\ setup >= 4 => Full(fat, SHELL_SIZE + 4)
      /\ setup >= 5 => Full(fat, SHELL_SIZE + 5)
  BY <1>1 DEF BootInv, OnMachine
<1>4. FreeOfFiles(KANO2_PARENT) /\ FreeOfFiles(DAIJOUBU_PARENT)
  BY DEF BootInv
<1>5. /\ SHELL_SIZE \in Nat /\ KANO2_PARENT \in Int /\ DAIJOUBU_PARENT \in Int
      /\ KANO2_PARENT <= SHELL_SIZE + 4 /\ DAIJOUBU_PARENT <= SHELL_SIZE + 5
      /\ KANO2_PARENT \in Cluster /\ DAIJOUBU_PARENT \in Cluster /\ ROOT_CLUSTER_NUMBER \in Cluster
      /\ DAIJOUBU_SIZE \in Nat \ {0} /\ DAIJOUBU_SIZE \in Lengths /\ DaijoubuText \in Payloads
      /\ {Ikanaide, Kano1, Kano2, Daijoubu} \subseteq Names
  BY BootConstants, Ranges, SizeAssumption DEF Cluster, ROOT_CLUSTER_NUMBER
<1>6. OffFiles(ROOT_CLUSTER_NUMBER) /\ fat[ROOT_CLUSTER_NUMBER] # FAT32_FAT_EMPTY_ENTRY
  BY <1>1, <1>2, DirectoriesAre, DirectoryHeld
<1>7. setup = 4 => OffFiles(KANO2_PARENT) /\ fat[KANO2_PARENT] # FAT32_FAT_EMPTY_ENTRY
  BY <1>3, <1>4, <1>5 DEF FreeOfFiles, Full
<1>8. setup = 5 => OffFiles(DAIJOUBU_PARENT) /\ fat[DAIJOUBU_PARENT] # FAT32_FAT_EMPTY_ENTRY
  BY <1>3, <1>4, <1>5 DEF FreeOfFiles, Full
<1>9. \E d \in Cluster, n \in Names :
         \/ setup \in 1 .. 4 /\ Read(d, n, 0) /\ setup = 1
         \/ /\ setup \in 2 .. 4 /\ Write(d, n, 0, DaijoubuText)
            /\ OffFiles(d) /\ fat[d] # FAT32_FAT_EMPTY_ENTRY
         \/ /\ setup = 5 /\ Write(d, n, DAIJOUBU_SIZE, DaijoubuText)
            /\ OffFiles(d) /\ fat[d] # FAT32_FAT_EMPTY_ENTRY
  <2>1. CASE setup = 1 /\ Read(ROOT_CLUSTER_NUMBER, Ikanaide, 0)
    BY <1>5, <2>1
  <2>2. CASE setup = 2 /\ Write(ROOT_CLUSTER_NUMBER, Ikanaide, 0, DaijoubuText)
    BY <1>5, <1>6, <2>2
  <2>3. CASE setup = 3 /\ Write(ROOT_CLUSTER_NUMBER, Kano1, 0, DaijoubuText)
    BY <1>5, <1>6, <2>3
  <2>4. CASE setup = 4 /\ Write(KANO2_PARENT, Kano2, 0, DaijoubuText)
    BY <1>5, <1>7, <2>4
  <2>5. CASE setup = 5 /\ Write(DAIJOUBU_PARENT, Daijoubu, DAIJOUBU_SIZE, DaijoubuText)
    BY <1>5, <1>8, <2>5
  <2>6. QED
    BY <1>1, <2>1, <2>2, <2>3, <2>4, <2>5 DEF Example
<1>10. /\ TreeInv' /\ UNCHANGED disk
       /\ pc' \in {"idle", "lost", "new_table", "content"}
       /\ \/ fat' = fat /\ call' = call /\ setup = 1
          \/ fat' = fat /\ call' = call /\ setup = 5
          \/ /\ setup \in 2 .. 4 /\ call'.op \in {"none", "mkdir"}
             /\ \E d \in Cluster, n \in Names : MakeDirectory(d, n)
          \/ /\ setup = 5 /\ call'.op = "file"
             /\ \E q \in Allocation(fat, DAIJOUBU_SIZE) : fat' = Linked(fat, q) /\ call'.chain = q
  <2>1. PICK d \in Cluster, n \in Names :
         \/ setup \in 1 .. 4 /\ Read(d, n, 0) /\ setup = 1
         \/ /\ setup \in 2 .. 4 /\ Write(d, n, 0, DaijoubuText)
            /\ OffFiles(d) /\ fat[d] # FAT32_FAT_EMPTY_ENTRY
         \/ /\ setup = 5 /\ Write(d, n, DAIJOUBU_SIZE, DaijoubuText)
            /\ OffFiles(d) /\ fat[d] # FAT32_FAT_EMPTY_ENTRY
    BY <1>9
  <2>2. CASE Read(d, n, 0) /\ setup = 1
    <3>1. TreeInv' /\ UNCHANGED disk /\ pc' \in {"idle", "lost", "new_table", "content"}
      BY <1>1, <1>5, <2>2, BootCall
    <3>2. fat' = fat /\ call' = call
      BY <2>2 DEF Read, ReadChain, Reply
    <3>3. QED
      BY <2>2, <3>1, <3>2
  <2>3. CASE /\ setup \in 2 .. 4 /\ Write(d, n, 0, DaijoubuText)
             /\ OffFiles(d) /\ fat[d] # FAT32_FAT_EMPTY_ENTRY
    <3>1. TreeInv' /\ UNCHANGED disk /\ pc' \in {"idle", "lost", "new_table", "content"}
      BY <1>1, <1>5, <2>3, BootCall
    <3>2. (fat' = fat /\ call' = call) \/ call'.op \in {"none", "mkdir"}
      BY <1>1, <1>5, <2>3, BootCall
    <3>3. call'.op \in {"none", "mkdir"}
      BY <1>2, <3>2
    <3>4. MakeDirectory(d, n)
      BY <2>3, NamesAssumption, SizeAssumption DEF Write, Cluster, ROOT_CLUSTER_NUMBER
    <3>5. QED
      BY <2>3, <3>1, <3>3, <3>4
  <2>4. CASE /\ setup = 5 /\ Write(d, n, DAIJOUBU_SIZE, DaijoubuText)
             /\ OffFiles(d) /\ fat[d] # FAT32_FAT_EMPTY_ENTRY
    <3>1. /\ TreeInv' /\ UNCHANGED disk /\ pc' \in {"idle", "lost", "new_table", "content"}
          /\ \/ fat' = fat /\ call' = call
             \/ DAIJOUBU_SIZE = 0
             \/ /\ call'.op = "file"
                /\ \E q \in Allocation(fat, DAIJOUBU_SIZE) :
                      fat' = Linked(fat, q) /\ call'.chain = q
      BY <1>1, <1>5, <2>4, BootCall
    <3>2. QED
      BY <1>5, <2>4, <3>1
  <2>5. QED
    BY <2>1, <2>2, <2>3, <2>4
<1>11. /\ Full(fat', SHELL_SIZE + 2)
       /\ setup' >= 3 => Full(fat', SHELL_SIZE + 3)
       /\ setup' >= 4 => Full(fat', SHELL_SIZE + 4)
       /\ setup' >= 5 => Full(fat', SHELL_SIZE + 5)
  <2>1. CASE fat' = fat /\ setup \in {1, 5}
    BY <1>1, <1>3, <2>1
  <2>2. ASSUME NEW k \in Nat, setup \in 2 .. 4, Full(fat, SHELL_SIZE + k),
               \E d \in Cluster, n \in Names : MakeDirectory(d, n)
        PROVE  Full(fat', SHELL_SIZE + (k + 1)) /\ \A m \in 2 .. k : Full(fat', SHELL_SIZE + m)
    <3>1. SHELL_SIZE + k \in Nat /\ (SHELL_SIZE + k) + 1 = SHELL_SIZE + (k + 1)
      BY <1>5
    <3>2. Full(fat', SHELL_SIZE + (k + 1))
      BY <1>2, <2>2, <3>1, DirectoryFills
    <3>3. QED
      BY <1>5, <3>2, FullDown
  <2>3. CASE /\ setup \in 2 .. 4 /\ \E d \in Cluster, n \in Names : MakeDirectory(d, n)
    <3>1. CASE setup = 2
      <4>1. Full(fat', SHELL_SIZE + 3) /\ Full(fat', SHELL_SIZE + 2)
        BY <1>3, <2>2, <2>3, <3>1
      <4>2. QED
        BY <1>1, <3>1, <4>1
    <3>2. CASE setup = 3
      <4>1. Full(fat', SHELL_SIZE + 4) /\ Full(fat', SHELL_SIZE + 3) /\ Full(fat', SHELL_SIZE + 2)
        BY <1>3, <2>2, <2>3, <3>2
      <4>2. QED
        BY <1>1, <3>2, <4>1
    <3>3. CASE setup = 4
      <4>1. /\ Full(fat', SHELL_SIZE + 5) /\ Full(fat', SHELL_SIZE + 4)
            /\ Full(fat', SHELL_SIZE + 3) /\ Full(fat', SHELL_SIZE + 2)
        BY <1>3, <2>2, <2>3, <3>3
      <4>2. QED
        BY <1>1, <3>3, <4>1
    <3>4. QED
      BY <2>3, <3>1, <3>2, <3>3
  <2>4. CASE setup = 5 /\ \E q \in Allocation(fat, DAIJOUBU_SIZE) : fat' = Linked(fat, q)
    BY <1>2, <1>3, <1>5, <2>4, LinkedFull
  <2>5. QED
    BY <1>10, <2>1, <2>3, <2>4
<1>12. call'.op # "delete"
  BY <1>2, <1>10
<1>13. ASSUME NEW c \in Cluster, c <= SHELL_SIZE + 5, FreeOfFiles(c)
       PROVE  FreeOfFiles(c)'
  <2>1. OffFiles(c)'
    BY <1>2, <1>10, <1>12, <1>13, Quiet DEF FreeOfFiles
  <2>2. ASSUME setup = 5, NEW q \in Allocation(fat, DAIJOUBU_SIZE), NEW k \in DOMAIN q
        PROVE  q[k] # c
    <3>1. fat[q[k]] = FAT32_FAT_EMPTY_ENTRY
      BY <1>5, <2>2, AllocationType
    <3>2. fat[c] # FAT32_FAT_EMPTY_ENTRY
      BY <1>3, <1>13, <2>2 DEF Full
    <3>3. QED
      BY <3>1, <3>2
  <2>3. call'.op = "file" => \A k \in DOMAIN call'.chain : call'.chain[k] # c
    BY <1>2, <1>10, <2>2
  <2>4. QED
    BY <2>1, <2>3 DEF FreeOfFiles
<1>14. FreeOfFiles(KANO2_PARENT)' /\ FreeOfFiles(DAIJOUBU_PARENT)'
  BY <1>4, <1>5, <1>13
<1>15. ShellStored' /\ signature' = signature /\ diskFat' = diskFat
  BY <1>2, <1>3, <1>10, <1>12, Quiet DEF disk
<1>16. OnMachine'
  BY <1>1, <1>3, <1>10, <1>11, <1>15 DEF OnMachine, Full
<1>17. Mapped'
  BY <1>1 DEF BootInv, Mapped, pageVars
<1>18. QED
  BY <1>1, <1>10, <1>12, <1>14, <1>16, <1>17 DEF BootInv, OnHost, ShellRead

\* What the kernel reads before it jumps is the file in the root's first entry.
LEMMA BootRun == BootInv /\ Fits /\ Benign /\ RunShell => BootInv'
<1> SUFFICES ASSUME BootInv, Fits, Benign, RunShell PROVE BootInv'
  OBVIOUS
<1> DEFINE e == table[ROOT_CLUSTER_NUMBER][1]
           o == <<ROOT_CLUSTER_NUMBER, 1>>
           q == ItsChain(diskFat, table, o)
<1>1. /\ who = "kernel" /\ setup = 6 /\ pc = "idle" /\ who' = "shell" /\ setup' = 0
      /\ Read(ROOT_CLUSTER_NUMBER, ShellName, SHELL_BUFFER)
      /\ loaded' = out'.blocks /\ UNCHANGED pageVars
  BY DEF RunShell, Read
<1>2. /\ TreeInv /\ FreshInv /\ call.op = "none" /\ Shown = table /\ Tree(diskFat, table, data)
      /\ table \in [Cluster -> Table] /\ fat \in [Cell -> FatValue]
      /\ diskFat \in [Cell -> FatValue]
  BY <1>1, WhenIdle, TreeTypes DEF BootInv, TreeInv
<1>3. /\ signature /\ ShellStored /\ Full(diskFat, SHELL_SIZE + 2) /\ Full(fat, SHELL_SIZE + 2)
  BY <1>1 DEF BootInv, OnMachine
<1>4. /\ SHELL_SIZE \in Nat \ {0} /\ SHELL_BUFFER \in Nat \ {0} /\ SHELL_SIZE <= SHELL_BUFFER
      /\ ShellName \in Names /\ ShellName # NoName /\ ROOT_CLUSTER_NUMBER \in Cluster
      /\ {0, 1} \subseteq Slot
  BY BootConstants, Ranges, SlotsAssumption DEF Slot
<1>5. TreeInv' /\ UNCHANGED disk /\ fat' = fat /\ call' = call /\ pc' \in {"idle", "lost"}
  <2>1. AnyRequest
    BY <1>1, <1>4 DEF AnyRequest
  <2>2. TreeInv'
    BY <1>1, <1>2, <2>1, AnyFresh, TreeRead
  <2>3. QED
    BY <1>1, <2>2 DEF Read, ReadChain, Reply
<1>6. /\ o \in Owners(table) /\ ItsEntry(table, o) = e /\ q[1] = e.cluster
      /\ IsChain(diskFat, q) /\ 1 \in DOMAIN q /\ DOMAIN q = 1 .. Len(q)
      /\ \A k \in DOMAIN q : q[k] \in Cluster
  BY <1>2, <1>3, ShellOwned, ChainCells
<1>7. /\ Len(q) = SHELL_SIZE
      /\ \A k \in DOMAIN q : data[q[k]] = <<ShellText, k>>
  <2>1. HasContent(diskFat, table, data, o)
    BY <1>2, <1>6 DEF Tree
  <2>2. Len(q) = SHELL_SIZE /\ \E p \in Payloads : Holds(data, q, p)
    BY <1>3, <1>6, <2>1 DEF HasContent, ShellStored, ShellEntry
  <2>3. PICK p \in Payloads : Holds(data, q, p)
    BY <2>2
  <2>4. data[q[1]] = <<p, 1>> /\ data[q[1]] = <<ShellText, 1>>
    BY <1>3, <1>6, <2>3 DEF Holds, ShellStored
  <2>5. p = ShellText
    BY <2>4
  <2>6. QED
    BY <2>2, <2>3, <2>5 DEF Holds
<1>8. IsChain(fat, q)
  <2>1. \A k \in DOMAIN q : fat[q[k]] = diskFat[q[k]]
    BY <1>1, <1>2, <1>6 DEF TreeInv, Remembered
  <2>2. QED
    BY <1>6, <2>1, ChainMoves
<1> HIDE DEF q, e, o
<1>9. loaded' = [k \in 1 .. SHELL_BUFFER |-> IF k <= Len(q) THEN BlockAt(q[k]) ELSE NoBlock]
  <2>1. 1 \in Matches(table[ROOT_CLUSTER_NUMBER], ShellName)
    BY <1>3, <1>4 DEF Matches, ShellStored, ShellEntry
  <2>2. PICK s \in Slot : /\ FirstMatch(table[ROOT_CLUSTER_NUMBER], ShellName, s)
                          /\ ReadChain(table[ROOT_CLUSTER_NUMBER][s].cluster, SHELL_BUFFER)
    BY <1>1, <1>4, <2>1 DEF Read
  <2>3. s = 1
    <3>1. s \in Slot \ {0} /\ s <= 1
      BY <2>1, <2>2 DEF FirstMatch, Matches
    <3>2. QED
      BY <3>1 DEF Slot
  <2>4. ReadChain(q[1], SHELL_BUFFER)
    BY <1>6, <2>2, <2>3 DEF e
  <2>5. PICK stray \in StrayWords :
           LET r == Chain(fat, q[1], stray) IN
           \/ /\ Ends(fat, r, stray)
              /\ Reply(IF Len(r) > SHELL_BUFFER THEN Answer(2)
                       ELSE [Answer(0) EXCEPT !.blocks =
                                [k \in 1 .. SHELL_BUFFER |->
                                    IF k <= Len(r) THEN BlockAt(r[k]) ELSE NoBlock]])
           \/ ~Ends(fat, r, stray)
    BY <2>4 DEF ReadChain
  <2>6. stray \in FatValue
    BY Ranges
  <2>7. Chain(fat, q[1], stray) = q /\ Ends(fat, q, stray)
    BY <1>2, <1>8, <2>6, ChainIs
  <2>8. ~(Len(q) > SHELL_BUFFER)
    BY <1>4, <1>7
  <2>9. out' = [Answer(0) EXCEPT !.blocks =
                   [k \in 1 .. SHELL_BUFFER |-> IF k <= Len(q) THEN BlockAt(q[k]) ELSE NoBlock]]
    BY <2>5, <2>7, <2>8 DEF Reply
  <2>10. QED
    BY <1>1, <2>9 DEF Answer
<1>10. ShellRead'
  <2>1. SUFFICES ASSUME NEW k \in 1 .. SHELL_SIZE
                 PROVE  k \in DOMAIN loaded' /\ loaded'[k] = <<ShellText, k>>
    BY DEF ShellRead
  <2>2. k \in 1 .. SHELL_BUFFER /\ k <= Len(q) /\ k \in DOMAIN q
    BY <1>4, <1>6, <1>7
  <2>3. BlockAt(q[k]) = <<ShellText, k>>
    BY <1>6, <1>7, <2>2 DEF BlockAt
  <2>4. QED
    BY <1>9, <2>2, <2>3
<1>11. call'.op = call.op /\ call.op # "delete"
  BY <1>2, <1>5
<1>12. ShellStored' /\ FreeOfFiles(KANO2_PARENT)' /\ FreeOfFiles(DAIJOUBU_PARENT)'
  BY <1>2, <1>3, <1>5, <1>11, Quiet DEF FreeOfFiles, BootInv
<1>13. OnMachine'
  BY <1>1, <1>3, <1>5, <1>12 DEF OnMachine, Full, disk
<1>14. Mapped'
  BY <1>1 DEF BootInv, Mapped, pageVars
<1>15. QED
  BY <1>1, <1>5, <1>10, <1>11, <1>12, <1>13, <1>14 DEF BootInv, OnHost

\* Whatever is being written, on the disk the shell and the clusters before
\* kernel_setup's are still there when the power fails.
LEMMA BootPower == BootInv /\ Fits /\ Benign /\ BootPowerFails => BootInv'
<1> SUFFICES ASSUME BootInv, Fits, Benign, BootPowerFails PROVE BootInv'
  OBVIOUS
<1>1. /\ who # "host" /\ PowerFails /\ who' = "kernel" /\ setup' = 0 /\ loaded' = <<>>
      /\ page_directory' = StartDirectory /\ next_frame' = 1
      /\ pc # "off" /\ pc' = "off" /\ call' = NoCall /\ signature' = signature
  BY DEF BootPowerFails, PowerFails
<1>2. TreeInv /\ FreshInv /\ FreshInv' /\ Tree(diskFat, Shown, data)
  BY <1>1, FreshNext DEF BootInv, TreeInv, Next
<1>3. TreeInv' /\ Unmoved
  BY <1>1, <1>2, TreePower
<1>4. call'.op = "none" /\ Shown = table /\ Shown' = table'
  BY <1>1 DEF BootInv, NoCall, Shown
<1>5. /\ signature /\ ShellStored /\ Full(diskFat, SHELL_SIZE + 2) /\ Full(fat, SHELL_SIZE + 2)
  BY <1>1 DEF BootInv, OnMachine
<1>6. ShellStored'
  BY <1>2, <1>3, <1>4, <1>5, ShellKept
<1>7. Full(diskFat', SHELL_SIZE + 2)
  <2>1. \A n : Full(Torn(diskFat, fat, n), SHELL_SIZE + 2)
    BY <1>5, Ranges DEF Full, Torn
  <2>2. QED
    BY <1>1, <1>5, <2>1 DEF PowerFails
<1>8. ASSUME NEW c, FreeOfFiles(c)
      PROVE  FreeOfFiles(c)'
  BY <1>2, <1>3, <1>4, <1>8, OffFilesKept DEF FreeOfFiles
<1>9. FreeOfFiles(KANO2_PARENT)' /\ FreeOfFiles(DAIJOUBU_PARENT)'
  BY <1>8 DEF BootInv
<1>10. OnMachine'
  BY <1>1, <1>5, <1>6, <1>7 DEF OnMachine
<1>11. QED
  BY <1>1, <1>3, <1>4, <1>9, <1>10 DEF BootInv, OnHost, Mapped, ShellRead

\* Every step keeps the invariant of the boot.
LEMMA BootKept == BootInv /\ Fits /\ Benign /\ [BootNext]_machine => BootInv'
<1> SUFFICES ASSUME BootInv, Fits, Benign, [BootNext]_machine PROVE BootInv'
  OBVIOUS
<1>1. CASE Start
  BY <1>1, BootStart
<1>2. CASE Serve
  <2>1. CASE pc \in {"format_fat", "format_root"}
    <3>1. FormatFat \/ FormatRoot
      BY <1>2, <2>1 DEF Serve, Step, FormatFat, FormatRoot, WriteNewTable, WriteContent,
         FlushFat, FlushParent, EraseDirectory, EraseCluster, EraseLast
    <3>2. QED
      BY <1>2, <3>1, BootFormat
  <2>2. QED
    BY <1>2, <2>1, BootServe
<1>3. CASE InsertShell \/ SaveImage
  BY <1>3, BootInsert, BootSave
<1>4. CASE AllocateUserPage \/ MakeExamples \/ RunShell
  BY <1>4, BootAllocate, BootExamples, BootRun
<1>5. CASE BootPowerFails
  BY <1>5, BootPower
<1>6. CASE UNCHANGED machine
  <2>1. UNCHANGED vars /\ UNCHANGED <<page_directory, next_frame, who, setup, loaded>>
    BY <1>6 DEF machine, pageVars, bootVars
  <2>2. TreeInv'
    BY <2>1, TreeNext DEF BootInv
  <2>3. UNCHANGED <<signature, diskFat, table, data, fat, pc, call>> /\ Shown' = Shown
    BY <2>1 DEF vars, Shown
  <2>4. OnHost'
    BY <2>1, <2>3 DEF BootInv, OnHost, ShellStored, ShellEntry, Inserting, NewEntry, Full
  <2>5. OnMachine'
    BY <2>1, <2>3 DEF BootInv, OnMachine, ShellStored, ShellEntry, Full
  <2>6. FreeOfFiles(KANO2_PARENT)' /\ FreeOfFiles(DAIJOUBU_PARENT)'
    BY <2>3 DEF BootInv, FreeOfFiles, OffFiles
  <2>7. QED
    BY <2>1, <2>2, <2>3, <2>4, <2>5, <2>6 DEF BootInv, Mapped, ShellRead
<1>7. QED
  BY <1>1, <1>2, <1>3, <1>4, <1>5, <1>6 DEF BootNext, Work

(***************************************************************************)
(* The theorems.  Benign leaves out a power failure during the format,     *)
(* which the inserter does on the host; the boot makes no delete.          *)
(***************************************************************************)

\* NoCrossLink for the boot: the directory and the file that kernel_setup puts below
\* clusters it knows by number only, at every boot again, link no cluster twice
\* (kernel.c:80-104).
THEOREM BootNoCrossLink == Benign /\ Fits => (BootSpec => []NoCrossLink)
<1> SUFFICES ASSUME Benign, Fits PROVE BootSpec => []NoCrossLink
  OBVIOUS
<1>1. BootInv => NoCrossLink
  BY TreeInvSafe DEF BootInv
<1>2. QED
  BY BootInitInv, BootKept, <1>1, PTL DEF BootSpec

\* FilesWhole for the boot: the parent's table of kano2 and of daijoubu.uwu is written
\* over no block of a file, the shell's or an earlier daijoubu.uwu's (kernel.c:80-104).
THEOREM BootFilesWhole == Benign /\ Fits => (BootSpec => []FilesWhole)
<1> SUFFICES ASSUME Benign, Fits PROVE BootSpec => []FilesWhole
  OBVIOUS
<1>1. BootInv => FilesWhole
  BY TreeInvSafe DEF BootInv
<1>2. QED
  BY BootInitInv, BootKept, <1>1, PTL DEF BootSpec

\* What every boot jumps into is the shell that was inserted, in a page of the user's,
\* at however many boots before this one and wherever in them the power failed.
THEOREM ShellLoadedAlways == Benign /\ Fits => (BootSpec => []ShellLoaded)
<1> SUFFICES ASSUME Benign, Fits PROVE BootSpec => []ShellLoaded
  OBVIOUS
<1>1. ASSUME BootInv
      PROVE  ShellLoaded
  <2>1. SUFFICES ASSUME who = "shell"
                 PROVE  /\ page_directory[0].user
                        /\ page_directory[0].frame # page_directory[KERNEL_PAGE].frame
    BY <1>1 DEF ShellLoaded, BootInv, ShellRead
  <2>2. page_directory = [StartDirectory EXCEPT ![0] = UserEntry(1)]
    BY <1>1, <2>1 DEF BootInv, Mapped
  <2>3. 0 \in Page /\ KERNEL_PAGE \in Page /\ KERNEL_PAGE # 0
    BY PageAssumption DEF Page
  <2>4. page_directory[0] = UserEntry(1) /\ page_directory[KERNEL_PAGE] = KernelEntry
    BY <2>2, <2>3 DEF StartDirectory
  <2>5. QED
    BY <2>4 DEF UserEntry, KernelEntry
<1>2. QED
  BY BootInitInv, BootKept, <1>1, PTL DEF BootSpec

\* SelfEntryKept for the boot: the numbers that kernel_setup has for directories never
\* make it write an entry over a directory's own while the table has room.
THEOREM BootSelfEntryKept == Benign /\ Fits => (BootSpec => SelfEntryKept)
<1> SUFFICES ASSUME Benign, Fits PROVE BootSpec => SelfEntryKept
  OBVIOUS
<1> DEFINE Kept == \A d \in Directories(Shown) \cap Directories(Shown') :
                      (IsSelfEntry(Shown, d, 0) /\ ~IsSelfEntry(Shown', d, 0))
                         => \A s \in Slot : Used(table[d][s])
<1>1. ASSUME BootInv, [BootNext]_machine
      PROVE  [Kept]_vars
  <2>1. BootInv' /\ TreeInv
    BY <1>1, BootKept DEF BootInv
  <2>2. CASE Next
    BY <2>1, <2>2, SelfEntryStep
  <2>3. CASE UNCHANGED table
    <3>1. Shown' = Shown
      BY <1>1, <2>1, <2>3 DEF BootInv, Shown
    <3>2. QED
      BY <3>1 DEF IsSelfEntry
  <2>4. Next \/ UNCHANGED table
    <3>1. CASE Start \/ Serve \/ BootPowerFails
      BY <3>1 DEF Start, Serve, BootPowerFails, Next
    <3>2. ASSUME NEW d, NEW n, NEW size, NEW p, Read(d, n, size) \/ Write(d, n, size, p)
          PROVE  UNCHANGED table
      BY <3>2 DEF Read, ReadChain, Write, MakeDirectory, MakeFile, Reply, disk
    <3>3. CASE InsertShell \/ MakeExamples \/ RunShell
      BY <3>2, <3>3 DEF InsertShell, MakeExamples, Example, RunShell
    <3>4. CASE SaveImage \/ AllocateUserPage \/ UNCHANGED machine
      BY <3>4 DEF SaveImage, AllocateUserPage, machine, vars, disk
    <3>5. QED
      BY <1>1, <3>1, <3>3, <3>4 DEF BootNext, Work
  <2>5. QED
    BY <2>2, <2>3, <2>4
<1>2. QED
  BY BootInitInv, BootKept, <1>1, PTL DEF BootSpec, SelfEntryKept

(***************************************************************************)
(* The shell's copy of its directory stack, whatever the driver answers.   *)
(***************************************************************************)
\* The copy is the stack as it was when the line was typed.
Copied == saved = home

\* Both are the root at first.
LEMMA CopiedInit == ShellInit => Copied
BY DEF ShellInit, Copied

\* No step but the typing of a line writes the copy.
LEMMA ExecuteKeepsCopy == Execute => UNCHANGED <<saved, home>>
<1> SUFFICES ASSUME Execute PROVE UNCHANGED <<saved, home>>
  OBVIOUS
<1>1. CASE MakeDirectoryCommand \/ CatCommand \/ RemoveCommand \/ GiveUp
  BY <1>1 DEF MakeDirectoryCommand, CatCommand, RemoveCommand, GiveUp, EndsWith
<1>2. CASE CopyFolder \/ EnterCopy \/ CopyFile \/ WriteCopy \/ LeaveCopy
  BY <1>2 DEF CopyFolder, EnterCopy, CopyFile, WriteCopy, LeaveCopy, Goes
<1>3. CASE Restore \/ CopyCommand \/ FindSource \/ MoveCommand
  BY <1>3 DEF Restore, CopyCommand, FindSource, MoveCommand
<1>4. CASE (Work \/ MoveSource \/ MoveDest) /\ UNCHANGED shellVars
  BY <1>4 DEF shellVars
<1>5. QED
  BY <1>1, <1>2, <1>3, <1>4 DEF Execute

\* Every step keeps them equal.
LEMMA CopiedNext == Copied /\ [ShellNext]_all => Copied'
<1>1. Type /\ Copied => Copied'
  BY DEF Type, Copied
<1>2. Execute /\ Copied => Copied'
  BY ExecuteKeepsCopy DEF Copied
<1>3. UNCHANGED all /\ Copied => Copied'
  BY DEF all, shellVars, Copied
<1>4. QED
  BY <1>1, <1>2, <1>3 DEF ShellNext

\* The prompt comes back in the directory the line was typed in, whatever path
\* a command has walked and whatever the driver has answered; only a mv that
\* gives up leaves the shell elsewhere (user-shell.c:731-745, 1137, 1172).
THEOREM StackKeptAlways == ShellSpec => StackKept
<1>1. Copied /\ [ShellNext]_all =>
        [at # "prompt" /\ at' = "prompt" /\ stack' # home => at \in {"mv", "move"}]_all
  <2> SUFFICES ASSUME Copied, ShellNext, at # "prompt", at' = "prompt", stack' # home
               PROVE  at \in {"mv", "move"}
    OBVIOUS
  <2>1. Execute
    BY DEF ShellNext, Type, Ready
  <2>2. CASE MakeDirectoryCommand \/ CatCommand \/ RemoveCommand
    BY <2>2 DEF MakeDirectoryCommand, CatCommand, RemoveCommand, EndsWith
  <2>3. CASE CopyFolder \/ EnterCopy \/ CopyFile \/ WriteCopy \/ LeaveCopy
    BY <2>3 DEF CopyFolder, EnterCopy, CopyFile, WriteCopy, LeaveCopy, Goes
  <2>4. CASE CopyCommand \/ FindSource \/ MoveCommand
    BY <2>4 DEF CopyCommand, FindSource, MoveCommand
  <2>5. CASE Restore
    BY <2>5 DEF Restore, Copied
  <2>6. CASE GiveUp
    BY <2>6 DEF GiveUp, Ready
  <2>7. CASE (Work \/ MoveSource \/ MoveDest) /\ UNCHANGED shellVars
    BY <2>7 DEF shellVars
  <2>8. QED
    BY <2>1, <2>2, <2>3, <2>4, <2>5, <2>6, <2>7 DEF Execute
<1>2. QED
  BY CopiedInit, CopiedNext, <1>1, PTL DEF ShellSpec, StackKept

(***************************************************************************)
(* whereis.  It goes down the tree by name, so that a path may lead it to  *)
(* another directory than the one it has read, and nothing in it bounds    *)
(* the paths: that it ends, and misses nothing, is the tree's doing.       *)
(***************************************************************************)
\* Whether it prints the directory of path s, and the directories it goes on with.
Holding(s, n) == \E t \in TablesOf(Listed(s)) : Hits(t, n) # {}
Subfolders(s)     == FoldersOf(TablesOf(Listed(s)), Slot \ {0})

\* A function as the definition of WhereIs wants it.
Round(n, P, s) ==
    {Top(s).cluster : t \in {t \in TablesOf(Listed(s)) : Hits(t, n) # {}}}
      \cup UNION {P[Into(s, e)] : e \in Subfolders(s)}
IsPrinted(n, P) == P = [s \in Paths |-> Round(n, P, s)]

\* A directory's entry in a table.
LEMMA FolderType ==
    ASSUME NEW t \in Table, NEW k \in Slot, t[k].attribute = "dir"
    PROVE  t[k] \in UsedEntry /\ t[k].cluster \in Cluster
BY DEF Table, UsedEntry, FreeEntry

\* What is listed are directories' clusters, and what is read are tables.
LEMMA TablesRead ==
    ASSUME table \in [Cluster -> Table], NEW s \in Paths
    PROVE  Listed(s) \subseteq Cluster /\ TablesOf(Listed(s)) \subseteq Table
<1>1. Above(s) \in Cluster
  <2>1. CASE Len(s) <= 1
    BY <2>1, CellRanges DEF Above
  <2>2. CASE ~(Len(s) <= 1)
    <3>1. Len(s) - 1 \in 1 .. Len(s)
      BY <2>2, LenProperties DEF Paths
    <3>2. s[Len(s) - 1] \in [cluster : Cluster, name : Names \cup {RootName}]
      BY <3>1, ElementOfSeq DEF Paths
    <3>3. QED
      BY <2>2, <3>2 DEF Above
  <2>3. QED
    BY <2>1, <2>2
<1>2. Listed(s) \subseteq Cluster
  BY <1>1, FolderType DEF Listed, FolderAt, FirstFolder, Folders
<1>3. Garbage \subseteq Table
  BY DirectoriesAre, EmptyTypes DEF Garbage
<1>4. QED
  BY <1>2, <1>3 DEF TablesOf

\* Paths go on as paths.
LEMMA PathGoesOn ==
    ASSUME table \in [Cluster -> Table], NEW s \in Paths, NEW e \in Subfolders(s)
    PROVE  Into(s, e) \in Paths
<1>1. PICK t \in TablesOf(Listed(s)), k \in Slot : e = t[k] /\ e.attribute = "dir"
  BY DEF Subfolders, FoldersOf
<1>2. t \in Table
  BY <1>1, TablesRead
<1>3. e \in UsedEntry
  BY <1>1, <1>2, FolderType
<1>4. [cluster |-> e.cluster, name |-> e.name] \in [cluster : Cluster, name : Names \cup {RootName}]
  BY <1>3 DEF UsedEntry
<1>5. QED
  BY <1>4, AppendProperties DEF Into, Paths

\* What a round says of one cluster.
LEMMA RoundIs ==
    ASSUME NEW n, NEW P, NEW s, NEW c
    PROVE  c \in Round(n, P, s) <=>
              (Holding(s, n) /\ c = Top(s).cluster) \/ \E e \in Subfolders(s) : c \in P[Into(s, e)]
<1> DEFINE T == {t \in TablesOf(Listed(s)) : Hits(t, n) # {}}
           A == {Top(s).cluster : t \in T}
           B == UNION {P[Into(s, e)] : e \in Subfolders(s)}
<1>1. T # {} <=> Holding(s, n)
  BY DEF Holding
<1>2. c \in B <=> \E e \in Subfolders(s) : c \in P[Into(s, e)]
  OBVIOUS
<1>3. c \in A <=> T # {} /\ c = Top(s).cluster
  <2> HIDE DEF T
  <2>1. QED
    OBVIOUS
<1>4. Round(n, P, s) = A \cup B
  BY DEF Round
<1> HIDE DEF A, B, T
<1>5. QED
  BY <1>1, <1>2, <1>3, <1>4

\* There is such a function: the least one.
LEMMA PrintedExists ==
    ASSUME table \in [Cluster -> Table], NEW n
    PROVE  \E P : IsPrinted(n, P)
<1> DEFINE Prints(c, X, s) == \/ Holding(s, n) /\ c = Top(s).cluster
                              \/ \E e \in Subfolders(s) : Into(s, e) \in X
           Whole(c, X)     == \A s \in Paths : Prints(c, X, s) => s \in X
           Least(c)        == {s \in Paths : \A X \in SUBSET Paths : Whole(c, X) => s \in X}
           All             == {Top(s).cluster : s \in Paths}
           P == [s \in Paths |-> {c \in All : s \in Least(c)}]
<1>1. ASSUME NEW c, NEW s \in Paths, Prints(c, Least(c), s)
      PROVE  s \in Least(c)
  BY <1>1
<1>2. ASSUME NEW c, NEW s \in Least(c)
      PROVE  Prints(c, Least(c), s)
  <2> DEFINE Y == {r \in Paths : Prints(c, Least(c), r)}
  <2>1. Y \in SUBSET Least(c)
    BY <1>1
  <2>2. Whole(c, Y)
    BY <2>1
  <2>3. s \in Y
    BY <2>2
  <2>4. QED
    BY <2>3
<1>3. ASSUME NEW s \in Paths, NEW c
      PROVE  c \in Round(n, P, s) <=> c \in All /\ Prints(c, Least(c), s)
  <2>1. \A e \in Subfolders(s) : Into(s, e) \in Paths
    BY PathGoesOn
  <2> HIDE DEF Least
  <2>2. \A e \in Subfolders(s) : c \in P[Into(s, e)] <=> c \in All /\ Into(s, e) \in Least(c)
    BY <2>1
  <2>3. c \in Round(n, P, s) <=> \/ Holding(s, n) /\ c = Top(s).cluster
                                \/ \E e \in Subfolders(s) : c \in P[Into(s, e)]
    BY RoundIs
  <2>4. Top(s).cluster \in All
    OBVIOUS
  <2> HIDE DEF P, All
  <2>5. QED
    BY <2>2, <2>3, <2>4
<1>4. ASSUME NEW s \in Paths
      PROVE  P[s] = Round(n, P, s)
  <2>1. \A c : c \in P[s] <=> c \in All /\ s \in Least(c)
    BY DEF P
  <2>2. \A c : s \in Least(c) <=> Prints(c, Least(c), s)
    BY <1>1, <1>2
  <2> HIDE DEF P, All, Least, Prints
  <2>3. QED
    BY <1>3, <2>1, <2>2
<1>5. IsPrinted(n, P)
  <2> DEFINE F(s) == {c \in All : s \in Least(c)}
  <2>1. \A s \in Paths : F(s) = Round(n, P, s)
    BY <1>4
  <2>2. P = [s \in Paths |-> F(s)]
    OBVIOUS
  <2> HIDE DEF P, F
  <2>3. QED
    BY <2>1, <2>2 DEF IsPrinted
<1>6. QED
  BY <1>5

\* Directory c is in one of the slots that whereis goes through.
Child(d, c) == \E k \in Slot \ {0} : table[d][k].attribute = "dir" /\ table[d][k].cluster = c

\* Path s leads the lookup by name to directory d, and so on down from it.
Leads(s, d) ==
    /\ s \in Paths /\ s # <<>> /\ Top(s).cluster = d
    /\ d \in Directories(table) /\ Listed(s) = {d}

\* A directory of a name that no other has is the one that is found.
LEMMA FoundByName ==
    ASSUME NEW d, Distinct(d), NEW k \in Slot, table[d][k].attribute = "dir"
    PROVE  FolderAt(d, table[d][k].name) = {table[d][k].cluster}
<1> DEFINE n == table[d][k].name
<1>1. \A r \in Slot : table[d][r].name = n /\ table[d][r].attribute = "dir" <=> r = k
  BY DEF Distinct, Used
<1>2. Folders(table[d], n) = {k}
  BY <1>1 DEF Folders
<1>3. \A s \in Slot : FirstFolder(table[d], n, s) <=> s = k
  BY <1>2, k <= k DEF FirstFolder, Slot
<1> HIDE DEF n
<1>4. QED
  BY <1>3 DEF FolderAt, n

\* The root is found as long as it has its own entry.
LEMMA RootLeads ==
    ASSUME table \in [Cluster -> Table], RootListed
    PROVE  Leads(RootStack, ROOT_CLUSTER_NUMBER)
<1> DEFINE R == ROOT_CLUSTER_NUMBER
           Found == {s \in Slot : FirstFolder(table[R], RootName, s)}
<1>1. RootStack \in Paths /\ RootStack # <<>> /\ Len(RootStack) = 1
  BY CellRanges DEF RootStack, Paths
<1>2. Top(RootStack).cluster = R /\ Top(RootStack).name = RootName /\ Above(RootStack) = R
  BY <1>1 DEF Top, Above, RootStack
<1>3. \A s, r \in Found : s = r
  BY DEF FirstFolder, Folders, Slot
<1>4. FolderAt(R, RootName) = {R}
  <2>1. FolderAt(R, RootName) = {table[R][s].cluster : s \in Found}
    BY DEF FolderAt
  <2> HIDE DEF Found
  <2>2. QED
    BY <1>3, <2>1 DEF RootListed
<1>5. Listed(RootStack) = {R}
  BY <1>2, <1>4 DEF Listed
<1>6. QED
  BY <1>1, <1>2, <1>5, DirectoriesAre DEF Leads

\* Where whereis goes on from d.
LEMMA GoesOn ==
    ASSUME NEW s, NEW d, Leads(s, d)
    PROVE  \A e : e \in Subfolders(s) <=>
              \E k \in Slot \ {0} : e = table[d][k] /\ table[d][k].attribute = "dir"
<1>1. TablesOf(Listed(s)) = {table[d]}
  BY DEF Leads, TablesOf
<1>2. QED
  BY <1>1 DEF Subfolders, FoldersOf

\* The path to a directory of d leads to it.
LEMMA PathLeads ==
    ASSUME table \in [Cluster -> Table], NEW s, NEW d, Leads(s, d), Distinct(d),
           NEW k \in Slot \ {0}, table[d][k].attribute = "dir"
    PROVE  /\ table[d][k] \in Subfolders(s)
           /\ Leads(Into(s, table[d][k]), table[d][k].cluster)
<1> DEFINE e == table[d][k]
           r == Into(s, e)
           x == [cluster |-> e.cluster, name |-> e.name]
<1>1. e \in Subfolders(s)
  BY GoesOn
<1>2. s \in Paths /\ s # <<>> /\ Top(s).cluster = d /\ d \in Directories(table)
  BY DEF Leads
<1>3. r \in Paths
  BY <1>1, <1>2, PathGoesOn
<1>4. e.cluster \in Directories(table)
  BY <1>2, DirectoriesAre DEF Closed
<1>5. Len(r) = Len(s) + 1 /\ r[Len(r)] = x /\ r[Len(r) - 1] = s[Len(s)] /\ Len(s) \in Nat \ {0}
  <2> HIDE DEF x
  <2>1. r = Append(s, x)
    BY DEF Into, x
  <2>2. s \in Seq([cluster : Cluster, name : Names \cup {RootName}])
    BY <1>2 DEF Paths
  <2>3. Len(s) \in Nat \ {0}
    BY <1>2, <2>2, EmptySeq, LenProperties
  <2> HIDE DEF r
  <2>4. QED
    BY <2>1, <2>2, <2>3
<1>6. Top(r) = x /\ Above(r) = d /\ r # <<>>
  <2> HIDE DEF r, x
  <2>1. Top(r) = x
    BY <1>5 DEF Top
  <2>2. ~(Len(r) <= 1) /\ Len(r) # 0
    BY <1>5
  <2>3. Above(r) = d
    BY <1>2, <1>5, <2>2 DEF Above, Top
  <2>4. QED
    BY <2>1, <2>2, <2>3
<1>7. Listed(r) = {e.cluster}
  <2>1. FolderAt(d, e.name) = {e.cluster}
    BY FoundByName
  <2> HIDE DEF r
  <2>2. QED
    BY <1>6, <2>1 DEF Listed
<1>8. QED
  <2> HIDE DEF r
  <2>1. Leads(r, e.cluster)
    BY <1>3, <1>4, <1>6, <1>7 DEF Leads
  <2>2. QED
    BY <1>1, <2>1 DEF r

\* In a tree no way down from the root goes on for ever: of finitely many
\* directories each would have one below it, no two the same, and none the root.
LEMMA NoWayDown ==
    ASSUME table \in [Cluster -> Table], NEW f, NEW b, Tree(f, table, b),
           NEW B \in SUBSET Directories(table), ROOT_CLUSTER_NUMBER \in B
    PROVE  \E d \in B : \A c \in B : ~Child(d, c)
<1> SUFFICES ASSUME \A d \in B : \E c \in B : Child(d, c)
             PROVE  FALSE
  OBVIOUS
<1> DEFINE R == ROOT_CLUSTER_NUMBER
           g == [d \in B |-> CHOOSE c \in B : Child(d, c)]
<1>1. \A d \in B : g[d] \in B /\ Child(d, g[d])
  OBVIOUS
<1>2. ASSUME NEW d \in B, NEW c, Child(d, c)
      PROVE  \E o \in Owners(table) : o[1] = d /\ HasChain(f, table, o) /\ ItsEntry(table, o).cluster = c
  <2>1. PICK k \in Slot \ {0} : table[d][k].attribute = "dir" /\ table[d][k].cluster = c
    BY <1>2 DEF Child
  <2>2. <<d, k>> \in Directories(table) \X Slot /\ ItsEntry(table, <<d, k>>) = table[d][k]
    BY DEF ItsEntry
  <2>3. <<d, k>> \in Owners(table)
    BY <2>1, <2>2, OwnerIs DEF Used, IsSelfEntry
  <2>4. QED
    BY <2>1, <2>2, <2>3 DEF Tree
<1>3. ASSUME NEW d \in B, NEW c, Child(d, c)
      PROVE  c # R
  <2>1. PICK o \in Owners(table) : HasChain(f, table, o) /\ ItsEntry(table, o).cluster = c
    BY <1>2, <1>3
  <2>2. QED
    BY <2>1, ChainCells DEF HasChain, NoRoot
<1>4. ASSUME NEW d1 \in B, NEW d2 \in B, NEW c, Child(d1, c), Child(d2, c)
      PROVE  d1 = d2
  <2>1. PICK o1 \in Owners(table) : o1[1] = d1 /\ HasChain(f, table, o1) /\ ItsEntry(table, o1).cluster = c
    BY <1>2, <1>4
  <2>2. PICK o2 \in Owners(table) : o2[1] = d2 /\ HasChain(f, table, o2) /\ ItsEntry(table, o2).cluster = c
    BY <1>2, <1>4
  <2>3. ~Apart(ItsChain(f, table, o1), ItsChain(f, table, o2))
    BY <2>1, <2>2, ChainCells DEF HasChain, Apart
  <2>4. o1 = o2
    BY <2>3 DEF Tree
  <2>5. QED
    BY <2>1, <2>2, <2>4
<1> HIDE DEF g
<1>5. g \in Injection(B, B \ {R})
  <2>1. g \in [B -> B \ {R}]
    BY <1>1, <1>3 DEF g
  <2>2. IsInjective(g)
    BY <1>1, <1>4, <2>1 DEF IsInjective
  <2>3. QED
    BY <2>1, <2>2 DEF Injection
<1>6. IsFiniteSet(B)
  <2>1. B \in SUBSET Cluster
    BY DirectoriesAre
  <2>2. QED
    BY <2>1, CellRanges, FS_Subset
<1>7. /\ IsFiniteSet(B \ {R}) /\ Cardinality(B \ {R}) = Cardinality(B) - 1
      /\ Cardinality(B) \in Nat
  BY <1>6, FS_RemoveElement, FS_CardinalityType
<1>8. Cardinality(B) <= Cardinality(B \ {R})
  BY <1>5, <1>7, FS_Injection
<1>9. QED
  BY <1>7, <1>8

\* In a tree whereis prints the directories that hold the name, and ends.
LEMMA PrintsAll ==
    ASSUME table \in [Cluster -> Table], NEW f, NEW b, Tree(f, table, b), RootListed,
           \A d \in Directories(table) : Clear(d),
           NEW n, NEW P, IsPrinted(n, P)
    PROVE  P[RootStack] = {d \in Directories(table) : Hits(table[d], n) # {}}
<1> DEFINE D == Directories(table)
           R == ROOT_CLUSTER_NUMBER
           H(d) == Hits(table[d], n) # {}
<1>1. ASSUME NEW s, NEW d, Leads(s, d), NEW c
      PROVE  c \in P[s] <=> (H(d) /\ c = d) \/ \E e \in Subfolders(s) : c \in P[Into(s, e)]
  <2>1. s \in Paths /\ Top(s).cluster = d /\ TablesOf(Listed(s)) = {table[d]}
    BY <1>1 DEF Leads, TablesOf
  <2>2. P[s] = Round(n, P, s)
    BY <2>1 DEF IsPrinted
  <2>3. Holding(s, n) <=> H(d)
    BY <2>1 DEF Holding
  <2>4. QED
    BY <2>1, <2>2, <2>3, RoundIs
<1>2. Leads(RootStack, R)
  BY RootLeads
<1>3. ASSUME NEW d \in D, H(d)
      PROVE  d \in P[RootStack]
  <2> DEFINE X == {x \in D : \E s : Leads(s, x) /\ P[s] \subseteq P[RootStack]}
  <2>1. X \in SUBSET Cluster /\ R \in X
    BY <1>2, DirectoriesAre
  <2>2. ASSUME NEW x \in X, NEW k \in Slot, table[x][k].attribute = "dir"
        PROVE  table[x][k].cluster \in X
    <3>1. CASE k = 0
      BY <2>2, <3>1 DEF Clear, IsSelfEntry
    <3>2. CASE k # 0
      <4>1. PICK s : Leads(s, x) /\ P[s] \subseteq P[RootStack]
        OBVIOUS
      <4>2. /\ table[x][k] \in Subfolders(s)
            /\ Leads(Into(s, table[x][k]), table[x][k].cluster)
        BY <2>2, <3>2, <4>1, PathLeads DEF Clear
      <4>3. P[Into(s, table[x][k])] \subseteq P[RootStack]
        BY <1>1, <4>1, <4>2
      <4>4. QED
        BY <4>2, <4>3 DEF Leads
    <3>3. QED
      BY <3>1, <3>2
  <2>3. D \subseteq X
    BY <2>1, <2>2, DirectoriesAre DEF Closed
  <2>4. PICK s : Leads(s, d) /\ P[s] \subseteq P[RootStack]
    BY <2>3
  <2>5. QED
    BY <1>1, <1>3, <2>4
<1>4. ASSUME NEW c \in P[RootStack]
      PROVE  c \in D /\ H(c)
  <2> SUFFICES ASSUME ~(c \in D /\ H(c)) PROVE FALSE
    OBVIOUS
  <2> DEFINE B == {d \in D : \E s : Leads(s, d) /\ c \in P[s]}
  <2>1. B \in SUBSET D /\ R \in B
    BY <1>2 DEF Leads
  <2>2. ASSUME NEW d \in B
        PROVE  \E x \in B : Child(d, x)
    <3>1. PICK s : Leads(s, d) /\ c \in P[s]
      OBVIOUS
    <3>2. PICK e \in Subfolders(s) : c \in P[Into(s, e)]
      BY <1>1, <3>1
    <3>3. PICK k \in Slot \ {0} : e = table[d][k] /\ table[d][k].attribute = "dir"
      BY <3>1, <3>2, GoesOn
    <3>4. Leads(Into(s, e), e.cluster)
      BY <3>1, <3>3, PathLeads DEF Clear
    <3>5. e.cluster \in B
      BY <3>2, <3>4 DEF Leads
    <3>6. QED
      BY <3>3, <3>5 DEF Child
  <2> HIDE DEF B
  <2>3. QED
    BY <2>1, <2>2, NoWayDown
<1>5. QED
  BY <1>3, <1>4

\* Between two calls, where the disk has a tree.
LEMMA TreeFound ==
    ASSUME TreeInv, pc = "idle"
    PROVE  WhereIsComplete
<1>1. table \in [Cluster -> Table] /\ Tree(diskFat, table, data)
  <2>1. call.op # "delete"
    BY DEF TreeInv, Deleting
  <2>2. QED
    BY <2>1, TreeTypes DEF TreeInv
<1> SUFFICES ASSUME RootListed, \A d \in Directories(table) : Clear(d), NEW n \in Names
             PROVE  WhereIs(n) = {d \in Directories(table) : Hits(table[d], n) # {}}
  BY DEF WhereIsComplete
<1> DEFINE P == CHOOSE Q : IsPrinted(n, Q)
<1>2. IsPrinted(n, P)
  BY <1>1, PrintedExists
<1>3. WhereIs(n) = P[RootStack]
  BY DEF WhereIs, IsPrinted, Round, Subfolders
<1> HIDE DEF P
<1>4. QED
  BY <1>1, <1>2, <1>3, PrintsAll

\* On every disk that calls with live directories leave, wherever the power fails but
\* in a delete or the format, whereis ends and misses no directory that holds the name
\* (user-shell.c:268-376).
THEOREM WhereIsCompleteAlways == Benign => (Spec => []WhereIsComplete)
<1> SUFFICES ASSUME Benign PROVE Spec => []WhereIsComplete
  OBVIOUS
<1>1. TreeInv => WhereIsComplete
  BY TreeFound DEF WhereIsComplete
<1>2. QED
  BY TreeInit, TreeNext, <1>1, PTL DEF Spec

\* So on every disk a boot leaves, also one that was cut off (kernel.c:54-131).
THEOREM BootWhereIsComplete == Benign /\ Fits => (BootSpec => []WhereIsComplete)
<1> SUFFICES ASSUME Benign, Fits PROVE BootSpec => []WhereIsComplete
  OBVIOUS
<1>1. BootInv => WhereIsComplete
  BY TreeFound DEF BootInv, WhereIsComplete
<1>2. QED
  BY BootInitInv, BootKept, <1>1, PTL DEF BootSpec

\* And after moves from one directory to another while no table is full: what is moved
\* is found where it came to lie, there only (interrupt.c:95-137).
THEOREM MoveWhereIsComplete ==
    ASSUME Benign, "same" \notin Moves
    PROVE  MoveSpec /\ []Room => []WhereIsComplete
<1>1. TreeMoveInv => WhereIsComplete
  BY TreeFound DEF TreeMoveInv, Moving, WhereIsComplete
<1>2. TreeMoveInv /\ Room /\ [MoveNext]_moveVars => TreeMoveInv'
  BY TreeMoveNext
<1>3. QED
  BY TreeMoveInit, <1>1, <1>2, PTL DEF MoveSpec
=============================================================================
