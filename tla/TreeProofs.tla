----------------------------- MODULE TreeProofs -----------------------------
(***************************************************************************)
(* The tree of directories and files on the disk of Fat32: theorems for    *)
(* every size of the FAT and of the tables, every set of names, payloads   *)
(* and lengths.                                                            *)
(***************************************************************************)
EXTENDS TreeLemmas

\* Where the tree is safe: the power does not fail in a delete, which leaves an
\* entry over cleared clusters, nor in the format, which signs the disk first;
\* and no file of one cluster is deleted, which walks off the FAT.
Benign ==
    /\ PowerFailsIn \subseteq {"idle", "mkdir", "file"}
    /\ "delete" \in Requests => \A n \in Lengths : n > 1

(***************************************************************************)
(* The invariant.                                                          *)
(***************************************************************************)
Reserved(f) == \A c \in 0 .. ROOT_CLUSTER_NUMBER : f[c] # FAT32_FAT_EMPTY_ENTRY

\* The format: the disk is signed, then has a FAT, then a root; until then no table.
FormatOrder ==
    /\ pc # "off" => signature /\ Reserved(fat)
    /\ signature /\ pc # "format_fat" => Reserved(diskFat)
    /\ ~signature \/ pc \in {"format_fat", "format_root"} =>
          table = [c \in Cluster |-> EmptyTable]

\* Memory has every chain of the tree as the disk has it.
Remembered ==
    pc # "off" =>
       \A o \in Owners(Shown) : \A k \in DOMAIN ItsChain(diskFat, Shown, o) :
          fat[ItsChain(diskFat, Shown, o)[k]] = diskFat[ItsChain(diskFat, Shown, o)[k]]

\* The clusters of q are none of the tree's.
Spare(q) == NoRoot(q) /\ \A o \in Owners(Shown) : Apart(q, ItsChain(diskFat, Shown, o))

\* No file of the tree has cluster c.
OffFiles(c) ==
    \A o \in Owners(Shown) :
       ItsEntry(Shown, o).attribute = "file" => Apart(<<c>>, ItsChain(diskFat, Shown, o))

\* What a write prepares: an entry for a chain of spare clusters, which is in
\* memory at once and on the disk when the parent's table is written.  The parent
\* may be any cluster but a file's: the driver does not ask for a directory.
NewEntry == call.parent[call.slot]
Prepared ==
    /\ call.dir \in Cluster /\ OffFiles(call.dir)
    /\ \A k \in DOMAIN call.chain : call.chain[k] # call.dir
    /\ call.parent = [table[call.dir] EXCEPT ![call.slot] = NewEntry]
    /\ TakesSlot(table[call.dir], call.slot)
    /\ NewEntry.cluster = call.chain[1]
    /\ IsChain(fat, call.chain) /\ Spare(call.chain)
    /\ pc = "flush_parent" => IsChain(diskFat, call.chain)

MakingDirectory ==
    call.op = "mkdir" =>
       /\ pc \in {"new_table", "flush_fat", "flush_parent"}
       /\ NewEntry.attribute = "dir" /\ Len(call.chain) = 1
       /\ pc # "new_table" => /\ table[call.chain[1]] = NewTable(NewEntry.name, call.chain[1])
                              /\ data[call.chain[1]] = NoBlock

MakingFile ==
    call.op = "file" =>
       /\ pc \in {"content", "flush_fat", "flush_parent"}
       /\ NewEntry.attribute = "file" /\ NewEntry.filesize = Len(call.chain)
       /\ Len(call.chain) \in Lengths
       /\ call.payload \in Payloads \X Nat
       /\ \A k \in DOMAIN call.chain :
             pc # "content" \/ k < call.payload[2] => data[call.chain[k]] = <<call.payload[1], k>>

\* What a delete has left of the chain it clears is spare.
Rest == Chain(fat, call.cluster, FAT32_FAT_EMPTY_ENTRY)
Deleting ==
    call.op = "delete" =>
       /\ pc \in {"erase_dir", "erase", "erase_last", "flush_fat", "flush_parent"}
       /\ call.dir \in Cluster /\ OffFiles(call.dir)
       /\ pc \in {"erase_dir", "erase", "erase_last"} =>
             IsChain(fat, Rest) /\ Rest[1] = call.cluster /\ Spare(Rest)
       /\ pc = "erase" => Len(Rest) > 1
       /\ pc = "erase_last" => Len(Rest) = 1

Waiting == call.op = "none" => pc \in {"off", "idle", "lost", "format_fat", "format_root"}

TreeInv ==
    /\ FreshInv
    /\ Tree(diskFat, Shown, data)
    /\ FormatOrder
    /\ Remembered
    /\ call.op \in {"mkdir", "file"} => Prepared
    /\ MakingDirectory
    /\ MakingFile
    /\ Deleting
    /\ Waiting

(***************************************************************************)
(* What the steps have in common.                                          *)
(***************************************************************************)

\* The types of what the tree is made of.
LEMMA TreeTypes ==
    ASSUME FreshInv
    PROVE  /\ diskFat \in [Cell -> FatValue] /\ fat \in [Cell -> FatValue]
           /\ table \in [Cluster -> Table] /\ data \in [Cluster -> Block]
           /\ call \in Calls /\ pc \in Phases
           /\ Shown \in [Cluster -> Table]
           /\ call.op # "delete" => Shown = table
<1>1. /\ diskFat \in [Cell -> FatValue] /\ fat \in [Cell -> FatValue]
      /\ table \in [Cluster -> Table] /\ data \in [Cluster -> Block]
      /\ call \in Calls /\ pc \in Phases
  BY DEF FreshInv, SavedInv, TypeInv, TypeOK
<1>2. call.parent \in Table
  BY <1>1 DEF Calls
<1>3. QED
  BY <1>1, <1>2 DEF Shown

\* Free cells are none of the tree's.
LEMMA FreeSpare ==
    ASSUME TreeInv, pc # "off", NEW q,
           \A i \in DOMAIN q : fat[q[i]] = FAT32_FAT_EMPTY_ENTRY
    PROVE  Spare(q)
<1>1. NoRoot(q)
  BY DEF TreeInv, FormatOrder, Reserved, NoRoot, ROOT_CLUSTER_NUMBER
<1>2. ASSUME NEW o \in Owners(Shown), NEW k \in DOMAIN ItsChain(diskFat, Shown, o)
      PROVE  fat[ItsChain(diskFat, Shown, o)[k]] # FAT32_FAT_EMPTY_ENTRY
  <2>1. IsChain(diskFat, ItsChain(diskFat, Shown, o))
    BY DEF TreeInv, Tree, HasChain
  <2>2. diskFat[ItsChain(diskFat, Shown, o)[k]] # FAT32_FAT_EMPTY_ENTRY
    BY <2>1, ChainCells
  <2>3. QED
    BY <2>2 DEF TreeInv, Remembered
<1>3. QED
  BY <1>1, <1>2 DEF Spare, Apart

\* A directory of the tree is in use, and by no file.
LEMMA DirectoryHeld ==
    ASSUME TreeInv, pc # "off", NEW d \in Directories(Shown)
    PROVE  d \in Cluster /\ OffFiles(d) /\ fat[d] # FAT32_FAT_EMPTY_ENTRY
<1>1. /\ d \in Cluster /\ Shown \in [Cluster -> Table] /\ Tree(diskFat, Shown, data)
      /\ diskFat \in [Cell -> FatValue]
  BY DirectoriesType, TreeTypes DEF TreeInv
<1>2. OffFiles(d)
  BY <1>1, FilesApart DEF OffFiles
<1>3. CASE d = ROOT_CLUSTER_NUMBER
  BY <1>1, <1>2, <1>3 DEF TreeInv, FormatOrder, Reserved, ROOT_CLUSTER_NUMBER
<1>4. CASE d # ROOT_CLUSTER_NUMBER
  <2>1. PICK o \in Owners(Shown) : ItsEntry(Shown, o).cluster = d
    BY <1>1, <1>4, DirectoryOwned
  <2>2. IsChain(diskFat, ItsChain(diskFat, Shown, o)) /\ ItsChain(diskFat, Shown, o)[1] = d
    BY <1>1, <2>1 DEF Tree, HasChain
  <2>3. 1 \in DOMAIN ItsChain(diskFat, Shown, o) /\ diskFat[d] # FAT32_FAT_EMPTY_ENTRY
    BY <2>2, ChainCells
  <2>4. fat[d] = diskFat[d]
    BY <2>2, <2>3 DEF TreeInv, Remembered
  <2>5. QED
    BY <1>1, <1>2, <2>3, <2>4
<1>5. QED
  BY <1>3, <1>4

\* Tables t and blocks b became u and h by writes to cluster x.
Written(t, b, u, h, x) == \A c \in Cluster : c # x => u[c] = t[c] /\ h[c] = b[c]

\* The step leaves the tree as it is: the tables of its directories, and the owners
\* with their chains and blocks.
Unmoved ==
    /\ AllStay(diskFat, Shown, data, diskFat', Shown', data')
    /\ \A d \in Directories(Shown) : Shown'[d] = Shown[d]

\* Writing a cluster that is none of the tree's leaves the tree as it is.
LEMMA SpareWritten ==
    ASSUME NEW f \in [Cell -> FatValue], NEW t \in [Cluster -> Table],
           NEW u \in [Cluster -> Table], NEW b, NEW h, NEW q, NEW i \in DOMAIN q,
           Tree(f, t, b), NoRoot(q), \A o \in Owners(t) : Apart(q, ItsChain(f, t, o)),
           Written(t, b, u, h, q[i])
    PROVE  /\ Tree(f, u, h) /\ q[i] \notin Directories(t)
           /\ Directories(u) = Directories(t) /\ Owners(u) = Owners(t)
           /\ \A o \in Owners(t) : ItsChain(f, u, o) = ItsChain(f, t, o)
           /\ AllStay(f, t, b, f, u, h) /\ \A d \in Directories(t) : u[d] = t[d]
<1>1. q[i] \notin Directories(t)
  BY NotLinked
<1>2. /\ Directories(u) = Directories(t) /\ Owners(u) = Owners(t)
      /\ \A o \in Owners(t) : ItsEntry(u, o) = ItsEntry(t, o)
  <2>1. \A d \in Directories(t) : u[d] = t[d]
    BY <1>1, DirectoriesType DEF Written
  <2>2. QED
    BY <2>1, OwnersAgree
<1>3. AllStay(f, t, b, f, u, h)
  <2>1. ASSUME NEW o \in Owners(t), NEW k \in DOMAIN ItsChain(f, t, o)
        PROVE  h[ItsChain(f, t, o)[k]] = b[ItsChain(f, t, o)[k]]
    <3>1. IsChain(f, ItsChain(f, t, o))
      BY DEF Tree, HasChain
    <3>2. ItsChain(f, t, o)[k] \in Cluster
      BY <3>1, ChainCells
    <3>3. ItsChain(f, t, o)[k] # q[i]
      BY DEF Apart
    <3>4. QED
      BY <3>2, <3>3 DEF Written
  <2>2. QED
    BY <1>2, <2>1 DEF AllStay, Stays
<1>4. \A d \in Directories(t) : u[d] = t[d]
  BY <1>1, DirectoriesType DEF Written
<1>5. QED
  BY <1>1, <1>2, <1>3, <1>4, TreeKept

\* Between two calls the invariant is about the tree and the FATs only.
LEMMA AtRest ==
    ASSUME FreshInv', call' = NoCall, Tree(diskFat', table', data'), FormatOrder',
           pc' \in {"off", "idle", "lost", "format_fat", "format_root"},
           pc' # "off" =>
              \A o \in Owners(table') : \A k \in DOMAIN ItsChain(diskFat', table', o) :
                 fat'[ItsChain(diskFat', table', o)[k]] = diskFat'[ItsChain(diskFat', table', o)[k]]
    PROVE  TreeInv'
<1>1. call'.op = "none"
  BY DEF NoCall
<1>2. Shown' = table'
  BY <1>1 DEF Shown
<1>3. Tree(diskFat, Shown, data)' /\ Remembered'
  BY <1>2 DEF Remembered
<1>4. QED
  BY <1>1, <1>3 DEF TreeInv, MakingDirectory, MakingFile, Deleting, Waiting

\* What is known when the machine waits for a call.
LEMMA WhenIdle ==
    ASSUME TreeInv, pc \in {"off", "idle", "lost", "format_fat", "format_root"}
    PROVE  call = NoCall /\ call.op = "none" /\ Shown = table /\ Tree(diskFat, table, data)
<1>1. call = NoCall
  BY DEF TreeInv, FreshInv, Fresh
<1>2. QED
  BY <1>1 DEF NoCall, Shown, TreeInv

(***************************************************************************)
(* Power and the format.                                                   *)
(***************************************************************************)

\* At first there is no tree.
LEMMA TreeInit == Init => TreeInv
<1> SUFFICES ASSUME Init PROVE TreeInv
  OBVIOUS
<1>1. FreshInv
  BY FreshInit
<1>2. call.op = "none" /\ Shown = table /\ pc = "off" /\ ~signature /\ table = [c \in Cluster |-> EmptyTable]
  BY DEF Init, NoCall, Shown
<1>3. Tree(diskFat, table, data)
  <2>1. \A c \in Cluster, s \in Slot : ~Used(table[c][s])
    BY <1>2 DEF EmptyTable, FreeEntry, Used
  <2>2. QED
    BY <1>1, <2>1, TreeTypes, EmptyTree
<1>4. QED
  BY <1>1, <1>2, <1>3
     DEF TreeInv, FormatOrder, Remembered, MakingDirectory, MakingFile, Deleting, Waiting

\* Boot loads the FAT of the disk.
LEMMA TreeMount == TreeInv /\ FreshInv' /\ MountSigned => TreeInv'
<1> SUFFICES ASSUME TreeInv, FreshInv', MountSigned PROVE TreeInv'
  OBVIOUS
<1>1. call' = NoCall /\ Tree(diskFat', table', data')
  BY WhenIdle DEF MountSigned, disk
<1>2. FormatOrder'
  BY DEF MountSigned, disk, TreeInv, FormatOrder
<1>3. QED
  BY <1>1, <1>2, AtRest DEF MountSigned, disk

\* The disk gets its FAT and its root directory while it holds no table.
LEMMA TreeFormat == TreeInv /\ FreshInv' /\ (SignDisk \/ FormatFat \/ FormatRoot) => TreeInv'
<1> SUFFICES ASSUME TreeInv, FreshInv', SignDisk \/ FormatFat \/ FormatRoot PROVE TreeInv'
  OBVIOUS
<1>1. pc \in {"off", "format_fat", "format_root"}
  BY DEF SignDisk, FormatFat, FormatRoot
<1>2. call' = NoCall
  BY <1>1, WhenIdle DEF SignDisk, FormatFat, FormatRoot
<1>3. table = [c \in Cluster |-> EmptyTable]
  BY DEF TreeInv, FormatOrder, SignDisk, FormatFat, FormatRoot
<1>4. \A c \in Cluster, s \in Slot : Used(table'[c][s]) => IsSelfEntry(table', c, s)
  <2>1. \A s \in Slot : ~Used(EmptyTable[s])
    BY DEF EmptyTable, FreeEntry, Used
  <2>2. CASE SignDisk \/ FormatFat
    BY <2>1, <2>2, <1>3 DEF SignDisk, FormatFat
  <2>3. CASE FormatRoot
    <3> DEFINE r == NewTable(RootName, ROOT_CLUSTER_NUMBER)
    <3>1. table' = [table EXCEPT ![ROOT_CLUSTER_NUMBER] = r]
      BY <2>3 DEF FormatRoot
    <3>2. \A s \in Slot : s # 0 => r[s] = EmptyTable[s]
      BY DEF NewTable, EmptyTable
    <3>3. r[0].attribute = "dir" /\ r[0].cluster = ROOT_CLUSTER_NUMBER
      BY Ranges DEF NewTable, EmptyTable
    <3> HIDE DEF r
    <3>4. QED
      BY <1>3, <2>1, <3>1, <3>2, <3>3, Ranges DEF IsSelfEntry
  <2>4. QED
    BY <2>2, <2>3
<1>5. table' \in [Cluster -> Table]
  BY DEF FreshInv, SavedInv, TypeInv, TypeOK
<1>6. Owners(table') = {} /\ Tree(diskFat', table', data')
  BY <1>4, <1>5, EmptyTree
<1>7. FormatOrder'
  <2>1. fat \in [Cell -> FatValue] /\ {0, 1, 2} \subseteq Cell
    BY TreeTypes, Ranges DEF TreeInv, ROOT_CLUSTER_NUMBER, Cell
  <2>2. CASE SignDisk
    <3>1. Reserved(fat')
      <4>1. \A c \in 0 .. ROOT_CLUSTER_NUMBER : c = 0 \/ c = 1 \/ c = 2
        BY DEF ROOT_CLUSTER_NUMBER
      <4>2. fat'[0] # 0 /\ fat'[1] # 0 /\ fat'[2] # 0
        BY <2>1, <2>2 DEF SignDisk, ROOT_CLUSTER_NUMBER, CLUSTER_0_VALUE, FAT32_FAT_END_OF_FILE
      <4>3. QED
        BY <4>1, <4>2 DEF Reserved, FAT32_FAT_EMPTY_ENTRY
    <3>2. QED
      BY <2>2, <3>1, <1>3 DEF SignDisk, FormatOrder
  <2>3. CASE FormatFat
    BY <2>3, <1>3 DEF FormatFat, TreeInv, FormatOrder
  <2>4. CASE FormatRoot
    BY <2>4 DEF FormatRoot, TreeInv, FormatOrder
  <2>5. QED
    BY <2>2, <2>3, <2>4
<1>8. QED
  BY <1>2, <1>6, <1>7, AtRest DEF SignDisk, FormatFat, FormatRoot

\* A power failure tears at most the FAT, whose used cells memory has as the disk.
LEMMA TreePower == TreeInv /\ Benign /\ FreshInv' /\ PowerFails => TreeInv' /\ Unmoved
<1> SUFFICES ASSUME TreeInv, Benign, FreshInv', PowerFails PROVE TreeInv' /\ Unmoved
  OBVIOUS
<1>1. pc \notin {"off", "format_fat", "format_root"} /\ call.op # "delete"
  <2>1. Activity \in {"idle", "mkdir", "file"} /\ pc # "off"
    BY DEF PowerFails, Benign
  <2>2. CASE pc \in {"idle", "lost"}
    BY <2>2, WhenIdle
  <2>3. CASE pc \notin {"idle", "lost"}
    BY <2>1, <2>3 DEF Activity
  <2>4. QED
    BY <2>2, <2>3
<1>2. /\ Shown = table /\ diskFat \in [Cell -> FatValue] /\ fat \in [Cell -> FatValue]
      /\ diskFat' \in [Cell -> FatValue]
  BY <1>1, TreeTypes DEF TreeInv, FreshInv, SavedInv, TypeInv, TypeOK
<1>3. \A c \in Cell : diskFat'[c] = diskFat[c] \/ diskFat'[c] = fat[c]
  BY DEF PowerFails, Torn
<1>4. AllStay(diskFat, table, data, diskFat', table, data)
  <2>1. ASSUME NEW o \in Owners(table), NEW k \in DOMAIN ItsChain(diskFat, table, o)
        PROVE  diskFat'[ItsChain(diskFat, table, o)[k]] = diskFat[ItsChain(diskFat, table, o)[k]]
    <3>1. IsChain(diskFat, ItsChain(diskFat, table, o))
      BY <1>2 DEF TreeInv, Tree, HasChain
    <3>2. ItsChain(diskFat, table, o)[k] \in Cell
      BY <3>1, ChainCells, Ranges
    <3>3. fat[ItsChain(diskFat, table, o)[k]] = diskFat[ItsChain(diskFat, table, o)[k]]
      BY <1>1, <1>2 DEF TreeInv, Remembered
    <3>4. QED
      BY <1>3, <3>2, <3>3
  <2>2. QED
    BY <2>1 DEF AllStay, Stays
<1>5. Tree(diskFat', table, data)
  BY <1>2, <1>4, TreeKept DEF TreeInv
<1>6. FormatOrder'
  <2>1. signature /\ Reserved(diskFat) /\ Reserved(fat)
    BY <1>1 DEF TreeInv, FormatOrder
  <2>2. 0 .. ROOT_CLUSTER_NUMBER \subseteq Cell
    BY SizeAssumption DEF ROOT_CLUSTER_NUMBER, Cell
  <2>3. Reserved(diskFat')
    BY <1>3, <2>1, <2>2 DEF Reserved
  <2>4. QED
    BY <2>1, <2>3 DEF PowerFails, FormatOrder
<1>7. TreeInv'
  BY <1>5, <1>6, AtRest DEF PowerFails
<1>8. Unmoved
  <2>1. Shown' = table
    BY DEF PowerFails, Shown, NoCall
  <2>2. data' = data
    BY DEF PowerFails
  <2>3. QED
    BY <1>2, <1>4, <2>1, <2>2 DEF Unmoved
<1>9. QED
  BY <1>7, <1>8

(***************************************************************************)
(* Requests.                                                               *)
(***************************************************************************)

\* A call that returns at once leaves the tree alone, and so does one lost in a loop.
LEMMA TreeUntouched ==
    ASSUME TreeInv, FreshInv', pc = "idle", UNCHANGED <<disk, fat, call>>,
           pc' \in {"idle", "lost"}
    PROVE  TreeInv'
<1>1. call' = NoCall /\ Tree(diskFat', table', data')
  BY WhenIdle DEF disk
<1>2. FormatOrder'
  BY DEF disk, TreeInv, FormatOrder
<1>3. \A o \in Owners(table) : \A k \in DOMAIN ItsChain(diskFat, table, o) :
         fat[ItsChain(diskFat, table, o)[k]] = diskFat[ItsChain(diskFat, table, o)[k]]
  BY WhenIdle DEF TreeInv, Remembered
<1>4. QED
  BY <1>1, <1>2, <1>3, AtRest DEF disk

\* What is spare in memory may be marked there: the tree's cells are others.
LEMMA SpareMarked ==
    ASSUME TreeInv, pc \notin {"off", "format_fat", "format_root"}, NEW q, Spare(q),
           Shown = table, UNCHANGED disk, table' = table,
           fat' \in [Cell -> FatValue],
           \A c \in Cell : (\A i \in DOMAIN q : q[i] # c) \/ fat'[c] # FAT32_FAT_EMPTY_ENTRY,
           \A c \in Cell : (\A i \in DOMAIN q : q[i] # c) => fat'[c] = fat[c],
           pc' \notin {"off", "format_fat", "format_root"}
    PROVE  /\ FormatOrder'
           /\ \A o \in Owners(table') : \A k \in DOMAIN ItsChain(diskFat', table', o) :
                 fat'[ItsChain(diskFat', table', o)[k]] = diskFat'[ItsChain(diskFat', table', o)[k]]
<1>1. FormatOrder'
  <2>1. 0 .. ROOT_CLUSTER_NUMBER \subseteq Cell
    BY SizeAssumption DEF ROOT_CLUSTER_NUMBER, Cell
  <2>2. Reserved(fat')
    BY <2>1 DEF TreeInv, FormatOrder, Reserved
  <2>3. QED
    BY <2>2 DEF disk, TreeInv, FormatOrder
<1>2. ASSUME NEW o \in Owners(table), NEW k \in DOMAIN ItsChain(diskFat, table, o)
      PROVE  fat'[ItsChain(diskFat, table, o)[k]] = diskFat[ItsChain(diskFat, table, o)[k]]
  <2> DEFINE c == ItsChain(diskFat, table, o)[k]
  <2>1. IsChain(diskFat, ItsChain(diskFat, table, o))
    BY DEF TreeInv, Tree, HasChain
  <2>2. c \in Cell
    BY <2>1, ChainCells, Ranges
  <2>3. \A i \in DOMAIN q : q[i] # c
    BY DEF Spare, Apart
  <2>4. fat[c] = diskFat[c]
    BY DEF TreeInv, Remembered
  <2> HIDE DEF c
  <2>5. fat'[c] = diskFat[c]
    BY <2>2, <2>3, <2>4
  <2>6. QED
    BY <2>5 DEF c
<1>3. QED
  BY <1>1, <1>2 DEF disk

\* A write that is entered has a chain of spare clusters and an entry for it.
LEMMA WriteEntered ==
    ASSUME TreeInv, FreshInv', pc = "idle", UNCHANGED disk,
           NEW d \in Cluster, OffFiles(d), fat[d] # FAT32_FAT_EMPTY_ENTRY,
           NEW s \in Slot, NEW q, NEW e,
           \A i \in DOMAIN q : fat[q[i]] = FAT32_FAT_EMPTY_ENTRY,
           \A c \in Cell : (\A i \in DOMAIN q : q[i] # c) => fat'[c] = fat[c],
           IsChain(fat', q),
           call'.op \in {"mkdir", "file"}, call'.dir = d, call'.slot = s, call'.chain = q,
           call'.parent = [table[d] EXCEPT ![s] = e], e.cluster = q[1],
           TakesSlot(table[d], s), pc' \in {"new_table", "content"}
    PROVE  /\ MakingDirectory' /\ MakingFile' => TreeInv'
           /\ NewEntry' = e
<1>1. /\ Shown = table /\ table \in [Cluster -> Table] /\ fat' \in [Cell -> FatValue]
      /\ Tree(diskFat, table, data)
  BY WhenIdle, TreeTypes DEF TreeInv, FreshInv, SavedInv, TypeInv, TypeOK
<1>2. Spare(q)
  BY FreeSpare
<1>3. \A i \in DOMAIN q : q[i] \in Cell /\ fat'[q[i]] # FAT32_FAT_EMPTY_ENTRY
  BY ChainCells, Ranges
<1>4. \A c \in Cell : (\A i \in DOMAIN q : q[i] # c) \/ fat'[c] # FAT32_FAT_EMPTY_ENTRY
  BY <1>3
<1>5. table' = table /\ diskFat' = diskFat /\ data' = data
  BY DEF disk
<1>6. /\ FormatOrder'
      /\ \A o \in Owners(table') : \A k \in DOMAIN ItsChain(diskFat', table', o) :
            fat'[ItsChain(diskFat', table', o)[k]] = diskFat'[ItsChain(diskFat', table', o)[k]]
  BY <1>1, <1>2, <1>4, <1>5, SpareMarked
<1>7. Shown' = table
  BY <1>5 DEF Shown
<1>8. NewEntry' = e
  <2>1. s \in DOMAIN table[d]
    BY <1>1 DEF Table
  <2>2. QED
    BY <2>1 DEF NewEntry
<1>9. Prepared'
  <2>1. Spare(q)'
    BY <1>1, <1>2, <1>5, <1>7 DEF Spare
  <2>2. OffFiles(d)'
    BY <1>1, <1>5, <1>7 DEF OffFiles
  <2>3. QED
    BY <1>5, <1>8, <2>1, <2>2 DEF Prepared
<1>10. Tree(diskFat, Shown, data)' /\ Remembered'
  BY <1>1, <1>5, <1>6, <1>7 DEF Remembered
<1>11. QED
  BY <1>6, <1>8, <1>9, <1>10 DEF TreeInv, Deleting, Waiting

\* mkdir: refused, refused with the last cluster marked, or entered.
LEMMA TreeMakeDirectory ==
    ASSUME TreeInv, FreshInv', pc = "idle",
           NEW d \in Cluster, OffFiles(d), fat[d] # FAT32_FAT_EMPTY_ENTRY,
           NEW n \in Names, MakeDirectory(d, n)
    PROVE  TreeInv'
<1>1. CASE Reply(Answer(1))
  BY <1>1, TreeUntouched DEF Reply
<1>2. ASSUME NEW q \in Allocation(fat, 1),
             fat' = [fat EXCEPT ![q[1]] = FAT32_FAT_END_OF_FILE], UNCHANGED disk
      PROVE  /\ IsChain(fat', q) /\ DOMAIN q = {1} /\ Len(q) = 1
             /\ \A i \in DOMAIN q : fat[q[i]] = FAT32_FAT_EMPTY_ENTRY
             /\ \A c \in Cell : (\A i \in DOMAIN q : q[i] # c) => fat'[c] = fat[c]
  <2>1. fat \in [Cell -> FatValue]
    BY TreeTypes DEF TreeInv
  <2>2. /\ IsChain(fat', q) /\ DOMAIN q = {1} /\ Len(q) = 1
        /\ \A c \in Cell : q[1] # c => fat'[c] = fat[c]
    BY <1>2, <2>1, MarkedChain
  <2>3. fat[q[1]] = FAT32_FAT_EMPTY_ENTRY
    <3>1. 1 \in Nat /\ 1 \in 1 .. 1
      OBVIOUS
    <3>2. QED
      BY <3>1, AllocationType
  <2>4. QED
    BY <2>2, <2>3
<1>3. ASSUME NEW q \in Allocation(fat, 1),
             fat' = [fat EXCEPT ![q[1]] = FAT32_FAT_END_OF_FILE],
             UNCHANGED <<disk, pc, call>>
      PROVE  TreeInv'
  <2>1. Shown = table /\ call' = NoCall /\ pc' = "idle" /\ fat' \in [Cell -> FatValue]
    BY <1>3, WhenIdle DEF FreshInv, SavedInv, TypeInv, TypeOK
  <2>2. UNCHANGED disk /\ table' = table
    BY <1>3 DEF disk
  <2>3. Spare(q)
    BY <1>2, <1>3, <2>2, FreeSpare
  <2>4. \A c \in Cell : (\A i \in DOMAIN q : q[i] # c) \/ fat'[c] # FAT32_FAT_EMPTY_ENTRY
    <3>1. IsChain(fat', q)
      BY <1>2, <1>3, <2>2
    <3>2. QED
      BY <3>1, ChainCells
  <2>5. /\ FormatOrder'
        /\ \A o \in Owners(table') : \A k \in DOMAIN ItsChain(diskFat', table', o) :
              fat'[ItsChain(diskFat', table', o)[k]] = diskFat'[ItsChain(diskFat', table', o)[k]]
    BY <1>2, <1>3, <2>1, <2>2, <2>3, <2>4, SpareMarked
  <2>6. Tree(diskFat', table', data')
    BY <1>3, WhenIdle DEF disk
  <2>7. QED
    BY <2>1, <2>5, <2>6, AtRest
<1>4. ASSUME NEW q \in Allocation(fat, 1), NEW s \in Slot, TakesSlot(table[d], s),
             fat' = [fat EXCEPT ![q[1]] = FAT32_FAT_END_OF_FILE],
             Enter([NoCall EXCEPT
                       !.op = "mkdir", !.dir = d, !.slot = s, !.chain = q,
                       !.parent = [table[d] EXCEPT ![s] = Entry(n, "dir", q[1], 0)]]),
             pc' = "new_table", UNCHANGED disk
      PROVE  TreeInv'
  <2> DEFINE e == Entry(n, "dir", q[1], 0)
  <2>1. /\ call'.op = "mkdir" /\ call'.dir = d /\ call'.slot = s /\ call'.chain = q
        /\ call'.parent = [table[d] EXCEPT ![s] = e]
    BY <1>4 DEF Enter, NoCall
  <2>2. e.cluster = q[1] /\ e.attribute = "dir"
    BY DEF Entry
  <2> HIDE DEF e
  <2>3. (MakingDirectory' /\ MakingFile' => TreeInv') /\ NewEntry' = e
    <3>1. /\ IsChain(fat', q) /\ \A i \in DOMAIN q : fat[q[i]] = FAT32_FAT_EMPTY_ENTRY
          /\ \A c \in Cell : (\A i \in DOMAIN q : q[i] # c) => fat'[c] = fat[c]
      BY <1>2, <1>4
    <3>2. pc' \in {"new_table", "content"} /\ UNCHANGED disk /\ TakesSlot(table[d], s)
      BY <1>4
    <3>3. call'.op \in {"mkdir", "file"}
      BY <2>1
    <3>4. QED
      BY <2>1, <2>2, <3>1, <3>2, <3>3, WriteEntered
  <2>4. MakingDirectory' /\ MakingFile'
    BY <1>2, <1>4, <2>1, <2>2, <2>3 DEF MakingDirectory, MakingFile
  <2>5. QED
    BY <2>3, <2>4
<1>5. QED
  BY <1>1, <1>3, <1>4 DEF MakeDirectory

\* A new file: refused, or entered with a chain as long as the file.
LEMMA TreeMakeFile ==
    ASSUME TreeInv, FreshInv', pc = "idle",
           NEW d \in Cluster, OffFiles(d), fat[d] # FAT32_FAT_EMPTY_ENTRY,
           NEW n \in Names, NEW size \in Lengths,
           NEW p \in Payloads, MakeFile(d, n, size, p)
    PROVE  TreeInv'
<1>1. CASE Reply(Answer(1))
  BY <1>1, TreeUntouched DEF Reply
<1>2. ASSUME NEW q \in Allocation(fat, size), NEW s \in Slot, TakesSlot(table[d], s),
             fat' = Linked(fat, q),
             Enter([NoCall EXCEPT
                !.op = "file", !.dir = d, !.slot = s, !.chain = q, !.payload = <<p, 1>>,
                !.parent = [table[d] EXCEPT ![s] = Entry(n, "file", q[1], size)]]),
             pc' = "content", UNCHANGED disk
      PROVE  TreeInv'
  <2> DEFINE e == Entry(n, "file", q[1], size)
  <2>1. /\ call'.op = "file" /\ call'.dir = d /\ call'.slot = s /\ call'.chain = q
        /\ call'.parent = [table[d] EXCEPT ![s] = e] /\ call'.payload = <<p, 1>>
    BY <1>2 DEF Enter, NoCall
  <2>2. e.cluster = q[1] /\ e.attribute = "file" /\ e.filesize = size
    BY DEF Entry
  <2> HIDE DEF e
  <2>3. size \in Nat \ {0} /\ fat \in [Cell -> FatValue]
    BY LengthsAssumption, TreeTypes DEF TreeInv
  <2>4. /\ IsChain(fat', q) /\ Len(q) = size
        /\ \A c \in Cell : (\A i \in DOMAIN q : q[i] # c) => fat'[c] = fat[c]
    BY <1>2, <2>3, LinkedChain
  <2>5. DOMAIN q = 1 .. size /\ \A i \in DOMAIN q : fat[q[i]] = FAT32_FAT_EMPTY_ENTRY
    BY <2>3, AllocationType
  <2>6. (MakingDirectory' /\ MakingFile' => TreeInv') /\ NewEntry' = e
    BY <1>2, <2>1, <2>2, <2>4, <2>5, WriteEntered
  <2>7. \A k \in DOMAIN call'.chain : ~(k < call'.payload[2])
    BY <2>1, <2>3, <2>5
  <2>8. MakingDirectory' /\ MakingFile'
    <3>1. <<p, 1>> \in Payloads \X Nat
      OBVIOUS
    <3>2. QED
      BY <1>2, <2>1, <2>2, <2>4, <2>6, <2>7, <3>1 DEF MakingDirectory, MakingFile
  <2>9. QED
    BY <2>6, <2>8
<1>3. QED
  BY <1>1, <1>2 DEF MakeFile

\* A delete that is entered takes one owner out of the tree: its chain is spare.
LEMMA TreeRemove ==
    ASSUME TreeInv, Benign, FreshInv', pc = "idle", "delete" \in Requests,
           NEW d \in Directories(table), NEW s \in Slot \ {0}, NEW stray, NEW next,
           Remove(d, s, stray, next),
           \/ table[d][s].attribute = "dir" /\ next = "erase_dir"
           \/ table[d][s].attribute = "file" /\ next = "erase"
    PROVE  TreeInv'
<1> DEFINE x == <<d, s>>
           q == ItsChain(diskFat, table, x)
           u == [table EXCEPT ![d] = [table[d] EXCEPT ![s] = FreeEntry]]
<1>1. /\ Shown = table /\ Tree(diskFat, table, data)
      /\ table \in [Cluster -> Table] /\ fat \in [Cell -> FatValue]
      /\ diskFat \in [Cell -> FatValue] /\ d \in Cluster
  BY WhenIdle, TreeTypes, DirectoriesType DEF TreeInv
<1>2. /\ call'.op = "delete" /\ call'.dir = d /\ call'.slot = s
      /\ call'.cluster = table[d][s].cluster
      /\ call'.parent = [table[d] EXCEPT ![s] = FreeEntry]
      /\ pc' = next /\ UNCHANGED <<disk, fat>>
  BY DEF Remove, Enter, NoCall
<1>3. Shown' = u /\ diskFat' = diskFat /\ data' = data /\ table' = table /\ fat' = fat
  BY <1>2 DEF Shown, disk
<1>4. x \in Owners(table) /\ ItsEntry(table, x) = table[d][s]
  <2>1. x \in Directories(table) \X Slot /\ ItsEntry(table, x) = table[d][s]
    BY DEF ItsEntry
  <2>2. Used(ItsEntry(table, x)) /\ ~IsSelfEntry(table, d, s)
    BY <2>1 DEF Used, IsSelfEntry
  <2>3. QED
    BY <2>1, <2>2, OwnerIs
<1>5. /\ Owners(u) \subseteq Owners(table) \ {x}
      /\ \A o \in Owners(u) : ItsEntry(u, o) = ItsEntry(table, o)
  <2>1. s \in Slot /\ u = Put(table, d, s, FreeEntry)
    BY DEF Put
  <2> HIDE DEF u
  <2>2. QED
    BY <1>1, <2>1, OwnersRemoved
<1> HIDE DEF x, u
<1>6. Tree(diskFat, u, data) /\ \A o \in Owners(u) : ItsChain(diskFat, u, o) = ItsChain(diskFat, table, o)
  <2>1. AllStay(diskFat, table, data, diskFat, u, data)
    BY <1>5 DEF AllStay, Stays
  <2>2. QED
    BY <1>1, <2>1, TreeKept
<1>7. IsChain(diskFat, q) /\ q[1] = table[d][s].cluster /\ NoRoot(q)
  BY <1>1, <1>4 DEF Tree, HasChain
<1>8. IsChain(fat, q)
  <2>1. \A k \in DOMAIN q : fat[q[k]] = diskFat[q[k]]
    BY <1>1, <1>4 DEF TreeInv, Remembered
  <2>2. QED
    BY <1>7, <2>1, ChainMoves
<1>9. \A o \in Owners(u) : Apart(q, ItsChain(diskFat, u, o))
  BY <1>1, <1>4, <1>5, <1>6 DEF Tree
<1>10. next = "erase" => Len(q) > 1
  BY <1>1, <1>4 DEF Tree, HasContent, Benign
<1>11. \A o \in Owners(u) : ItsEntry(u, o).attribute = "file" => Apart(<<d>>, ItsChain(diskFat, u, o))
  BY <1>1, <1>5, <1>6, FilesApart
<1> HIDE DEF q
<1>12. Rest' = q
  <2>1. Chain(fat, q[1], FAT32_FAT_EMPTY_ENTRY) = q
    BY <1>1, <1>8, Ranges, ChainIs
  <2>2. QED
    BY <1>2, <1>3, <1>7, <2>1 DEF Rest
<1>13. Deleting'
  <2>1. Spare(Rest)'
    BY <1>3, <1>7, <1>9, <1>12 DEF Spare
  <2>2. IsChain(fat, Rest)' /\ Rest'[1] = call'.cluster
    BY <1>2, <1>3, <1>7, <1>8, <1>12
  <2>3. pc' = "erase" => Len(Rest') > 1
    BY <1>2, <1>10, <1>12
  <2>4. QED
    BY <1>1, <1>2, <1>3, <1>11, <2>1, <2>2, <2>3 DEF Deleting, OffFiles
<1>14. FormatOrder' /\ Remembered'
  <2>1. FormatOrder'
    BY <1>2, <1>3 DEF TreeInv, FormatOrder, disk
  <2>2. Remembered'
    BY <1>1, <1>3, <1>5, <1>6 DEF TreeInv, Remembered
  <2>3. QED
    BY <2>1, <2>2
<1>15. Tree(diskFat, Shown, data)'
  BY <1>3, <1>6
<1>16. MakingDirectory' /\ MakingFile' /\ Waiting'
  BY <1>2 DEF MakingDirectory, MakingFile, Waiting
<1>17. QED
  BY <1>2, <1>13, <1>14, <1>15, <1>16 DEF TreeInv

\* A read leaves the tree alone, whatever it reads.
LEMMA TreeRead ==
    ASSUME TreeInv, FreshInv', NEW d, NEW n, NEW size,
           ReadDirectory(d, n, size) \/ Read(d, n, size)
    PROVE  TreeInv'
<1>1. ASSUME NEW a, pc = "idle", Reply(a)
      PROVE  TreeInv'
  BY <1>1, TreeUntouched DEF Reply
<1>2. ASSUME NEW c, ReadChain(c, size), pc = "idle"
      PROVE  TreeInv'
  BY <1>1, <1>2, TreeUntouched DEF ReadChain
<1>3. QED
  BY <1>1, <1>2 DEF ReadDirectory, Read

\* A write leaves a tree when the cluster it takes for its directory is in use and
\* not a file's.
LEMMA TreeWrite ==
    ASSUME TreeInv, FreshInv', NEW d,
           d >= ROOT_CLUSTER_NUMBER =>
              d \in Cluster /\ OffFiles(d) /\ fat[d] # FAT32_FAT_EMPTY_ENTRY,
           NEW n \in Names \cup {NoName}, NEW size \in {0} \cup Lengths, NEW p \in Payloads,
           Write(d, n, size, p)
    PROVE  TreeInv'
<1>1. pc = "idle"
  BY DEF Write
<1>2. CASE Reply(Answer(-1)) \/ Reply(Answer(2))
  BY <1>1, <1>2, TreeUntouched DEF Reply
<1>3. CASE n # NoName /\ d >= ROOT_CLUSTER_NUMBER /\ size = 0 /\ MakeDirectory(d, n)
  BY <1>1, <1>3, TreeMakeDirectory
<1>4. CASE n # NoName /\ d >= ROOT_CLUSTER_NUMBER /\ size # 0 /\ MakeFile(d, n, size, p)
  BY <1>1, <1>4, TreeMakeFile
<1>5. QED
  BY <1>2, <1>3, <1>4 DEF Write

\* Every request leaves a tree.
LEMMA TreeRequest == TreeInv /\ Benign /\ FreshInv' /\ Request => TreeInv'
<1> SUFFICES ASSUME TreeInv, Benign, FreshInv', Request PROVE TreeInv'
  OBVIOUS
<1>1. ASSUME NEW a, pc = "idle", Reply(a)
      PROVE  TreeInv'
  BY <1>1, TreeUntouched DEF Reply
<1>2. ASSUME NEW d, NEW n, NEW size, ReadDirectory(d, n, size) \/ Read(d, n, size)
      PROVE  TreeInv'
  BY <1>2, TreeRead
<1>3. ASSUME NEW d \in Directories(table) \cup {0}, NEW n \in Names \cup {NoName},
             NEW size \in {0} \cup Lengths, NEW p \in Payloads, Write(d, n, size, p)
      PROVE  TreeInv'
  <2>1. pc = "idle" /\ Shown = table
    BY <1>3, WhenIdle DEF Write
  <2>2. d >= ROOT_CLUSTER_NUMBER => d \in Directories(Shown)
    BY <2>1 DEF ROOT_CLUSTER_NUMBER
  <2>3. QED
    BY <1>3, <2>1, <2>2, DirectoryHeld, TreeWrite
<1>4. ASSUME NEW d \in Directories(table), NEW n \in Names \cup {NoName}, Delete(d, n)
      PROVE  TreeInv'
  <2>1. ASSUME NEW s \in Slot, FirstMatch(table[d], n, s)
        PROVE  s \in Slot \ {0}
    BY <2>1 DEF FirstMatch, Matches
  <2>2. QED
    BY <1>1, <1>4, <2>1, TreeRemove DEF Delete
<1>5. QED
  BY <1>2, <1>3, <1>4 DEF Request

(***************************************************************************)
(* The disk writes of a write.                                             *)
(***************************************************************************)

\* What is known while a write is under way.
LEMMA Writing ==
    ASSUME TreeInv, pc \in {"new_table", "content"} \/ call.op \in {"mkdir", "file"}
    PROVE  /\ call.op \in {"mkdir", "file"} /\ Prepared
           /\ call.op = "mkdir" <=> NewEntry.attribute = "dir"
           /\ pc = "new_table" => call.op = "mkdir"
           /\ pc = "content" => call.op = "file"
           /\ Shown = table /\ Tree(diskFat, table, data)
           /\ pc \notin {"off", "format_fat", "format_root"}
<1>1. call.op \in {"none", "mkdir", "file", "delete"}
  BY TreeTypes DEF TreeInv, Calls
<1>2. call.op \in {"mkdir", "file"}
  BY <1>1 DEF TreeInv, Waiting, Deleting
<1>3. QED
  BY <1>2, TreeTypes DEF TreeInv, MakingDirectory, MakingFile

\* The prepared entry and chain outlive a write to one of the chain's clusters.
LEMMA PreparedWritten ==
    ASSUME TreeInv, FreshInv', pc \in {"new_table", "content"}, NEW i \in DOMAIN call.chain,
           Written(table, data, table', data', call.chain[i]),
           UNCHANGED <<signature, diskFat, fat>>,
           call'.op = call.op, call'.dir = call.dir, call'.slot = call.slot,
           call'.parent = call.parent, call'.chain = call.chain,
           pc' \in {"content", "flush_fat"}
    PROVE  /\ MakingDirectory' /\ MakingFile' => TreeInv'
           /\ NewEntry' = NewEntry
           /\ Unmoved
<1> DEFINE q == call.chain
<1>1. /\ call.op \in {"mkdir", "file"} /\ Prepared /\ Shown = table
      /\ Tree(diskFat, table, data) /\ pc \notin {"off", "format_fat", "format_root"}
  BY Writing
<1>2. /\ diskFat \in [Cell -> FatValue] /\ table \in [Cluster -> Table]
      /\ table' \in [Cluster -> Table]
  BY TreeTypes DEF TreeInv, FreshInv, SavedInv, TypeInv, TypeOK
<1>3. NoRoot(q) /\ \A o \in Owners(table) : Apart(q, ItsChain(diskFat, table, o))
  BY <1>1 DEF Prepared, Spare
<1> HIDE DEF q
<1>4. /\ Tree(diskFat, table', data') /\ q[i] \notin Directories(table)
      /\ Directories(table') = Directories(table) /\ Owners(table') = Owners(table)
      /\ \A o \in Owners(table) : ItsChain(diskFat, table', o) = ItsChain(diskFat, table, o)
      /\ AllStay(diskFat, table, data, diskFat, table', data')
      /\ \A d \in Directories(table) : table'[d] = table[d]
  <2>1. i \in DOMAIN q /\ Written(table, data, table', data', q[i])
    BY DEF q
  <2>2. QED
    BY <1>1, <1>2, <1>3, <2>1, SpareWritten
<1>5. Shown' = table' /\ diskFat' = diskFat /\ fat' = fat /\ signature' = signature
  BY <1>1 DEF Shown
<1>6. NewEntry' = NewEntry
  BY DEF NewEntry
<1>7. Spare(call.chain)'
  BY <1>3, <1>4, <1>5 DEF Spare, q
<1>8. Prepared'
  <2>1. call.dir \in Cluster /\ call.dir # call.chain[i]
    BY <1>1 DEF Prepared
  <2>2. table'[call.dir] = table[call.dir]
    BY <2>1 DEF Written
  <2>3. OffFiles(call.dir)'
    BY <1>1, <1>4, <1>5 DEF Prepared, OffFiles, AllStay, Stays
  <2>4. QED
    BY <1>1, <1>5, <1>6, <1>7, <2>2, <2>3 DEF Prepared
<1>9. FormatOrder' /\ Remembered'
  BY <1>1, <1>4, <1>5 DEF TreeInv, FormatOrder, Remembered
<1>10. (Tree(diskFat, Shown, data))'
  BY <1>4, <1>5
<1>11. Unmoved
  BY <1>1, <1>4, <1>5 DEF Unmoved
<1>12. QED
  BY <1>1, <1>6, <1>8, <1>9, <1>10, <1>11 DEF TreeInv, Deleting, Waiting

\* The new directory's table is written to its cluster.
LEMMA TreeNewTable == TreeInv /\ FreshInv' /\ WriteNewTable => TreeInv' /\ Unmoved
<1> SUFFICES ASSUME TreeInv, FreshInv', WriteNewTable PROVE TreeInv' /\ Unmoved
  OBVIOUS
<1>1. /\ pc = "new_table" /\ pc' = "flush_fat" /\ UNCHANGED <<signature, diskFat, fat, call>>
      /\ table' = [table EXCEPT ![call.chain[1]] = NewTable(call.parent[call.slot].name, call.chain[1])]
      /\ data' = [data EXCEPT ![call.chain[1]] = NoBlock]
  BY DEF WriteNewTable, PutTable
<1>2. call.op = "mkdir" /\ Prepared /\ MakingDirectory
  BY <1>1, Writing DEF TreeInv
<1>3. 1 \in DOMAIN call.chain /\ call.chain[1] \in Cluster
  BY <1>2, ChainCells DEF Prepared
<1>4. table \in [Cluster -> Table] /\ data \in [Cluster -> Block]
  BY TreeTypes DEF TreeInv
<1>5. Written(table, data, table', data', call.chain[1])
  BY <1>1, <1>4 DEF Written
<1>6. (MakingDirectory' /\ MakingFile' => TreeInv') /\ NewEntry' = NewEntry /\ Unmoved
  BY <1>1, <1>3, <1>5, PreparedWritten
<1>7. MakingDirectory' /\ MakingFile'
  <2>1. /\ table'[call.chain[1]] = NewTable(NewEntry.name, call.chain[1])
        /\ data'[call.chain[1]] = NoBlock
    BY <1>1, <1>3, <1>4 DEF NewEntry
  <2>2. QED
    BY <1>1, <1>2, <1>6, <2>1 DEF MakingDirectory, MakingFile
<1>8. QED
  BY <1>6, <1>7

\* A block of the new file is written to the cluster of its place in the chain.
LEMMA TreeContent == TreeInv /\ FreshInv' /\ WriteContent => TreeInv' /\ Unmoved
<1> SUFFICES ASSUME TreeInv, FreshInv', WriteContent PROVE TreeInv' /\ Unmoved
  OBVIOUS
<1> DEFINE i == call.payload[2]
           x == call.chain[i]
<1>1. /\ pc = "content" /\ UNCHANGED <<signature, diskFat, fat>>
      /\ table' = [table EXCEPT ![x] = EmptyTable]
      /\ data' = [data EXCEPT ![x] = call.payload]
  BY DEF WriteContent, PutBlock
<1>2. call.op = "file" /\ Prepared /\ MakingFile
  BY <1>1, Writing DEF TreeInv
<1>3. i \in DOMAIN call.chain
  BY <1>1 DEF TreeInv, FreshInv, Fresh
<1>4. /\ DOMAIN call.chain = 1 .. Len(call.chain) /\ Len(call.chain) \in Nat
      /\ \A k \in DOMAIN call.chain : call.chain[k] \in Cluster
      /\ \A j, k \in DOMAIN call.chain : j < k => call.chain[j] < call.chain[k]
  BY <1>2 DEF Prepared, IsChain
<1>5. table \in [Cluster -> Table] /\ data \in [Cluster -> Block] /\ call \in Calls
  BY TreeTypes DEF TreeInv
<1>6. call.payload \in Payloads \X Nat /\ call.payload = <<call.payload[1], i>>
  BY <1>2 DEF MakingFile
<1>7. \/ /\ i < Len(call.chain) /\ pc' = "content"
         /\ call' = [call EXCEPT !.payload = <<call.payload[1], i + 1>>]
      \/ i = Len(call.chain) /\ call' = call /\ pc' = "flush_fat"
  <2>1. CASE i < Len(call.chain)
    <3>1. call' = [call EXCEPT !.payload[2] = i + 1] /\ pc' = "content"
      BY <2>1 DEF WriteContent
    <3>2. [call.payload EXCEPT ![2] = i + 1] = <<call.payload[1], i + 1>>
      BY <1>6
    <3>3. QED
      BY <2>1, <3>1, <3>2
  <2>2. CASE ~(i < Len(call.chain))
    BY <1>3, <1>4, <2>2 DEF WriteContent
  <2>3. QED
    BY <2>1, <2>2
<1>8. /\ call'.op = call.op /\ call'.dir = call.dir /\ call'.slot = call.slot
      /\ call'.parent = call.parent /\ call'.chain = call.chain
      /\ pc' \in {"content", "flush_fat"}
  BY <1>7, <1>5 DEF Calls
<1>9. Written(table, data, table', data', x)
  BY <1>1, <1>5 DEF Written
<1>10. (MakingDirectory' /\ MakingFile' => TreeInv') /\ NewEntry' = NewEntry /\ Unmoved
  BY <1>1, <1>3, <1>8, <1>9, PreparedWritten
<1>11. \A k \in DOMAIN call.chain : k <= i => data'[call.chain[k]] = <<call.payload[1], k>>
  <2> TAKE k \in DOMAIN call.chain
  <2>1. data'[x] = <<call.payload[1], i>>
    BY <1>1, <1>3, <1>4, <1>5, <1>6
  <2>2. ASSUME k < i
        PROVE  data'[call.chain[k]] = <<call.payload[1], k>>
    <3>1. call.chain[k] \in Cluster /\ call.chain[k] # x
      BY <2>2, <1>3, <1>4, CellRanges
    <3>2. data[call.chain[k]] = <<call.payload[1], k>>
      BY <2>2, <1>1, <1>2 DEF MakingFile
    <3>3. QED
      BY <3>1, <3>2, <1>9 DEF Written
  <2>3. QED
    BY <2>1, <2>2, <1>3, <1>4
<1>12. call'.payload \in Payloads \X Nat /\ call'.payload[1] = call.payload[1]
  BY <1>5, <1>6, <1>7 DEF Calls
<1>13. \A k \in DOMAIN call.chain :
          pc' # "content" \/ k < call'.payload[2] => k <= i
  <2> TAKE k \in DOMAIN call.chain
  <2>1. CASE pc' = "content"
    <3>1. call'.payload[2] = i + 1
      BY <1>5, <1>7, <2>1 DEF Calls
    <3>2. QED
      BY <2>1, <3>1, <1>3, <1>4
  <2>2. CASE pc' # "content"
    BY <2>2, <1>4, <1>7
  <2>3. QED
    BY <2>1, <2>2
<1>14. MakingFile'
  <2>1. /\ NewEntry'.attribute = "file" /\ NewEntry'.filesize = Len(call'.chain)
        /\ Len(call'.chain) \in Lengths
    BY <1>2, <1>8, <1>10 DEF MakingFile
  <2>2. \A k \in DOMAIN call'.chain :
           pc' # "content" \/ k < call'.payload[2] =>
              data'[call'.chain[k]] = <<call'.payload[1], k>>
    BY <1>8, <1>11, <1>12, <1>13
  <2>3. QED
    BY <1>2, <1>8, <1>12, <2>1, <2>2 DEF MakingFile
<1>15. QED
  BY <1>2, <1>8, <1>10, <1>14 DEF MakingDirectory

\* The FAT of memory, which has the tree's chains, replaces the FAT of the disk.
LEMMA TreeFlushFat == TreeInv /\ FreshInv' /\ FlushFat => TreeInv' /\ Unmoved
<1> SUFFICES ASSUME TreeInv, FreshInv', FlushFat PROVE TreeInv' /\ Unmoved
  OBVIOUS
<1>1. /\ pc = "flush_fat" /\ pc' = "flush_parent" /\ diskFat' = fat
      /\ UNCHANGED <<signature, table, data, fat, call>>
  BY DEF FlushFat
<1>2. Shown' = Shown
  BY <1>1 DEF Shown
<1>3. diskFat \in [Cell -> FatValue] /\ fat \in [Cell -> FatValue]
  BY TreeTypes DEF TreeInv
<1>4. AllStay(diskFat, Shown, data, fat, Shown, data)
  BY <1>1 DEF TreeInv, Remembered, AllStay, Stays
<1>5. /\ Tree(fat, Shown, data)
      /\ \A o \in Owners(Shown) : ItsChain(fat, Shown, o) = ItsChain(diskFat, Shown, o)
  BY <1>3, <1>4, TreeKept DEF TreeInv
<1>6. (Tree(diskFat, Shown, data))' /\ FormatOrder' /\ Remembered'
  BY <1>1, <1>2, <1>5 DEF TreeInv, FormatOrder, Remembered
<1>7. call.op \in {"mkdir", "file"} => Prepared'
  <2> SUFFICES ASSUME call.op \in {"mkdir", "file"} PROVE Prepared'
    OBVIOUS
  <2>1. Prepared
    BY DEF TreeInv
  <2>2. Spare(call.chain)'
    BY <1>1, <1>2, <1>5, <2>1 DEF Prepared, Spare
  <2>3. NewEntry' = NewEntry
    BY <1>1 DEF NewEntry
  <2>4. OffFiles(call.dir)'
    BY <1>1, <1>2, <1>5, <2>1 DEF Prepared, OffFiles
  <2>5. QED
    BY <1>1, <2>1, <2>2, <2>3, <2>4 DEF Prepared
<1>8. MakingDirectory' /\ MakingFile'
  <2>1. NewEntry' = NewEntry
    BY <1>1 DEF NewEntry
  <2>2. QED
    BY <1>1, <2>1 DEF TreeInv, MakingDirectory, MakingFile
<1>9. Deleting'
  BY <1>1, <1>2, <1>5 DEF TreeInv, Deleting, OffFiles
<1>10. Waiting'
  BY <1>1 DEF TreeInv, Waiting
<1>11. Unmoved
  BY <1>1, <1>2, <1>4 DEF Unmoved
<1>12. QED
  BY <1>1, <1>6, <1>7, <1>8, <1>9, <1>10, <1>11 DEF TreeInv

\* The parent's table is written with an entry that is the owner of the chain and of
\* what is in its clusters; the other owners and their chains stay.
LEMMA Committed ==
    ASSUME TreeInv, FlushParent, call.op \in {"mkdir", "file"}, NEW x,
           x = <<call.dir, call.slot>>
    PROVE  /\ call.dir \in Cluster /\ call.slot \in Slot /\ NewEntry \in UsedEntry
           /\ Shown = table /\ Shown' = table'
           /\ table' = Put(table, call.dir, call.slot, NewEntry)
           /\ table' \in [Cluster -> Table]
           /\ \A o \in Owners(table') \ {x} :
                 Stays(diskFat, table, data, diskFat, table', data', o)
           /\ ItsEntry(table', x) = NewEntry /\ ItsChain(diskFat, table', x) = call.chain
           /\ HasChain(diskFat, table', x) /\ HasContent(diskFat, table', data', x)
           /\ IsChain(diskFat, call.chain) /\ IsChain(fat, call.chain)
           /\ call.chain[1] \in Cluster \ Directories(table)
           /\ \A o \in Owners(table) : Apart(call.chain, ItsChain(diskFat, table, o))
<1> DEFINE d == call.dir
           q == call.chain
           e == NewEntry
           f == diskFat
           t == table
           u == table'
           h == data'
<1>1. /\ pc = "flush_parent" /\ pc' = "idle" /\ call' = NoCall
      /\ u = [t EXCEPT ![d] = call.parent] /\ h = [data EXCEPT ![d] = NoBlock]
      /\ UNCHANGED <<signature, diskFat, fat>>
  BY DEF FlushParent, PutTable, Return
<1>2. /\ Prepared /\ Shown = table /\ Tree(f, t, data) /\ MakingDirectory /\ MakingFile
      /\ call.op = "mkdir" <=> e.attribute = "dir"
  BY Writing DEF TreeInv
<1>3. /\ f \in [Cell -> FatValue] /\ t \in [Cluster -> Table] /\ data \in [Cluster -> Block]
      /\ call \in Calls
  BY TreeTypes DEF TreeInv
<1>4. /\ d \in Cluster /\ OffFiles(d) /\ \A i \in DOMAIN q : q[i] # d
      /\ call.parent = [t[d] EXCEPT ![call.slot] = e] /\ e.cluster = q[1]
      /\ IsChain(f, q) /\ IsChain(fat, q) /\ NoRoot(q)
      /\ \A o \in Owners(t) : Apart(q, ItsChain(f, t, o))
  BY <1>1, <1>2 DEF Prepared, Spare
<1>5. call.slot \in Slot /\ e \in UsedEntry
  <2>1. call.slot \in Slot /\ call.parent \in Table
    BY <1>3 DEF Calls
  <2>2. e \in UsedEntry \cup {FreeEntry}
    BY <2>1 DEF Table, NewEntry
  <2>3. e.attribute # "none"
    BY <1>2 DEF MakingFile
  <2>4. QED
    BY <2>1, <2>2, <2>3 DEF FreeEntry
<1>6. 1 \in DOMAIN q /\ \A i \in DOMAIN q : q[i] \in Cluster \ Directories(t) /\ q[i] # d
  <2>1. \A i \in DOMAIN q : q[i] \notin Directories(t)
    BY <1>2, <1>3, <1>4, NotLinked
  <2>2. QED
    BY <1>4, <2>1, ChainCells
<1>7. Blank(t, e)
  BY <1>1, <1>2, <1>4 DEF MakingDirectory, Blank
<1>8. /\ u \in [Cluster -> Table] /\ u = Put(t, d, call.slot, e)
      /\ \A o \in Owners(u) : o = x \/ (o \in Owners(t) /\ ItsEntry(u, o) = ItsEntry(t, o))
  <2>1. u = Put(t, d, call.slot, e)
    BY <1>1, <1>4 DEF Put
  <2>2. e.cluster # d
    BY <1>4, <1>6
  <2>3. /\ d \in Cluster /\ call.slot \in Slot /\ e \in UsedEntry /\ t \in [Cluster -> Table]
        /\ x = <<d, call.slot>>
    BY <1>3, <1>4, <1>5
  <2> HIDE DEF d, e, t, u
  <2>4. QED
    BY <1>7, <2>1, <2>2, <2>3, OwnersAdded
<1>9. \A c \in Cluster : h[c] = IF c = d THEN NoBlock ELSE data[c]
  BY <1>1, <1>3
<1>10. ASSUME NEW o \in Owners(u) \ {x}
       PROVE  Stays(f, t, data, f, u, h, o)
  <2>1. o \in Owners(t) /\ ItsEntry(u, o) = ItsEntry(t, o)
    BY <1>8
  <2>2. ItsEntry(t, o).attribute \in {"file", "dir"}
    BY <1>3, <2>1, OwnedEntry
  <2>3. ASSUME NEW k \in DOMAIN ItsChain(f, t, o)
        PROVE  \/ h[ItsChain(f, t, o)[k]] = data[ItsChain(f, t, o)[k]]
               \/ ItsEntry(t, o).attribute = "dir" /\ h[ItsChain(f, t, o)[k]] = NoBlock
    <3>1. ItsEntry(t, o).attribute = "file" => Apart(<<d>>, ItsChain(f, t, o))
      BY <1>2, <1>4, <2>1 DEF OffFiles
    <3>2. IsChain(f, ItsChain(f, t, o))
      BY <1>2, <2>1 DEF Tree, HasChain
    <3>3. ItsChain(f, t, o)[k] \in Cluster
      BY <2>3, <3>2, ChainCells
    <3>4. ItsEntry(t, o).attribute = "file" => ItsChain(f, t, o)[k] # d
      BY <2>3, <3>1 DEF Apart
    <3>5. QED
      BY <1>9, <2>2, <3>3, <3>4
  <2>4. QED
    BY <2>1, <2>3 DEF Stays
<1>11. ItsEntry(u, x) = e
  BY <1>1, <1>3, <1>4, <1>5 DEF ItsEntry, Table
<1>12. ItsChain(f, u, x) = q
  <2>1. Chain(f, q[1], FAT32_FAT_EMPTY_ENTRY) = q
    BY <1>3, <1>4, Ranges, ChainIs
  <2>2. QED
    BY <1>4, <1>11, <2>1 DEF ItsChain
<1>13. HasChain(f, u, x)
  BY <1>4, <1>11, <1>12 DEF HasChain
<1>14. HasContent(f, u, h, x)
  <2>1. ASSUME e.attribute = "file"
        PROVE  /\ Len(q) = e.filesize /\ Len(q) \in Lengths
               /\ \E p \in Payloads : Holds(h, q, p)
    <3>1. /\ Len(q) = e.filesize /\ Len(q) \in Lengths /\ call.payload[1] \in Payloads
          /\ \A k \in DOMAIN q : data[q[k]] = <<call.payload[1], k>>
      BY <1>1, <1>2, <2>1 DEF MakingFile
    <3>2. Holds(h, q, call.payload[1])
      BY <1>6, <1>9, <3>1 DEF Holds
    <3>3. QED
      BY <3>1, <3>2
  <2>2. ASSUME e.attribute = "dir"
        PROVE  Len(q) = 1 /\ h[q[1]] = NoBlock
    BY <1>1, <1>2, <1>6, <1>9, <2>2 DEF MakingDirectory
  <2> HIDE DEF d, q, e, f, t, u, h
  <2>3. QED
    BY <1>11, <1>12, <2>1, <2>2 DEF HasContent
<1>15. Shown' = table'
  BY <1>1 DEF Shown, NoCall
<1>16. QED
  BY <1>2, <1>4, <1>5, <1>6, <1>8, <1>10, <1>11, <1>12, <1>13, <1>14, <1>15

\* What was prepared becomes an owner of the tree.
LEMMA TreeCommit ==
    ASSUME TreeInv, FreshInv', FlushParent, call.op \in {"mkdir", "file"}
    PROVE  TreeInv'
<1> DEFINE x == <<call.dir, call.slot>>
           q == call.chain
           f == diskFat
           t == table
           u == table'
           h == data'
<1>1. /\ pc = "flush_parent" /\ pc' = "idle" /\ call' = NoCall
      /\ UNCHANGED <<signature, diskFat, fat>>
  BY DEF FlushParent, PutTable, Return
<1>2. /\ f \in [Cell -> FatValue] /\ Tree(f, t, data)
  BY TreeTypes, Writing DEF TreeInv
<1>3. /\ \A o \in Owners(u) \ {x} : Stays(f, t, data, f, u, h, o)
      /\ ItsChain(f, u, x) = q /\ HasChain(f, u, x) /\ HasContent(f, u, h, x)
      /\ IsChain(f, q) /\ IsChain(fat, q) /\ \A o \in Owners(t) : Apart(q, ItsChain(f, t, o))
      /\ Shown = t
  BY Committed
<1>4. \A o \in Owners(u) \ {x} : o \in Owners(t)
  BY <1>3 DEF Stays
<1> HIDE DEF x, q, f, t, u, h
<1>5. AllStayBut(f, t, data, f, u, h, x)
  BY <1>3, <1>4 DEF AllStayBut
<1>6. Tree(f, u, h) /\ \A o \in Owners(u) \ {x} : ItsChain(f, u, o) = ItsChain(f, t, o)
  BY <1>2, <1>5, TreeFrom
<1>7. ASSUME NEW o \in Owners(u), NEW k \in DOMAIN ItsChain(f, u, o)
       PROVE  fat[ItsChain(f, u, o)[k]] = f[ItsChain(f, u, o)[k]]
  <2>1. CASE o = x
    BY <2>1, <1>3, <1>7, ChainCells
  <2>2. CASE o # x
    <3>1. o \in Owners(t) /\ ItsChain(f, u, o) = ItsChain(f, t, o)
      BY <2>2, <1>4, <1>6, <1>7
    <3>2. QED
      BY <3>1, <1>1, <1>3, <1>7 DEF TreeInv, Remembered, f, t
  <2>3. QED
    BY <2>1, <2>2
<1>8. FormatOrder'
  BY <1>1 DEF TreeInv, FormatOrder
<1>9. QED
  <2>1. Tree(diskFat', table', data')
    BY <1>1, <1>6 DEF f, u, h
  <2>2. \A o \in Owners(table') : \A k \in DOMAIN ItsChain(diskFat', table', o) :
           fat'[ItsChain(diskFat', table', o)[k]] = diskFat'[ItsChain(diskFat', table', o)[k]]
    BY <1>1, <1>7 DEF f, u
  <2>3. QED
    BY <1>1, <1>8, <2>1, <2>2, AtRest

(***************************************************************************)
(* The disk writes of a delete.                                            *)
(***************************************************************************)

\* The parent's table is written: the disk now is what it was shown to be.
LEMMA TreeUnlink ==
    ASSUME TreeInv, FreshInv', FlushParent, call.op = "delete"
    PROVE  TreeInv' /\ Unmoved
<1>1. /\ pc = "flush_parent" /\ pc' = "idle" /\ call' = NoCall
      /\ table' = [table EXCEPT ![call.dir] = call.parent]
      /\ data' = [data EXCEPT ![call.dir] = NoBlock]
      /\ UNCHANGED <<signature, diskFat, fat>>
  BY DEF FlushParent, PutTable, Return
<1>2. table' = Shown
  BY <1>1 DEF Shown
<1>3. diskFat \in [Cell -> FatValue] /\ data \in [Cluster -> Block]
  BY TreeTypes DEF TreeInv
<1>4. ASSUME NEW o \in Owners(Shown), NEW k \in DOMAIN ItsChain(diskFat, Shown, o)
      PROVE  \/ data'[ItsChain(diskFat, Shown, o)[k]] = data[ItsChain(diskFat, Shown, o)[k]]
             \/ /\ ItsEntry(Shown, o).attribute = "dir"
                /\ data'[ItsChain(diskFat, Shown, o)[k]] = NoBlock
  <2>1. ItsEntry(Shown, o).attribute = "file" =>
           Apart(<<call.dir>>, ItsChain(diskFat, Shown, o))
    BY <1>4 DEF TreeInv, Deleting, OffFiles
  <2>2. IsChain(diskFat, ItsChain(diskFat, Shown, o))
    BY DEF TreeInv, Tree, HasChain
  <2>3. ItsChain(diskFat, Shown, o)[k] \in Cluster
    BY <1>4, <2>2, ChainCells
  <2>4. ItsEntry(Shown, o).attribute = "file" => ItsChain(diskFat, Shown, o)[k] # call.dir
    BY <1>4, <2>1 DEF Apart
  <2>5. ItsEntry(Shown, o).attribute \in {"file", "dir"}
    BY TreeTypes, OwnedEntry DEF TreeInv
  <2>6. QED
    BY <1>1, <1>3, <2>3, <2>4, <2>5
<1>5. AllStay(diskFat, Shown, data, diskFat, Shown, data')
  BY <1>4 DEF AllStay, Stays
<1>6. Tree(diskFat', table', data')
  <2>1. Tree(diskFat, Shown, data')
    BY <1>3, <1>5, TreeKept DEF TreeInv
  <2>2. QED
    BY <1>1, <1>2, <2>1
<1>7. FormatOrder'
  BY <1>1 DEF TreeInv, FormatOrder
<1>8. \A o \in Owners(table') : \A k \in DOMAIN ItsChain(diskFat', table', o) :
         fat'[ItsChain(diskFat', table', o)[k]] = diskFat'[ItsChain(diskFat', table', o)[k]]
  <2>1. \A o \in Owners(Shown) : \A k \in DOMAIN ItsChain(diskFat, Shown, o) :
           fat[ItsChain(diskFat, Shown, o)[k]] = diskFat[ItsChain(diskFat, Shown, o)[k]]
    BY <1>1 DEF TreeInv, Remembered
  <2>2. diskFat' = diskFat /\ fat' = fat
    BY <1>1
  <2>3. QED
    BY <1>2, <2>1, <2>2
<1>9. Unmoved
  <2>1. Shown' = table' /\ diskFat' = diskFat
    BY <1>1 DEF Shown, NoCall
  <2>2. QED
    BY <1>2, <1>5, <2>1 DEF Unmoved
<1>10. QED
  BY <1>1, <1>6, <1>7, <1>8, <1>9, AtRest

\* What is known while the clusters of a deleted entry are cleared.
LEMMA Erasing ==
    ASSUME TreeInv, pc \in {"erase_dir", "erase", "erase_last"}
    PROVE  /\ call.op = "delete" /\ IsChain(fat, Rest) /\ Rest[1] = call.cluster
           /\ NoRoot(Rest) /\ \A o \in Owners(Shown) : Apart(Rest, ItsChain(diskFat, Shown, o))
           /\ 1 \in DOMAIN Rest /\ call.cluster \in Cluster
           /\ pc = "erase" => Len(Rest) > 1
           /\ pc = "erase_last" => Len(Rest) = 1
<1>1. call.op = "delete"
  BY DEF TreeInv, FreshInv, Fresh
<1>2. IsChain(fat, Rest) /\ Rest[1] = call.cluster /\ Spare(Rest)
  BY <1>1 DEF TreeInv, Deleting
<1>3. 1 \in DOMAIN Rest /\ Rest[1] \in Cluster
  BY <1>2, ChainCells
<1>4. QED
  BY <1>1, <1>2, <1>3 DEF TreeInv, Deleting, Spare

\* Clearing the first of the spare clusters leaves the tree as it is.
LEMMA SpareZeroed ==
    ASSUME TreeInv, FreshInv', pc \in {"erase_dir", "erase", "erase_last"},
           Zero(call.cluster), fat' = Cleared(fat, call.cluster),
           call'.op = call.op, call'.dir = call.dir, call'.parent = call.parent,
           pc' \in {"erase", "erase_last", "flush_fat"}
    PROVE  /\ Unmoved /\ Owners(Shown') = Owners(Shown)
           /\ \A o \in Owners(Shown) :
                 ItsChain(diskFat', Shown', o) = ItsChain(diskFat, Shown, o)
           /\ /\ pc' \in {"erase", "erase_last"} =>
                    IsChain(fat', Rest') /\ Rest'[1] = call'.cluster /\ Spare(Rest)'
              /\ pc' = "erase" => Len(Rest') > 1
              /\ pc' = "erase_last" => Len(Rest') = 1
              => TreeInv'
<1> DEFINE c == call.cluster
           q == Rest
<1>1. /\ call.op = "delete" /\ NoRoot(q)
      /\ \A o \in Owners(Shown) : Apart(q, ItsChain(diskFat, Shown, o))
      /\ 1 \in DOMAIN q /\ c \in Cluster /\ q[1] = c
  BY Erasing
<1>2. /\ diskFat \in [Cell -> FatValue] /\ fat \in [Cell -> FatValue]
      /\ Shown \in [Cluster -> Table] /\ call \in Calls
      /\ table \in [Cluster -> Table] /\ data \in [Cluster -> Block]
      /\ table' \in [Cluster -> Table] /\ call' \in Calls
  BY TreeTypes DEF TreeInv, FreshInv, SavedInv, TypeInv, TypeOK
<1>3. c # 0 /\ c # 1 /\ c # ROOT_CLUSTER_NUMBER
  BY <1>1, SizeAssumption DEF NoRoot, Cluster, ROOT_CLUSTER_NUMBER
<1>4. diskFat' = diskFat /\ signature' = signature
  BY <1>3, <1>2 DEF Zero, TreeInv, FreshInv, SavedInv, TypeInv, TypeOK
<1>5. /\ Written(table, data, table', data', c)
      /\ Shown = [table EXCEPT ![call.dir] = call.parent]
      /\ Shown' = [table' EXCEPT ![call.dir] = call.parent]
  BY <1>1 DEF Zero, Shown, Written
<1>6. Shown' \in [Cluster -> Table] /\ \A x \in Cluster : x # c => Shown'[x] = Shown[x]
  <2>1. call.parent \in Table
    BY <1>2 DEF Calls
  <2>2. QED
    BY <1>2, <1>5, <2>1 DEF Written
<1> HIDE DEF q, c
<1>7. /\ Tree(diskFat, Shown', data')
      /\ Owners(Shown') = Owners(Shown)
      /\ \A o \in Owners(Shown) : ItsChain(diskFat, Shown', o) = ItsChain(diskFat, Shown, o)
      /\ \A o \in Owners(Shown) : ItsEntry(Shown', o) = ItsEntry(Shown, o)
      /\ Unmoved
  <2>1. Tree(diskFat, Shown, data)
    BY DEF TreeInv
  <2>2. Written(Shown, data, Shown', data', q[1])
    BY <1>1, <1>5, <1>6 DEF Written
  <2>3. /\ Tree(diskFat, Shown', data') /\ q[1] \notin Directories(Shown)
        /\ Owners(Shown') = Owners(Shown)
        /\ \A o \in Owners(Shown) : ItsChain(diskFat, Shown', o) = ItsChain(diskFat, Shown, o)
        /\ AllStay(diskFat, Shown, data, diskFat, Shown', data')
    <3>1. /\ diskFat \in [Cell -> FatValue] /\ Shown \in [Cluster -> Table]
          /\ Shown' \in [Cluster -> Table] /\ 1 \in DOMAIN q /\ NoRoot(q)
          /\ \A o \in Owners(Shown) : Apart(q, ItsChain(diskFat, Shown, o))
      BY <1>1, <1>2, <1>6
    <3>2. QED
      BY <2>1, <2>2, <3>1, SpareWritten
  <2>4. \A d \in Directories(Shown) : Shown'[d] = Shown[d]
    BY <2>2, <2>3, DirectoriesType DEF Written
  <2>5. Unmoved
    BY <1>4, <2>3, <2>4 DEF Unmoved
  <2>6. QED
    BY <1>2, <1>6, <2>3, <2>4, <2>5, OwnersAgree
<1>8. fat' = [x \in Cell |-> IF x = c THEN FAT32_FAT_EMPTY_ENTRY ELSE fat[x]]
  BY DEF Cleared, c
<1>9. FormatOrder'
  <2>1. 0 .. ROOT_CLUSTER_NUMBER \subseteq Cell /\ \A x \in 0 .. ROOT_CLUSTER_NUMBER : x # c
    BY <1>3, SizeAssumption DEF ROOT_CLUSTER_NUMBER, Cell
  <2>2. Reserved(fat) /\ signature /\ Reserved(diskFat)
    BY DEF TreeInv, FormatOrder
  <2>3. Reserved(fat')
    BY <1>8, <2>1, <2>2 DEF Reserved
  <2>4. QED
    BY <1>4, <2>2, <2>3 DEF FormatOrder
<1>10. Remembered'
  <2>1. ASSUME NEW o \in Owners(Shown), NEW k \in DOMAIN ItsChain(diskFat, Shown, o)
        PROVE  fat'[ItsChain(diskFat, Shown, o)[k]] = diskFat[ItsChain(diskFat, Shown, o)[k]]
    <3>1. IsChain(diskFat, ItsChain(diskFat, Shown, o))
      BY DEF TreeInv, Tree, HasChain
    <3>2. ItsChain(diskFat, Shown, o)[k] \in Cell
      BY <2>1, <3>1, ChainCells, Ranges
    <3>3. ItsChain(diskFat, Shown, o)[k] # c
      BY <1>1, <2>1 DEF Apart
    <3>4. fat[ItsChain(diskFat, Shown, o)[k]] = diskFat[ItsChain(diskFat, Shown, o)[k]]
      BY <2>1 DEF TreeInv, Remembered
    <3>5. QED
      BY <1>8, <3>2, <3>3, <3>4
  <2>2. QED
    BY <1>4, <1>7, <2>1 DEF Remembered
<1>11. ASSUME pc' \in {"erase", "erase_last"} =>
                 IsChain(fat', Rest') /\ Rest'[1] = call'.cluster /\ Spare(Rest)',
              pc' = "erase" => Len(Rest') > 1,
              pc' = "erase_last" => Len(Rest') = 1
       PROVE  TreeInv'
  <2>1. (Tree(diskFat, Shown, data))'
    BY <1>4, <1>7
  <2>2. Deleting'
    <3>1. call.dir \in Cluster /\ \A o \in Owners(Shown) :
             ItsEntry(Shown, o).attribute = "file" => Apart(<<call.dir>>, ItsChain(diskFat, Shown, o))
      BY <1>1 DEF TreeInv, Deleting, OffFiles
    <3>2. call'.dir \in Cluster /\ \A o \in Owners(Shown') :
             ItsEntry(Shown', o).attribute = "file" => Apart(<<call'.dir>>, ItsChain(diskFat', Shown', o))
      BY <3>1, <1>4, <1>7
    <3>3. QED
      BY <3>2, <1>11 DEF Deleting, OffFiles
  <2>3. QED
    BY <1>1, <1>9, <1>10, <2>1, <2>2
       DEF TreeInv, MakingDirectory, MakingFile, Waiting
<1>12. QED
  BY <1>4, <1>7, <1>11

\* A directory has one cluster, and a chain has a last one.
LEMMA TreeEraseLast ==
    TreeInv /\ FreshInv' /\ (EraseDirectory \/ EraseLast) => TreeInv' /\ Unmoved
<1> SUFFICES ASSUME TreeInv, FreshInv', EraseDirectory \/ EraseLast PROVE TreeInv' /\ Unmoved
  OBVIOUS
<1>1. /\ pc \in {"erase_dir", "erase", "erase_last"} /\ pc' = "flush_fat" /\ call' = call
      /\ Zero(call.cluster) /\ fat' = Cleared(fat, call.cluster)
  BY DEF EraseDirectory, EraseLast
<1>2. QED
  BY <1>1, SpareZeroed

\* What a round of the loop leaves of the chain is the chain without its first cluster.
LEMMA RestShrinks ==
    ASSUME TreeInv, FreshInv', EraseCluster
    PROVE  /\ IsChain(fat', Rest') /\ Len(Rest') = Len(Rest) - 1
           /\ Rest'[1] = call'.cluster /\ Rest'[1] \in Cell /\ 1 \in DOMAIN Rest'
           /\ \A i \in DOMAIN Rest' : Rest'[i] = Rest[i + 1] /\ i + 1 \in DOMAIN Rest
           /\ call'.op = call.op /\ call'.dir = call.dir /\ call'.parent = call.parent
<1> DEFINE c    == call.cluster
           q    == Rest
           r    == [i \in 1 .. Len(q) - 1 |-> q[i + 1]]
           next == Lookup(fat, c, call.stray)
<1>1. /\ pc = "erase" /\ fat' = Cleared(fat, c)
      /\ call' = [call EXCEPT !.cluster = next, !.stray = ClearedStray(c)]
  BY DEF EraseCluster
<1>2. IsChain(fat, q) /\ q[1] = c /\ c \in Cell /\ Len(q) > 1
  BY <1>1, Erasing, Ranges
<1>3. call \in Calls /\ fat \in [Cell -> FatValue] /\ fat' \in [Cell -> FatValue]
  BY TreeTypes DEF TreeInv, FreshInv, SavedInv, TypeInv, TypeOK
<1>4. /\ call'.op = call.op /\ call'.dir = call.dir /\ call'.parent = call.parent
      /\ call'.cluster = next
  BY <1>1, <1>3 DEF Calls
<1> HIDE DEF q, c
<1>5. /\ IsChain(fat', r) /\ Len(r) = Len(q) - 1 /\ r[1] = fat[c]
      /\ \A i \in DOMAIN r : r[i] = q[i + 1] /\ i + 1 \in DOMAIN q
  BY <1>1, <1>2, <1>3, ClearedChain
<1> HIDE DEF r
<1>6. next = r[1] /\ r[1] \in Cell /\ 1 \in DOMAIN r
  BY <1>2, <1>5, ChainCells, Ranges DEF Lookup
<1>7. Rest' = r
  <2>1. Chain(fat', r[1], FAT32_FAT_EMPTY_ENTRY) = r
    BY <1>3, <1>5, Ranges, ChainIs
  <2>2. QED
    BY <1>4, <1>6, <2>1 DEF Rest
<1>8. QED
  BY <1>4, <1>5, <1>6, <1>7 DEF q

\* One round of the loop: what is left is the rest of the chain.
LEMMA TreeErase == TreeInv /\ FreshInv' /\ EraseCluster => TreeInv' /\ Unmoved
<1> SUFFICES ASSUME TreeInv, FreshInv', EraseCluster PROVE TreeInv' /\ Unmoved
  OBVIOUS
<1> DEFINE c == call.cluster
           q == Rest
           r == Rest'
<1>1. /\ pc = "erase" /\ Zero(c) /\ fat' = Cleared(fat, c)
      /\ pc' = IF Lookup(fat', call'.cluster, ClearedStray(c)) # FAT32_FAT_END_OF_FILE
               THEN "erase" ELSE "erase_last"
  <2>1. call \in Calls
    BY TreeTypes DEF TreeInv
  <2>2. QED
    BY <2>1 DEF EraseCluster, Calls
<1>2. /\ call.op = "delete" /\ NoRoot(q)
      /\ \A o \in Owners(Shown) : Apart(q, ItsChain(diskFat, Shown, o))
  BY <1>1, Erasing
<1>3. /\ IsChain(fat', r) /\ r[1] = call'.cluster /\ r[1] \in Cell /\ 1 \in DOMAIN r
      /\ \A i \in DOMAIN r : r[i] = q[i + 1] /\ i + 1 \in DOMAIN q
      /\ call'.op = call.op /\ call'.dir = call.dir /\ call'.parent = call.parent
  BY RestShrinks
<1> HIDE DEF q, c
<1>4. /\ Unmoved /\ Owners(Shown') = Owners(Shown)
      /\ \A o \in Owners(Shown) :
            ItsChain(diskFat', Shown', o) = ItsChain(diskFat, Shown, o)
      /\ /\ pc' \in {"erase", "erase_last"} =>
               IsChain(fat', Rest') /\ Rest'[1] = call'.cluster /\ Spare(Rest)'
         /\ pc' = "erase" => Len(Rest') > 1
         /\ pc' = "erase_last" => Len(Rest') = 1
         => TreeInv'
  BY <1>1, <1>3, SpareZeroed DEF c
<1>5. Spare(Rest)'
  <2>1. NoRoot(r)
    BY <1>2, <1>3 DEF NoRoot
  <2>2. \A o \in Owners(Shown) : Apart(r, ItsChain(diskFat, Shown, o))
    BY <1>2, <1>3 DEF Apart
  <2>3. QED
    BY <1>4, <2>1, <2>2 DEF Spare
<1> HIDE DEF r
<1>6. fat'[r[1]] = FAT32_FAT_END_OF_FILE <=> Len(r) = 1
  <2>1. Len(r) \in Nat \ {0} /\ DOMAIN r = 1 .. Len(r)
    BY <1>3 DEF IsChain
  <2>2. CASE Len(r) = 1
    BY <2>2, <1>3 DEF IsChain
  <2>3. CASE Len(r) # 1
    <3>1. 1 \in 1 .. Len(r) - 1 /\ 1 + 1 \in DOMAIN r /\ 1 + 1 = 2
      BY <2>1, <2>3
    <3>2. fat'[r[1]] = r[2]
      BY <3>1, <1>3 DEF IsChain
    <3>3. r[2] # FAT32_FAT_END_OF_FILE
      BY <3>1, <1>3, ChainCells, CellRanges
    <3>4. QED
      BY <2>3, <3>2, <3>3
  <2>4. QED
    BY <2>2, <2>3
<1>7. /\ pc' = "erase" => Len(r) > 1
      /\ pc' = "erase_last" => Len(r) = 1
      /\ pc' \in {"erase", "erase_last"}
  <2>1. Lookup(fat', call'.cluster, ClearedStray(c)) = fat'[r[1]]
    BY <1>3 DEF Lookup
  <2>2. Len(r) \in Nat \ {0}
    BY <1>3 DEF IsChain
  <2>3. pc' = IF fat'[r[1]] # FAT32_FAT_END_OF_FILE THEN "erase" ELSE "erase_last"
    BY <1>1, <2>1
  <2>4. CASE Len(r) = 1
    <3>1. pc' = "erase_last"
      BY <1>6, <2>3, <2>4
    <3>2. QED
      BY <2>4, <3>1
  <2>5. CASE Len(r) # 1
    <3>1. pc' = "erase"
      BY <1>6, <2>3, <2>5
    <3>2. \A n \in Nat \ {0} : n # 1 => n > 1
      OBVIOUS
    <3>3. Len(r) > 1
      BY <2>2, <2>5, <3>2, Zenon
    <3>4. QED
      BY <3>1, <3>3
  <2>6. QED
    BY <2>4, <2>5
<1>8. /\ pc' = "erase" => Len(Rest') > 1
      /\ pc' = "erase_last" => Len(Rest') = 1
      /\ IsChain(fat', Rest') /\ Rest'[1] = call'.cluster
  BY <1>3, <1>7 DEF r
<1>9. QED
  BY <1>4, <1>5, <1>8

(***************************************************************************)
(* Every step.                                                             *)
(***************************************************************************)
\* Every step keeps the tree's invariant.
LEMMA TreeNext == TreeInv /\ Benign /\ [Next]_vars => TreeInv'
<1> SUFFICES ASSUME TreeInv, Benign, [Next]_vars PROVE TreeInv'
  OBVIOUS
<1>1. FreshInv'
  BY FreshNext DEF TreeInv
<1>2. CASE MountSigned \/ SignDisk \/ PowerFails
  BY <1>1, <1>2, TreeMount, TreeFormat, TreePower
<1>3. CASE Request
  BY <1>1, <1>3, TreeRequest
<1>4. CASE FormatFat \/ FormatRoot \/ WriteNewTable \/ WriteContent \/ FlushFat
  BY <1>1, <1>4, TreeFormat, TreeNewTable, TreeContent, TreeFlushFat
<1>5. CASE FlushParent
  <2>1. call.op # "none" /\ call.op \in {"none", "mkdir", "file", "delete"}
    BY <1>5, TreeTypes DEF TreeInv, Waiting, FlushParent, Calls
  <2>2. QED
    BY <1>1, <1>5, <2>1, TreeCommit, TreeUnlink
<1>6. CASE EraseDirectory \/ EraseCluster \/ EraseLast
  BY <1>1, <1>6, TreeErase, TreeEraseLast
<1>7. CASE UNCHANGED vars
  <2>1. Shown' = Shown
    BY <1>7 DEF vars, Shown
  <2>2. QED
    BY <1>1, <1>7, <2>1
       DEF vars, TreeInv, FormatOrder, Remembered, OffFiles, Prepared, Spare, NewEntry, MakingDirectory,
           MakingFile, Rest, Deleting, Waiting
<1>8. QED
  BY <1>2, <1>3, <1>4, <1>5, <1>6, <1>7 DEF Next, Step

\* The chains of a tree are what NoCrossLink is about.
LEMMA TreeChains ==
    ASSUME diskFat \in [Cell -> FatValue], Tree(diskFat, Shown, data), NEW o \in Owners(Shown)
    PROVE  /\ ChainOf(o) = ItsChain(diskFat, Shown, o) /\ EntryOf(o) = ItsEntry(Shown, o)
           /\ IsChain(diskFat, ChainOf(o)) /\ Ends(diskFat, ChainOf(o), FAT32_FAT_EMPTY_ENTRY)
           /\ \A k \in DOMAIN ChainOf(o) :
                 ChainOf(o)[k] \in Cluster /\ ChainOf(o)[k] # ROOT_CLUSTER_NUMBER
<1> DEFINE q == ChainOf(o)
<1>1. q = ItsChain(diskFat, Shown, o) /\ EntryOf(o) = ItsEntry(Shown, o)
  BY DEF ChainOf, ItsChain, EntryOf, ItsEntry
<1>2. IsChain(diskFat, q) /\ NoRoot(q)
  BY <1>1 DEF Tree, HasChain
<1> HIDE DEF q
<1>3. Ends(diskFat, q, FAT32_FAT_EMPTY_ENTRY)
  BY <1>2, Ranges, ChainIs
<1>4. \A k \in DOMAIN q : q[k] \in Cluster /\ q[k] # ROOT_CLUSTER_NUMBER
  BY <1>2, ChainCells DEF NoRoot
<1>5. QED
  BY <1>1, <1>2, <1>3, <1>4 DEF q

\* A disk with a tree has no crossed chains, and its files are whole.
LEMMA TreeSafe ==
    ASSUME diskFat \in [Cell -> FatValue], Tree(diskFat, Shown, data),
           pc \notin {"off", "format_fat"} => Reserved(diskFat)
    PROVE  NoCrossLink /\ FilesWhole
<1>1. ASSUME NEW o \in Owners(Shown)
      PROVE  /\ Ends(diskFat, ChainOf(o), FAT32_FAT_EMPTY_ENTRY)
             /\ Owned(o) \subseteq Cluster \ {ROOT_CLUSTER_NUMBER}
  BY TreeChains DEF Owned
<1>2. ASSUME NEW o1 \in Owners(Shown), NEW o2 \in Owners(Shown), o1 # o2
      PROVE  Owned(o1) \cap Owned(o2) = {}
  <2>1. Apart(ItsChain(diskFat, Shown, o1), ItsChain(diskFat, Shown, o2))
    BY <1>2 DEF Tree
  <2>2. Apart(ChainOf(o1), ChainOf(o2))
    BY <2>1, TreeChains
  <2>3. QED
    BY <2>2 DEF Apart, Owned
<1>3. ASSUME NEW o \in Owners(Shown), EntryOf(o).attribute = "file"
      PROVE  /\ Len(ChainOf(o)) = EntryOf(o).filesize
             /\ \E p \in Payloads : \A k \in DOMAIN ChainOf(o) :
                   BlockAt(ChainOf(o)[k]) = <<p, k>>
  <2>1. HasContent(diskFat, Shown, data, o)
    BY DEF Tree
  <2>2. /\ Len(ChainOf(o)) = EntryOf(o).filesize
        /\ \E p \in Payloads : Holds(data, ChainOf(o), p)
    BY <1>3, <2>1, TreeChains DEF HasContent
  <2>3. PICK p \in Payloads : Holds(data, ChainOf(o), p)
    BY <2>2
  <2>4. \A k \in DOMAIN ChainOf(o) : BlockAt(ChainOf(o)[k]) = <<p, k>>
    BY <2>3, TreeChains DEF Holds, BlockAt
  <2>5. QED
    BY <2>2, <2>4
<1>4. QED
  BY <1>1, <1>2, <1>3 DEF NoCrossLink, FilesWhole, Reserved

\* Hence every state of the driver has neither fault.
LEMMA TreeInvSafe == TreeInv => NoCrossLink /\ FilesWhole
BY TreeSafe, TreeTypes DEF TreeInv, FormatOrder

\* Wherever the power fails but in a format or a delete, the disk is a tree of
\* entries on chains of clusters that end, share none and hold no reserved one.
THEOREM NoCrossLinkAlways == Benign => (Spec => []NoCrossLink)
<1> SUFFICES ASSUME Benign PROVE Spec => []NoCrossLink
  OBVIOUS
<1>1. QED
  BY TreeInit, TreeNext, TreeInvSafe, PTL DEF Spec

\* Then each file on the disk has the clusters and the content it was given.
THEOREM FilesWholeAlways == Benign => (Spec => []FilesWhole)
<1> SUFFICES ASSUME Benign PROVE Spec => []FilesWhole
  OBVIOUS
<1>1. QED
  BY TreeInit, TreeNext, TreeInvSafe, PTL DEF Spec

\* A call does not write to the disk when it is made.
LEMMA RequestReads ==
    ASSUME Request
    PROVE  UNCHANGED disk
<1>1. ASSUME NEW a, Reply(a)
      PROVE  UNCHANGED disk
  BY <1>1 DEF Reply
<1>2. ASSUME NEW d, NEW n, NEW size, ReadDirectory(d, n, size) \/ Read(d, n, size)
      PROVE  UNCHANGED disk
  BY <1>1, <1>2 DEF ReadDirectory, Read, ReadChain
<1>3. ASSUME NEW d, NEW n, NEW size, NEW p, Write(d, n, size, p)
      PROVE  UNCHANGED disk
  BY <1>1, <1>3 DEF Write, MakeDirectory, MakeFile
<1>4. ASSUME NEW d, NEW n, Delete(d, n)
      PROVE  UNCHANGED disk
  BY <1>1, <1>4 DEF Delete, Remove
<1>5. QED
  BY <1>2, <1>3, <1>4 DEF Request

\* The tree changes when the root is written, when a write is committed and when a
\* delete begins, and in no other step.
LEMMA TreeStays ==
    ASSUME TreeInv, Benign, Next, ~FormatRoot,
           ~(FlushParent /\ call.op \in {"mkdir", "file"}),
           call'.op = "delete" => call.op = "delete"
    PROVE  Unmoved
<1>1. FreshInv'
  BY FreshNext DEF TreeInv
<1>2. ASSUME UNCHANGED <<diskFat, table, data>>, Shown' = Shown
      PROVE  Unmoved
  BY <1>2 DEF Unmoved, AllStay, Stays
<1>3. CASE MountSigned \/ SignDisk
  BY <1>2, <1>3 DEF MountSigned, SignDisk, Shown, disk
<1>4. CASE Request
  <2>1. pc = "idle"
    BY <1>4 DEF Request, ReadDirectory, Read, Write, Delete
  <2>2. Shown = table /\ Shown' = table'
    BY <2>1, WhenIdle DEF Shown
  <2>3. QED
    BY <1>2, <1>4, <2>2, RequestReads DEF disk
<1>5. CASE FormatFat
  <2>1. /\ table = [c \in Cluster |-> EmptyTable] /\ table \in [Cluster -> Table]
        /\ Shown = table
    BY <1>5, WhenIdle, TreeTypes DEF FormatFat, TreeInv, FormatOrder
  <2>2. Owners(table) = {}
    BY <2>1, EmptyTree DEF EmptyTable, FreeEntry, Used
  <2>3. Shown' = Shown
    BY <1>5 DEF FormatFat, Shown
  <2>4. QED
    BY <2>1, <2>2, <2>3 DEF Unmoved, AllStay
<1>6. CASE FlushParent
  <2>1. call.op \in {"none", "mkdir", "file", "delete"} /\ call.op # "none"
    BY <1>6, TreeTypes DEF Calls, TreeInv, Waiting, FlushParent
  <2>2. QED
    BY <1>1, <1>6, <2>1, TreeUnlink
<1>7. CASE PowerFails \/ WriteNewTable \/ WriteContent \/ FlushFat
  BY <1>1, <1>7, TreePower, TreeNewTable, TreeContent, TreeFlushFat
<1>8. CASE EraseDirectory \/ EraseCluster \/ EraseLast
  BY <1>1, <1>8, TreeErase, TreeEraseLast
<1>9. QED
  BY <1>3, <1>4, <1>5, <1>6, <1>7, <1>8 DEF Next, Step

\* A process names a directory of the tree: what is written goes to one.
Placed == call.op \in {"mkdir", "file"} => call.dir \in Directories(table)

\* A write that is entered is into a directory, and it stays one until the call returns.
LEMMA PlacedNext == TreeInv /\ Placed /\ Benign /\ [Next]_vars => Placed'
<1> SUFFICES ASSUME TreeInv, Placed, Benign, [Next]_vars, call'.op \in {"mkdir", "file"}
             PROVE  call'.dir \in Directories(table')
  BY DEF Placed
<1>1. ASSUME call.op \in {"mkdir", "file"}, call'.op = call.op, call'.dir = call.dir,
             TreeInv', Unmoved
      PROVE  call'.dir \in Directories(table')
  <2>1. /\ Shown = table /\ table \in [Cluster -> Table]
        /\ Shown' = table' /\ table' \in [Cluster -> Table]
    BY <1>1, TreeTypes DEF TreeInv, FreshInv, SavedInv, TypeInv, TypeOK, Shown
  <2>2. Directories(table') = Directories(table)
    BY <1>1, <2>1, DirectoriesAgree DEF Unmoved
  <2>3. QED
    BY <1>1, <2>2 DEF Placed
<1>2. FreshInv' /\ TreeInv'
  BY FreshNext, TreeNext DEF TreeInv
<1>3. CASE UNCHANGED <<table, call>>
  BY <1>3 DEF Placed
<1>4. CASE Request
  <2>1. ASSUME NEW a, Reply(a)
        PROVE  call' = call /\ table' = table
    BY <2>1 DEF Reply, disk
  <2>2. ASSUME NEW d \in Directories(table) \cup {0}, NEW n, NEW size, NEW p,
               Write(d, n, size, p)
        PROVE  call'.dir \in Directories(table')
    <3>1. CASE d >= ROOT_CLUSTER_NUMBER
      <4>1. d \in Directories(table)
        BY <3>1 DEF ROOT_CLUSTER_NUMBER
      <4>2. UNCHANGED disk /\ (call' = call \/ call'.dir = d)
        BY <2>1, <2>2 DEF Write, MakeDirectory, MakeFile, Enter, NoCall, Reply
      <4>3. QED
        BY <1>3, <4>1, <4>2 DEF disk
    <3>2. CASE ~(d >= ROOT_CLUSTER_NUMBER)
      BY <1>3, <2>1, <2>2, <3>2 DEF Write
    <3>3. QED
      BY <3>1, <3>2
  <2>3. ASSUME NEW d, NEW n, Delete(d, n)
        PROVE  call'.dir \in Directories(table')
    <3>1. call' = call /\ table' = table
      BY <2>1, <2>3 DEF Delete, Remove, Enter, NoCall
    <3>2. QED
      BY <1>3, <3>1
  <2>4. ASSUME NEW d, NEW n, NEW size, ReadDirectory(d, n, size) \/ Read(d, n, size)
        PROVE  call'.dir \in Directories(table')
    <3>1. call' = call /\ table' = table
      BY <2>1, <2>4 DEF ReadDirectory, Read, ReadChain, disk
    <3>2. QED
      BY <1>3, <3>1
  <2>5. QED
    BY <1>4, <2>2, <2>3, <2>4 DEF Request
<1>5. CASE WriteNewTable \/ WriteContent \/ FlushFat
  <2>1. call \in Calls
    BY TreeTypes DEF TreeInv
  <2>2. call'.op = call.op /\ call'.dir = call.dir
    BY <1>5, <2>1 DEF WriteNewTable, WriteContent, FlushFat, Calls
  <2>3. QED
    BY <1>1, <1>2, <1>5, <2>2, TreeNewTable, TreeContent, TreeFlushFat
<1>6. CASE MountSigned \/ SignDisk \/ FormatFat \/ FormatRoot
  BY <1>6, WhenIdle DEF MountSigned, SignDisk, FormatFat, FormatRoot
<1>7. CASE PowerFails \/ FlushParent
  BY <1>7 DEF PowerFails, FlushParent, Return, NoCall
<1>8. CASE EraseDirectory \/ EraseCluster \/ EraseLast
  <2>1. call.op = "delete" /\ call \in Calls
    BY <1>8, TreeTypes, Erasing DEF TreeInv, EraseDirectory, EraseCluster, EraseLast
  <2>2. call'.op = "delete"
    BY <1>8, <2>1 DEF EraseDirectory, EraseCluster, EraseLast, Calls
  <2>3. QED
    BY <2>2
<1>9. QED
  BY <1>3, <1>4, <1>5, <1>6, <1>7, <1>8 DEF Next, Step, vars

\* A delete takes its entry out of the tree, which stays as it is but for that.
LEMMA Removed ==
    ASSUME TreeInv, pc = "idle", NEW d \in Directories(table), NEW s \in Slot,
           NEW stray, NEW next, Remove(d, s, stray, next)
    PROVE  /\ Shown = table /\ Shown' = Put(table, d, s, FreeEntry)
           /\ AllStay(diskFat, table, data, diskFat, Shown', data)
           /\ UNCHANGED disk /\ call'.op = "delete"
<1>1. Shown = table /\ table \in [Cluster -> Table] /\ d \in Cluster
  BY WhenIdle, TreeTypes, DirectoriesType DEF TreeInv
<1>2. Shown' = Put(table, d, s, FreeEntry) /\ UNCHANGED disk /\ call'.op = "delete"
  BY DEF Remove, Enter, NoCall, Shown, Put, disk
<1>3. /\ Owners(Shown') \subseteq Owners(table)
      /\ \A o \in Owners(Shown') : ItsEntry(Shown', o) = ItsEntry(table, o)
  BY <1>1, <1>2, OwnersRemoved
<1>4. QED
  BY <1>1, <1>2, <1>3 DEF AllStay, Stays

\* Only the request for one begins a delete.
LEMMA DeleteBegins ==
    ASSUME TreeInv, Next, call'.op = "delete", call.op # "delete"
    PROVE  /\ pc = "idle"
           /\ \E d \in Directories(table), n \in Names, s \in Slot \ {0},
                 stray \in StrayWords, next \in {"erase_dir", "erase"} :
                 /\ FirstMatch(table[d], n, s) /\ Remove(d, s, stray, next)
                 /\ \/ /\ table[d][s].attribute = "dir" /\ next = "erase_dir"
                       /\ Vacant(table[table[d][s].cluster])
                    \/ table[d][s].attribute = "file" /\ next = "erase"
<1>1. call \in Calls
  BY TreeTypes DEF TreeInv
<1>2. Request
  <2>1. ~(MountSigned \/ SignDisk \/ FormatFat \/ FormatRoot \/ WriteNewTable \/ FlushFat
            \/ EraseDirectory \/ EraseLast)
    BY DEF MountSigned, SignDisk, FormatFat, FormatRoot, WriteNewTable, FlushFat,
           EraseDirectory, EraseLast
  <2>2. ~(PowerFails \/ FlushParent)
    BY DEF PowerFails, FlushParent, Return, NoCall
  <2>3. ~EraseCluster
    BY <1>1 DEF EraseCluster, Calls
  <2>4. ~WriteContent
    BY <1>1 DEF WriteContent, Calls
  <2>5. QED
    BY <2>1, <2>2, <2>3, <2>4 DEF Next, Step
<1>3. ASSUME NEW a, Reply(a)
      PROVE  FALSE
  BY <1>3 DEF Reply
<1>4. ASSUME NEW d, NEW n, NEW size, ReadDirectory(d, n, size) \/ Read(d, n, size)
      PROVE  FALSE
  BY <1>3, <1>4 DEF ReadDirectory, Read, ReadChain
<1>5. ASSUME NEW d, NEW n, NEW size, NEW p, Write(d, n, size, p)
      PROVE  FALSE
  BY <1>3, <1>5 DEF Write, MakeDirectory, MakeFile, Enter, NoCall
<1>6. PICK d \in Directories(table), n \in Names \cup {NoName} : Delete(d, n)
  BY <1>2, <1>4, <1>5 DEF Request
<1>7. pc = "idle" /\ n \in Names
  BY <1>3, <1>6 DEF Delete
<1>8. PICK s \in Slot, stray \in StrayWords :
         /\ FirstMatch(table[d], n, s)
         /\ LET e == table[d][s] IN
            \/ e.attribute = "dir" /\ Vacant(table[e.cluster]) /\ Remove(d, s, stray, "erase_dir")
            \/ e.attribute = "file" /\ Remove(d, s, stray, "erase")
  BY <1>3, <1>6 DEF Delete
<1>9. s \in Slot \ {0}
  BY <1>8 DEF FirstMatch, Matches
<1>10. QED
  BY <1>7, <1>8, <1>9

\* Slot 0 of a directory changes in the last disk write of a write only.
LEMMA FirstSlotKept ==
    ASSUME TreeInv, Benign, Next, NEW d \in Directories(Shown), Used(Shown[d][0]),
           ~(FlushParent /\ call.op \in {"mkdir", "file"})
    PROVE  Shown'[d][0] = Shown[d][0]
<1>1. d \in Cluster /\ Shown \in [Cluster -> Table]
  BY DirectoriesType, TreeTypes DEF TreeInv
<1>2. CASE FormatRoot
  <2>1. Shown = [c \in Cluster |-> EmptyTable]
    BY <1>2, WhenIdle DEF TreeInv, FormatOrder, FormatRoot
  <2>2. QED
    BY <2>1, <1>1, Ranges DEF Used, EmptyTable, FreeEntry
<1>3. CASE ~FormatRoot /\ call'.op = "delete" /\ call.op # "delete"
  <2>1. PICK e \in Directories(table), s \in Slot \ {0}, stray \in StrayWords,
             next \in {"erase_dir", "erase"} : Remove(e, s, stray, next)
    BY <1>3, DeleteBegins
  <2>2. pc = "idle"
    BY <1>3, DeleteBegins
  <2>3. e \in Cluster
    BY DirectoriesType
  <2>4. Shown = table /\ Shown' = Put(table, e, s, FreeEntry)
    BY <2>1, <2>2, Removed
  <2>5. QED
    BY <1>1, <2>3, <2>4, Ranges DEF Table, Put
<1>4. CASE ~FormatRoot /\ (call'.op = "delete" => call.op = "delete")
  BY <1>4, TreeStays DEF Unmoved
<1>5. QED
  BY <1>2, <1>3, <1>4

\* The disk is formatted.
HasRoot == signature /\ pc \notin {"format_fat", "format_root"}

\* It becomes so when the root is written, and at no other step.
LEMMA HasRootBefore ==
    ASSUME TreeInv, Benign, Next, ~FormatRoot, HasRoot'
    PROVE  HasRoot
<1>1. ~SignDisk /\ ~FormatFat
  BY DEF SignDisk, FormatFat, HasRoot
<1>2. PowerFails => HasRoot /\ signature' = signature
  BY DEF PowerFails, Benign, Activity, HasRoot, TreeInv, FormatOrder
<1>3. signature
  <2>1. CASE pc = "off"
    BY <2>1, <1>1
       DEF Next, MountSigned, PowerFails, Step, Request, ReadDirectory, Read, Write, Delete,
           FormatRoot, WriteNewTable, WriteContent, FlushFat, FlushParent,
           EraseDirectory, EraseCluster, EraseLast
  <2>2. CASE pc # "off"
    BY <2>2 DEF TreeInv, FormatOrder
  <2>3. QED
    BY <2>1, <2>2
<1>4. pc \notin {"format_fat", "format_root"}
  BY <1>1, <1>2
     DEF HasRoot, Next, MountSigned, Step, Request, ReadDirectory, Read, Write, Delete,
         WriteNewTable, WriteContent, FlushFat, FlushParent,
         EraseDirectory, EraseCluster, EraseLast
<1>5. QED
  BY <1>3, <1>4 DEF HasRoot

\* A directory loses its own entry to the last disk write of a write into a full table.
LEMMA SelfEntryStep ==
    ASSUME TreeInv, Benign, Next,
           NEW d \in Directories(Shown), IsSelfEntry(Shown, d, 0), ~IsSelfEntry(Shown', d, 0)
    PROVE  \A s \in Slot : Used(table[d][s])
<1>1. FlushParent /\ call.op \in {"mkdir", "file"}
  BY FirstSlotKept DEF IsSelfEntry, Used
<1>2. Prepared /\ Shown = table /\ table \in [Cluster -> Table]
  BY <1>1, Writing, TreeTypes DEF TreeInv
<1>3. table' = [table EXCEPT ![call.dir] = [table[call.dir] EXCEPT ![call.slot] = NewEntry]]
  BY <1>1, <1>2 DEF Prepared, FlushParent, PutTable
<1>4. Shown' = table'
  BY <1>1 DEF FlushParent, Return, Shown, NoCall
<1>5. d \in Cluster /\ call.dir \in Cluster
  BY <1>2, DirectoriesType DEF Prepared
<1>6. d = call.dir /\ call.slot = 0
  <2>1. table'[d][0] # table[d][0]
    BY <1>2, <1>4 DEF IsSelfEntry
  <2>2. QED
    BY <1>2, <1>3, <1>5, <2>1, Ranges DEF Table
<1>7. Used(table[d][0])
  BY <1>2 DEF IsSelfEntry, Used
<1>8. QED
  BY <1>2, <1>6, <1>7 DEF Prepared, TakesSlot

\* A directory of the tree loses its own entry to a write into a full table only.
THEOREM SelfEntryKeptAlways == Benign => (Spec => SelfEntryKept)
<1> SUFFICES ASSUME Benign PROVE Spec => SelfEntryKept
  OBVIOUS
<1>1. TreeInv /\ [Next]_vars =>
         [\A d \in Directories(Shown) \cap Directories(Shown') :
             (IsSelfEntry(Shown, d, 0) /\ ~IsSelfEntry(Shown', d, 0))
                => \A s \in Slot : Used(table[d][s])]_vars
  BY SelfEntryStep
<1>2. QED
  BY TreeInit, TreeNext, <1>1, PTL DEF Spec, SelfEntryKept
=============================================================================
