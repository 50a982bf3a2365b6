----------------------------- MODULE MoveProofs -----------------------------
(***************************************************************************)
(* Proofs about moves.  For moves of every kind, wherever the power fails: *)
(* a move that puts tables into clusters that are not theirs damages no    *)
(* type and neither FAT.  And the tree of the disk, for moves from one     *)
(* directory to another, while no table is full; with the power on, they   *)
(* leak no cluster.                                                        *)
(***************************************************************************)
EXTENDS Move, TreeProofs

Tables == [src : Table, dest : Table, from : {0} \cup Cluster, to : {0} \cup Cluster]

\* Between the driver's calls, with the processor inside system call 8.
Between ==
    /\ signature \in BOOLEAN
    /\ diskFat \in [Cell -> FatValue]
    /\ table \in [Cluster -> Table]
    /\ data \in [Cluster -> Block]
    /\ fat \in [Cell -> FatValue]
    /\ call = NoCall
    /\ out \in [code : -1 .. Pending, blocks : Seq(Block), listed : {0} \cup Cluster]
    /\ Agree

Moving  == pc \in {"move_src", "move_dest"}
MoveInv == move \in Tables /\ (Moving => Between) /\ (~Moving => FreshInv)

\* The driver never is between two of its calls while it serves one.
LEMMA IdleBetween == FreshInv /\ pc = "idle" => Between
BY DEF FreshInv, SavedInv, Saved, TypeInv, TypeOK, Fresh, Between

\* What holds between two calls is the driver's invariant with no call under way.
LEMMA BetweenIdle ==
    ASSUME Between', pc' = "idle"
    PROVE  FreshInv'
<1>1. call' \in Calls /\ call'.op = "none" /\ call'.chain = <<>>
  BY EmptyTypes DEF Between, NoCall
<1>2. TypeInv'
  BY <1>1 DEF Between, TypeInv, TypeOK, CallOK, Phases
<1>3. QED
  BY <1>2 DEF Between, FreshInv, SavedInv, Saved, Fresh

\* The tables handed over are tables, and so are what is written back.
LEMMA MoveEntryType ==
    ASSUME MoveInv, NEW s \in Directories(table), NEW d \in Directories(table),
           NEW i \in Slot, MoveEntry(s, d, i)
    PROVE  MoveInv'
<1>1. FreshInv /\ Between /\ pc' = "move_src"
  BY IdleBetween DEF MoveEntry, MoveInv, Moving
<1>2. table[s] \in Table /\ table[d] \in Table
  BY <1>1, DirectoriesType DEF Between
<1>3. Taken(table[s], i) \in Table
  BY <1>2 DEF Taken, Table
<1>4. \A k \in Slot : [table[d] EXCEPT ![k] = table[s][i]] \in Table
  BY <1>2 DEF Table
<1>5. ASSUME NEW src \in Table, NEW dest \in Table, Hand(src, dest)
      PROVE  move' \in Tables
  <2>1. \A t \in Table : t[0].cluster \in {0} \cup Cluster
    BY Ranges DEF Table, UsedEntry, FreeEntry
  <2>2. QED
    BY <2>1, <1>5 DEF Hand, Tables
<1>6. move' \in Tables
  BY <1>2, <1>3, <1>4, <1>5 DEF MoveEntry
<1>7. Between'
  BY <1>1 DEF MoveEntry, Between, disk, Agree
<1>8. QED
  BY <1>1, <1>6, <1>7 DEF MoveInv, Moving

\* Writing a table back keeps the types.
LEMMA WriteBackType ==
    ASSUME Between, NEW c, NEW t \in Table, WriteBack(c, t),
           UNCHANGED <<diskFat, fat, call, out>>
    PROVE  Between'
<1>1. NoBlock \in Block
  BY DEF Block
<1>2. QED
  BY <1>1 DEF WriteBack, Between, Agree

\* The moves' invariant at the start.
LEMMA MoveInvInit == MoveInit => MoveInv
<1>1. NoMove \in Tables
  BY EmptyTypes DEF NoMove, Tables
<1>2. QED
  BY <1>1, FreshInit DEF MoveInit, MoveInv, Moving, Init

\* The driver takes a step outside of a move only.
LEMMA DriverRests == MoveInv /\ Next => FreshInv /\ ~Moving
<1> SUFFICES ASSUME MoveInv, Next PROVE FreshInv /\ ~Moving
  OBVIOUS
<1>1. CASE PowerFails
  BY <1>1, PowerAssumption DEF PowerFails, Activity, Activities, MoveInv, Moving, Between, NoCall
<1>2. CASE Next /\ ~PowerFails
  BY <1>2 DEF MoveInv, Moving, Next, Request, ReadDirectory, Read, Write, Delete, Step,
       MountSigned, SignDisk, FormatFat, FormatRoot, WriteNewTable, WriteContent, FlushFat,
       FlushParent, EraseDirectory, EraseCluster, EraseLast
<1>3. QED
  BY <1>1, <1>2

\* Every step of the driver and of a move keeps it.
LEMMA MoveInvNext == MoveInv /\ [MoveNext]_moveVars => MoveInv'
<1> SUFFICES ASSUME MoveInv, [MoveNext]_moveVars PROVE MoveInv'
  OBVIOUS
<1>1. NoMove \in Tables
  BY EmptyTypes DEF NoMove, Tables
<1>2. CASE Next /\ UNCHANGED move
  <2>1. FreshInv
    BY <1>2, DriverRests
  <2>2. FreshInv'
    BY <2>1, <1>2, FreshNext
  <2>3. ~Moving'
    BY <2>2 DEF FreshInv, SavedInv, TypeInv, TypeOK, Phases, Moving
  <2>4. QED
    BY <1>2, <2>2, <2>3 DEF MoveInv
<1>3. ASSUME NEW s \in Directories(table), NEW d \in Directories(table), NEW n \in Names,
             StartMove(s, d, n)
      PROVE  MoveInv'
  BY <1>3, MoveEntryType DEF StartMove
<1>4. CASE MoveSource
  <2>1. Between'
    BY <1>4, WriteBackType DEF MoveSource, MoveInv, Moving, Tables
  <2>2. QED
    BY <1>4, <2>1 DEF MoveSource, MoveInv, Moving
<1>5. CASE MoveDest
  <2>1. Between'
    BY <1>5, WriteBackType DEF MoveDest, MoveInv, Moving, Tables
  <2>2. QED
    BY <1>1, <1>5, <2>1, BetweenIdle DEF MoveDest, MoveInv, Moving
<1>6. CASE MovePowerFails
  <2>1. call' = NoCall /\ pc' = "off" /\ move' = NoMove /\ Between
    BY <1>6 DEF MovePowerFails, MoveInv, Moving, Between
  <2>2. TypeInv'
    BY <1>6, <2>1, AnswerType, EmptyTypes
       DEF MovePowerFails, Between, TypeInv, TypeOK, CallOK, Phases, Pending, disk
  <2>3. FreshInv'
    BY <2>1, <2>2 DEF FreshInv, SavedInv, Saved, Fresh
  <2>4. QED
    BY <1>1, <2>1, <2>3 DEF MoveInv, Moving
<1>7. CASE UNCHANGED moveVars
  <2>1. FreshInv => FreshInv'
    BY <1>7, FreshNext DEF moveVars
  <2>2. QED
    BY <1>7, <2>1 DEF moveVars, vars, MoveInv, Moving, Between, Agree
<1>8. QED
  BY <1>2, <1>3, <1>4, <1>5, <1>6, <1>7 DEF MoveNext

\* Types are kept whatever is moved where, also when mv writes a table to a
\* cluster that was another's or to the boot sector (interrupt.c:133-137).
THEOREM MoveTypeCorrect == MoveSpec => []MoveTypeOK
<1>1. MoveInv => MoveTypeOK
  BY DEF MoveInv, MoveTypeOK, Moving, Tables, FreshInv, SavedInv, TypeInv
<1>2. QED
  BY MoveInvInit, MoveInvNext, <1>1, PTL DEF MoveSpec

\* No move disturbs the FAT, in memory or on the disk (interrupt.c:95-137).
THEOREM MoveFatFlushed == MoveSpec => []FatFlushed
<1>1. MoveInv => FatFlushed
  BY IdleBetween DEF MoveInv, FatFlushed, Moving, Between
<1>2. QED
  BY MoveInvInit, MoveInvNext, <1>1, PTL DEF MoveSpec

\* A write leaves what the disk has in use alone until its last disk write,
\* also after moves that left tables where none belongs (fat32.c:297-342).
THEOREM MoveCommittedUntouched == MoveSpec => CommittedUntouched
<1>1. MoveInv /\ [MoveNext]_moveVars =>
        [call.op \in {"mkdir", "file"} =>
            \A c \in Cluster :
               diskFat[c] # FAT32_FAT_EMPTY_ENTRY /\ <<table'[c], data'[c]>> # <<table[c], data[c]>>
                  => pc = "flush_parent" /\ c = call.dir]_vars
  <2> SUFFICES ASSUME MoveInv, [MoveNext]_moveVars, call.op \in {"mkdir", "file"}, NEW c \in Cluster,
                      diskFat[c] # FAT32_FAT_EMPTY_ENTRY,
                      <<table'[c], data'[c]>> # <<table[c], data[c]>>
               PROVE  pc = "flush_parent" /\ c = call.dir
    OBVIOUS
  <2>1. call # NoCall
    BY DEF NoCall
  <2>2. FreshInv /\ pc # "idle"
    BY <2>1, IdleBetween DEF MoveInv, Between
  <2>3. Next
    BY <2>1, <2>2 DEF MoveNext, StartMove, MoveEntry, MoveSource, MoveDest, MovePowerFails, MoveInv, Moving,
         Between, moveVars, vars
  <2>4. QED
    BY <2>2, <2>3, UntouchedStep
<1>2. QED
  BY MoveInvInit, MoveInvNext, <1>1, PTL DEF MoveSpec, CommittedUntouched

(***************************************************************************)
(* The tree under moves.  A move writes two tables to the clusters their   *)
(* slots 0 name, so it is right where these are the directories' own; the  *)
(* driver takes slot 0 for another entry when a table is full.             *)
(***************************************************************************)
\* No directory's table is full.
Room == \A d \in Directories(table) : \E s \in Slot : ~Used(table[d][s])

\* Every directory has its own entry, and a write is into a directory.
Own(t)     == \A d \in Directories(t) : IsSelfEntry(t, d, 0)
OwnEntries == Placed /\ (HasRoot => Own(Shown))

\* An entry that is put in for a new directory.
LEMMA OwnAdded ==
    ASSUME NEW t \in [Cluster -> Table], NEW d \in Directories(t), NEW s \in Slot \ {0},
           NEW e \in UsedEntry, NEW u, u = Put(t, d, s, e),
           Own(t), Blank(t, e), e.cluster \notin Directories(t)
    PROVE  Own(u)
<1>1. d \in Cluster /\ e.cluster # d /\ 0 \in Slot
  BY DirectoriesType, Ranges
<1>2. Directories(u) \subseteq Directories(t) \cup {c \in {e.cluster} : e.attribute = "dir"}
  BY <1>1, OwnersAdded
<1>3. \A c \in Cluster : u[c][0] = t[c][0]
  BY <1>1 DEF Put, Table
<1>4. ASSUME NEW c \in Directories(u)
      PROVE  IsSelfEntry(t, c, 0)
  <2>1. CASE c \in Directories(t)
    BY <2>1 DEF Own
  <2>2. CASE c \notin Directories(t)
    <3>1. c = e.cluster /\ e.attribute = "dir"
      BY <1>2, <2>2
    <3>2. PICK n : t[c] = NewTable(n, c)
      BY <3>1 DEF Blank
    <3>3. QED
      BY <1>1, <3>2 DEF NewTable, EmptyTable, IsSelfEntry
  <2>3. QED
    BY <2>1, <2>2
<1>5. QED
  BY <1>3, <1>4, DirectoriesType DEF Own, IsSelfEntry

\* Tables with the same first slots, and directories that are some of the others'.
LEMMA OwnKept ==
    ASSUME NEW t, NEW u, Own(t), Directories(u) \subseteq Directories(t),
           \A d \in Directories(u) : u[d][0] = t[d][0]
    PROVE  Own(u)
BY DEF Own, IsSelfEntry

\* While no table is full the driver keeps every directory's own entry.
LEMMA OwnNext ==
    ASSUME TreeInv, Benign, OwnEntries, Room, Next
    PROVE  OwnEntries'
<1> SUFFICES ASSUME HasRoot' PROVE Own(Shown')
  BY PlacedNext DEF OwnEntries
<1>1. /\ Shown \in [Cluster -> Table] /\ table \in [Cluster -> Table]
      /\ call.op # "delete" => Shown = table
  BY TreeTypes DEF TreeInv
<1>2. TreeInv'
  BY TreeNext
<1>3. Shown' \in [Cluster -> Table] /\ table' \in [Cluster -> Table]
  <2>1. table' \in [Cluster -> Table] /\ call'.parent \in Table
    BY <1>2 DEF TreeInv, FreshInv, SavedInv, TypeInv, TypeOK, Calls
  <2>2. QED
    BY <2>1 DEF Shown
<1>4. CASE FormatRoot
  <2> DEFINE r == NewTable(RootName, ROOT_CLUSTER_NUMBER)
  <2>1. /\ table = [c \in Cluster |-> EmptyTable] /\ Shown' = table'
        /\ table' = [table EXCEPT ![ROOT_CLUSTER_NUMBER] = r]
    BY <1>4, WhenIdle DEF FormatRoot, TreeInv, FormatOrder, Shown
  <2>2. /\ r[0].attribute = "dir" /\ r[0].cluster = ROOT_CLUSTER_NUMBER
        /\ \A s \in Slot : s # 0 => r[s].attribute = "none"
    BY Ranges DEF NewTable, EmptyTable, FreeEntry
  <2> HIDE DEF r
  <2>3. Closed(Shown', {ROOT_CLUSTER_NUMBER})
    BY <2>1, <2>2, Ranges DEF Closed
  <2>4. Directories(Shown') \subseteq {ROOT_CLUSTER_NUMBER}
    BY <1>3, <2>3, Ranges, DirectoriesAre
  <2>5. QED
    BY <2>1, <2>2, <2>4, Ranges DEF Own, IsSelfEntry
<1>5. CASE ~FormatRoot
  <2>1. Own(Shown)
    BY <1>5, HasRootBefore DEF OwnEntries
  <2>2. CASE FlushParent /\ call.op \in {"mkdir", "file"}
    <3> DEFINE e == NewEntry
               d == call.dir
               s == call.slot
    <3>1. /\ d \in Directories(table) /\ s \in Slot /\ e \in UsedEntry
          /\ Shown = table /\ Shown' = Put(table, d, s, e)
          /\ call.chain[1] \notin Directories(table)
      BY <2>2, Committed DEF OwnEntries, Placed
    <3>2. /\ TakesSlot(table[d], s) /\ e.cluster = call.chain[1]
          /\ e.attribute = "dir" => table[e.cluster] = NewTable(e.name, e.cluster)
      <4>1. Prepared /\ (call.op = "mkdir" <=> e.attribute = "dir")
        BY <2>2, Writing
      <4>2. pc = "flush_parent"
        BY <2>2 DEF FlushParent
      <4>3. QED
        BY <4>1, <4>2 DEF Prepared, TreeInv, MakingDirectory
    <3>3. s # 0
      <4>1. Used(table[d][0])
        BY <2>1, <3>1 DEF Own, IsSelfEntry, Used
      <4>2. \E r \in Slot : ~Used(table[d][r])
        BY <3>1 DEF Room
      <4>3. QED
        BY <3>2, <4>1, <4>2 DEF TakesSlot
    <3> HIDE DEF e, d, s
    <3>4. QED
      BY <1>1, <2>1, <3>1, <3>2, <3>3, OwnAdded DEF Blank
  <2>3. CASE ~(FlushParent /\ call.op \in {"mkdir", "file"})
    <3>1. \A d \in Directories(Shown) : Shown'[d][0] = Shown[d][0]
      BY <2>1, <2>3, FirstSlotKept DEF Own, IsSelfEntry, Used
    <3>2. Directories(Shown') \subseteq Directories(Shown)
      <4>1. CASE call'.op = "delete" /\ call.op # "delete"
        <5>1. pc = "idle"
          BY <4>1, DeleteBegins
        <5>2. PICK d \in Directories(table), s \in Slot \ {0}, stray \in StrayWords,
                   next \in {"erase_dir", "erase"} : Remove(d, s, stray, next)
          BY <4>1, DeleteBegins
        <5>3. Shown = table /\ Shown' = Put(table, d, s, FreeEntry) /\ d \in Cluster
          BY <5>1, <5>2, Removed, DirectoriesType
        <5>4. QED
          BY <1>1, <5>3, OwnersRemoved
      <4>2. CASE call'.op = "delete" => call.op = "delete"
        <5>1. Unmoved
          BY <1>5, <2>3, <4>2, TreeStays
        <5>2. QED
          BY <1>1, <1>3, <5>1, DirectoriesAgree DEF Unmoved
      <4>3. QED
        BY <4>1, <4>2
    <3>3. QED
      BY <2>1, <3>1, <3>2, OwnKept
  <2>4. QED
    BY <2>2, <2>3
<1>6. QED
  BY <1>4, <1>5

(***************************************************************************)
(* A move as a change of tables.                                           *)
(***************************************************************************)
\* u is t after entry i of directory s has gone to slot k of directory d.
Relocated(t, s, i, d, k) == [t EXCEPT ![s] = Taken(t[s], i), ![d] = [t[d] EXCEPT ![k] = t[s][i]]]

\* The owner in t of what o owns in u.
Origin(o, s, i, d, k) == IF o = <<d, k>> THEN <<s, i>> ELSE o

\* A move to another directory gives the entry a new owner and leaves all others;
\* it adds no directory.
LEMMA OwnersRelocated ==
    ASSUME NEW t \in [Cluster -> Table], NEW s \in Directories(t), NEW d \in Directories(t),
           s # d, NEW i \in Slot \ {0}, NEW k \in Slot \ {0},
           NEW u, u = Relocated(t, s, i, d, k)
    PROVE  /\ u \in [Cluster -> Table]
           /\ Directories(u) \subseteq Directories(t)
           /\ \A c \in Cluster : u[c][0] = t[c][0]
           /\ \A o \in Owners(u) :
                 /\ Origin(o, s, i, d, k) \in Owners(t)
                 /\ ItsEntry(u, o) = ItsEntry(t, Origin(o, s, i, d, k))
                 /\ o # <<s, i>>
<1>1. s \in Cluster /\ d \in Cluster /\ 0 \in Slot
  BY DirectoriesType, Ranges
<1>2. /\ u \in [Cluster -> Table] /\ u[s][i] = FreeEntry /\ u[d][k] = t[s][i]
      /\ \A c \in Cluster, r \in Slot :
            <<c, r>> # <<s, i>> /\ <<c, r>> # <<d, k>> => u[c][r] = t[c][r]
  BY <1>1 DEF Relocated, Taken, Table
<1>3. ASSUME NEW c \in Directories(t), NEW r \in Slot, u[c][r].attribute = "dir"
      PROVE  u[c][r].cluster \in Directories(t)
  <2>1. c \in Cluster
    BY DirectoriesType
  <2>2. <<c, r>> # <<s, i>>
    BY <1>2, <1>3 DEF FreeEntry
  <2>3. \E x \in Directories(t), q \in Slot : u[c][r] = t[x][q]
    BY <1>2, <2>1, <2>2
  <2>4. QED
    BY <1>3, <2>3, DirectoriesAre DEF Closed
<1>4. Directories(u) \subseteq Directories(t)
  BY <1>2, <1>3, DirectoriesAre DEF Closed
<1>5. ASSUME NEW o \in Owners(u)
      PROVE  /\ Origin(o, s, i, d, k) \in Owners(t)
             /\ ItsEntry(u, o) = ItsEntry(t, Origin(o, s, i, d, k))
             /\ o # <<s, i>>
  <2>1. o \in Directories(u) \X Slot /\ Used(ItsEntry(u, o)) /\ ~IsSelfEntry(u, o[1], o[2])
    BY OwnerIs
  <2>2. o[1] \in Cluster /\ o[2] \in Slot /\ o = <<o[1], o[2]>>
    BY <2>1, PairOf
  <2>3. o # <<s, i>>
    BY <2>1, <1>2 DEF Used, FreeEntry, ItsEntry
  <2>4. CASE o = <<d, k>>
    <3>1. Origin(o, s, i, d, k) = <<s, i>> /\ ItsEntry(t, <<s, i>>) = ItsEntry(u, o)
      BY <2>4, <1>2 DEF Origin, ItsEntry
    <3>2. <<s, i>> \in Directories(t) \X Slot /\ ~IsSelfEntry(t, <<s, i>>[1], <<s, i>>[2])
      BY DEF IsSelfEntry
    <3>3. QED
      BY <2>1, <2>3, <3>1, <3>2, OwnerIs
  <2>5. CASE o # <<d, k>>
    <3>1. u[o[1]][o[2]] = t[o[1]][o[2]]
      BY <2>2, <2>3, <2>5, <1>2
    <3>2. QED
      BY <2>1, <2>3, <2>5, <3>1, <1>4, OwnerIs DEF Origin, ItsEntry, IsSelfEntry
  <2>6. QED
    BY <2>4, <2>5
<1>6. QED
  BY <1>1, <1>2, <1>4, <1>5

\* Memory has the chains of t as the disk has them.
Known(t) ==
    \A o \in Owners(t) : \A k \in DOMAIN ItsChain(diskFat, t, o) :
       fat[ItsChain(diskFat, t, o)[k]] = diskFat[ItsChain(diskFat, t, o)[k]]

\* Tables that may be on the disk between two calls.
Sound(t) == t \in [Cluster -> Table] /\ Tree(diskFat, t, data) /\ Own(t) /\ Known(t)

\* Such are the tables from which an entry is taken, and those it has moved in.
LEMMA SoundTaken ==
    ASSUME NEW t, Sound(t), diskFat \in [Cell -> FatValue],
           NEW s \in Directories(t), NEW i \in Slot \ {0}
    PROVE  Sound([t EXCEPT ![s] = Taken(t[s], i)])
<1> DEFINE u == [t EXCEPT ![s] = Taken(t[s], i)]
<1>1. t \in [Cluster -> Table] /\ s \in Cluster /\ u = Put(t, s, i, FreeEntry) /\ 0 \in Slot
  BY DirectoriesType, Ranges DEF Sound, Taken, Put
<1> HIDE DEF u
<1>2. /\ u \in [Cluster -> Table] /\ Directories(u) \subseteq Directories(t)
      /\ Owners(u) \subseteq Owners(t)
      /\ \A o \in Owners(u) : ItsEntry(u, o) = ItsEntry(t, o)
  BY <1>1, OwnersRemoved
<1>3. \A c \in Cluster : u[c][0] = t[c][0]
  BY <1>1 DEF Put, Table
<1>4. Own(u)
  BY <1>2, <1>3, OwnKept, DirectoriesType DEF Sound
<1>5. AllStay(diskFat, t, data, diskFat, u, data)
  BY <1>2 DEF AllStay, Stays
<1>6. Tree(diskFat, u, data) /\ \A o \in Owners(u) : ItsChain(diskFat, u, o) = ItsChain(diskFat, t, o)
  BY <1>5, TreeKept DEF Sound
<1>7. Known(u)
  BY <1>2, <1>6 DEF Sound, Known
<1>8. QED
  BY <1>2, <1>4, <1>6, <1>7 DEF Sound, u

\* The owner that has moved takes its chain along.

LEMMA SoundRelocated ==
    ASSUME NEW t, Sound(t), NEW s \in Directories(t), NEW d \in Directories(t),
           s # d, NEW i \in Slot \ {0}, NEW k \in Slot \ {0}
    PROVE  Sound(Relocated(t, s, i, d, k))
<1> DEFINE u    == Relocated(t, s, i, d, k)
           O(o) == Origin(o, s, i, d, k)
<1>1. /\ u \in [Cluster -> Table] /\ Directories(u) \subseteq Directories(t)
      /\ \A c \in Cluster : u[c][0] = t[c][0]
      /\ \A o \in Owners(u) : O(o) \in Owners(t) /\ ItsEntry(u, o) = ItsEntry(t, O(o)) /\ o # <<s, i>>
  BY OwnersRelocated DEF Sound
<1>2. \A o1, o2 \in Owners(u) : o1 # o2 => O(o1) # O(o2)
  BY <1>1 DEF Origin
<1> HIDE DEF u, O
<1>3. Own(u)
  BY <1>1, OwnKept, DirectoriesType DEF Sound
<1>4. \A o \in Owners(u) : ItsChain(diskFat, u, o) = ItsChain(diskFat, t, O(o))
  BY <1>1 DEF ItsChain
<1>5. ASSUME NEW o \in Owners(u)
      PROVE  HasChain(diskFat, u, o) /\ HasContent(diskFat, u, data, o)
  <2>1. HasChain(diskFat, t, O(o)) /\ HasContent(diskFat, t, data, O(o))
    BY <1>1 DEF Sound, Tree
  <2>2. QED
    BY <1>1, <1>4, <2>1 DEF HasChain, HasContent
<1>6. Tree(diskFat, u, data)
  BY <1>1, <1>2, <1>4, <1>5 DEF Sound, Tree
<1>7. Known(u)
  BY <1>1, <1>4 DEF Sound, Known
<1>8. QED
  BY <1>1, <1>3, <1>6, <1>7 DEF Sound, u

(***************************************************************************)
(* The two writes of a move.                                               *)
(***************************************************************************)
\* A directory's cluster holds no block of a file.
NoFileIn(c) == c \in Cluster /\ (c = ROOT_CLUSTER_NUMBER \/ data[c] = NoBlock)

\* Before each write the disk is sound, and so is what it will be after it.
Transit ==
    /\ signature /\ Reserved(fat) /\ Reserved(diskFat)
    /\ NoFileIn(move.from) /\ NoFileIn(move.to)
    /\ Sound(table)
    /\ pc = "move_src" =>
          /\ Sound([table EXCEPT ![move.from] = move.src])
          /\ Sound([table EXCEPT ![move.from] = move.src, ![move.to] = move.dest])
    /\ pc = "move_dest" => Sound([table EXCEPT ![move.to] = move.dest])

TreeMoveInv ==
    /\ MoveInv
    /\ Moving => Transit
    /\ ~Moving => TreeInv /\ OwnEntries

\* The cluster of a directory.
LEMMA DirectoryCluster ==
    ASSUME Sound(table), NEW d \in Directories(table)
    PROVE  NoFileIn(d)
<1>1. d \in Cluster
  BY DirectoriesType
<1>2. CASE d # ROOT_CLUSTER_NUMBER
  <2>1. PICK o \in Owners(table) : ItsEntry(table, o).attribute = "dir" /\ ItsEntry(table, o).cluster = d
    BY <1>2, DirectoryOwned DEF Sound
  <2>2. HasChain(diskFat, table, o) /\ HasContent(diskFat, table, data, o)
    BY DEF Sound, Tree
  <2>3. QED
    BY <1>1, <2>1, <2>2 DEF HasChain, HasContent, NoFileIn
<1>3. QED
  BY <1>1, <1>2 DEF NoFileIn

\* The tables t are sound in the next state.
SoundNext(t) ==
    /\ t \in [Cluster -> Table] /\ Tree(diskFat', t, data') /\ Own(t)
    /\ \A o \in Owners(t) : \A k \in DOMAIN ItsChain(diskFat', t, o) :
          fat'[ItsChain(diskFat', t, o)[k]] = diskFat'[ItsChain(diskFat', t, o)[k]]

\* They are if nothing else changes.
LEMMA SoundStays ==
    ASSUME NEW t, Sound(t), UNCHANGED <<diskFat, data, fat>>
    PROVE  SoundNext(t)
BY DEF Sound, Known, SoundNext

\* What is sound stays so when a directory's cluster is written.
LEMMA SoundWritten ==
    ASSUME NEW c, NoFileIn(c), NEW t, Sound(t), diskFat \in [Cell -> FatValue],
           data' = [x \in Cluster |-> IF x = c THEN NoBlock ELSE data[x]],
           UNCHANGED <<diskFat, fat>>
    PROVE  /\ SoundNext(t)
           /\ \A x : NoFileIn(x) => NoFileIn(x)'
<1>1. ASSUME NEW o \in Owners(t), NEW k \in DOMAIN ItsChain(diskFat, t, o)
      PROVE  data'[ItsChain(diskFat, t, o)[k]] = data[ItsChain(diskFat, t, o)[k]]
  <2>1. IsChain(diskFat, ItsChain(diskFat, t, o)) /\ NoRoot(ItsChain(diskFat, t, o))
    BY DEF Sound, Tree, HasChain
  <2>2. ItsChain(diskFat, t, o)[k] \in Cluster /\ ItsChain(diskFat, t, o)[k] # ROOT_CLUSTER_NUMBER
    BY <2>1, ChainCells DEF NoRoot
  <2>3. QED
    BY <2>2 DEF NoFileIn
<1>2. AllStay(diskFat, t, data, diskFat, t, data')
  BY <1>1 DEF AllStay, Stays
<1>3. Tree(diskFat, t, data')
  BY <1>2, TreeKept DEF Sound
<1>4. QED
  BY <1>3 DEF Sound, SoundNext, Known, NoFileIn

\* A move hands over the two tables as they will be, each with its own cluster.
LEMMA MoveBegun ==
    ASSUME TreeMoveInv, "same" \notin Moves, Room,
           NEW s \in Directories(table), NEW d \in Directories(table), NEW n \in Names,
           StartMove(s, d, n)
    PROVE  /\ pc = "idle" /\ pc' = "move_src" /\ s # d /\ Sound(table)
           /\ UNCHANGED <<signature, diskFat, table, data, fat, call>>
           /\ \E i, k \in Slot \ {0} :
                 /\ Kind(s, d, i) \in Moves /\ ~Used(table[d][k])
                 /\ move' = [src |-> Taken(table[s], i), dest |-> [table[d] EXCEPT ![k] = table[s][i]],
                             from |-> s, to |-> d]
<1>1. PICK i \in Slot : LastMatch(table[s], n, i) /\ Kind(s, d, i) \in Moves /\ MoveEntry(s, d, i)
  BY DEF StartMove
<1>2. /\ pc = "idle" /\ pc' = "move_src" /\ s # d /\ i \in Slot \ {0} /\ s \in Cluster /\ d \in Cluster
      /\ UNCHANGED <<signature, diskFat, table, data, fat, call>>
  BY <1>1, DirectoriesType DEF MoveEntry, LastMatch, Matches, Kind, disk
<1>3. Sound(table)
  BY <1>2, WhenIdle, TreeTypes
     DEF TreeMoveInv, Moving, Sound, Known, TreeInv, FormatOrder, Remembered, OwnEntries, HasRoot
<1>4. IsSelfEntry(table, s, 0) /\ IsSelfEntry(table, d, 0)
  BY <1>3 DEF Sound, Own
<1>5. PICK k \in Slot : /\ TakesFree(table[d], k)
                        /\ Hand(Taken(table[s], i), [table[d] EXCEPT ![k] = table[s][i]])
  <2>1. PICK r \in Slot : ~Used(table[d][r])
    BY DEF Room
  <2>2. r # 0
    BY <1>4, <2>1 DEF IsSelfEntry, Used
  <2>3. QED
    BY <1>1, <2>1, <2>2 DEF MoveEntry
<1>6. k # 0 /\ ~Used(table[d][k]) /\ table[s] \in Table /\ table[d] \in Table /\ 0 \in Slot
  BY <1>2, <1>3, <1>5, Ranges DEF TakesFree, Sound
<1>7. Taken(table[s], i)[0] = table[s][0] /\ [table[d] EXCEPT ![k] = table[s][i]][0] = table[d][0]
  BY <1>2, <1>6 DEF Taken, Table
<1>8. table[s][0].cluster = s /\ table[d][0].cluster = d
  BY <1>4 DEF IsSelfEntry
<1>9. move' = [src |-> Taken(table[s], i), dest |-> [table[d] EXCEPT ![k] = table[s][i]],
               from |-> s, to |-> d]
  BY <1>5, <1>7, <1>8 DEF Hand
<1>10. QED
  BY <1>1, <1>2, <1>3, <1>6, <1>9

\* Then each write leaves a sound disk.
LEMMA TransitBegins ==
    ASSUME TreeMoveInv, "same" \notin Moves, Room, MoveInv',
           NEW s \in Directories(table), NEW d \in Directories(table), NEW n \in Names,
           StartMove(s, d, n)
    PROVE  TreeMoveInv'
<1>1. /\ pc = "idle" /\ pc' = "move_src" /\ s # d /\ Sound(table)
      /\ UNCHANGED <<signature, diskFat, table, data, fat, call>>
  BY MoveBegun
<1>2. PICK i, k \in Slot \ {0} :
         move' = [src |-> Taken(table[s], i), dest |-> [table[d] EXCEPT ![k] = table[s][i]],
                  from |-> s, to |-> d]
  BY MoveBegun
<1>3. /\ move'.from = s /\ move'.to = d /\ move'.src = Taken(table[s], i)
      /\ move'.dest = [table[d] EXCEPT ![k] = table[s][i]]
  BY <1>2
<1>4. signature /\ Reserved(fat) /\ Reserved(diskFat) /\ diskFat \in [Cell -> FatValue]
  BY <1>1, TreeTypes DEF TreeMoveInv, Moving, TreeInv, FormatOrder
<1>5. NoFileIn(s) /\ NoFileIn(d)
  BY <1>1, DirectoryCluster
<1>6. /\ Sound([table EXCEPT ![s] = Taken(table[s], i)])
      /\ Sound(Relocated(table, s, i, d, k))
  BY <1>1, <1>4, SoundTaken, SoundRelocated
<1>7. NoFileIn(s)' /\ NoFileIn(d)'
  BY <1>1, <1>5 DEF NoFileIn
<1>8. NoFileIn(move.from)' /\ NoFileIn(move.to)' /\ Sound(table)'
  <2>1. NoFileIn(move.from)' /\ NoFileIn(move.to)'
    BY <1>3, <1>7 DEF NoFileIn
  <2>2. QED
    BY <1>1, <2>1 DEF Sound, Known
<1>9. /\ Sound([table EXCEPT ![move.from] = move.src])'
       /\ Sound([table EXCEPT ![move.from] = move.src, ![move.to] = move.dest])'
  <2> DEFINE t == [table EXCEPT ![s] = Taken(table[s], i)]
             u == Relocated(table, s, i, d, k)
  <2>1. /\ [table' EXCEPT ![move'.from] = move'.src] = t
        /\ [table' EXCEPT ![move'.from] = move'.src, ![move'.to] = move'.dest] = u
    BY <1>1, <1>3 DEF Relocated
  <2>2. Sound(t) /\ Sound(u)
    BY <1>6
  <2> HIDE DEF t, u
  <2>3. Sound([table EXCEPT ![move.from] = move.src])'
    <3>1. t = [table' EXCEPT ![move'.from] = move'.src]
      BY <2>1
    <3>2. SoundNext(t)
      BY <1>1, <2>2, SoundStays
    <3>3. QED
      BY <3>1, <3>2 DEF SoundNext, Sound, Known
  <2>4. Sound([table EXCEPT ![move.from] = move.src, ![move.to] = move.dest])'
    <3>1. u = [table' EXCEPT ![move'.from] = move'.src, ![move'.to] = move'.dest]
      BY <2>1
    <3>2. SoundNext(u)
      BY <1>1, <2>2, SoundStays
    <3>3. QED
      BY <3>1, <3>2 DEF SoundNext, Sound, Known
  <2>5. QED
    BY <2>3, <2>4
<1>10. QED
  BY <1>1, <1>4, <1>8, <1>9 DEF TreeMoveInv, Transit, Moving, Reserved

\* Where a move has stopped the disk is a tree again.
LEMMA TransitEnds ==
    ASSUME FreshInv', SoundNext(table'), call' = NoCall, pc' \in {"off", "idle"},
           signature', Reserved(diskFat)', pc' # "off" => Reserved(fat)'
    PROVE  TreeInv' /\ OwnEntries'
<1>1. FormatOrder'
  BY DEF FormatOrder
<1>2. TreeInv'
  BY <1>1, AtRest DEF SoundNext
<1>3. Shown' = table'
  BY DEF NoCall, Shown
<1>4. QED
  BY <1>2, <1>3 DEF OwnEntries, Placed, NoCall, SoundNext

\* The first write of a move, to the directory the entry leaves.
LEMMA TransitSource ==
    ASSUME TreeMoveInv, MoveInv', MoveSource
    PROVE  TreeMoveInv'
<1>1. /\ pc = "move_src" /\ pc' = "move_dest" /\ Between /\ Transit
      /\ UNCHANGED <<diskFat, fat, call, move>>
  BY DEF MoveSource, TreeMoveInv, MoveInv, Moving
<1> DEFINE t == [table EXCEPT ![move.from] = move.src]
           u == [t EXCEPT ![move.to] = move.dest]
<1>2. NoFileIn(move.from) /\ NoFileIn(move.to) /\ Sound(t) /\ Sound(u)
  BY <1>1 DEF Transit
<1>3. /\ table' = t /\ signature' = (signature /\ move.from # 0)
      /\ data' = [x \in Cluster |-> IF x = move.from THEN NoBlock ELSE data[x]]
  BY <1>1 DEF MoveSource, WriteBack, Between
<1>4. [table' EXCEPT ![move'.to] = move'.dest] = u
  BY <1>1, <1>3
<1> HIDE DEF t, u
<1>5. diskFat \in [Cell -> FatValue] /\ move.from # 0
  BY <1>1, <1>2 DEF Between, NoFileIn, Cluster, ROOT_CLUSTER_NUMBER
<1>6. SoundNext(t) /\ SoundNext(u) /\ NoFileIn(move.from)' /\ NoFileIn(move.to)'
  BY <1>1, <1>2, <1>3, <1>5, SoundWritten DEF NoFileIn
<1>7. Sound(table)'
  BY <1>3, <1>6 DEF SoundNext, Sound, Known
<1>8. Sound([table EXCEPT ![move.to] = move.dest])'
  BY <1>4, <1>6 DEF SoundNext, Sound, Known
<1>9. signature' /\ Reserved(fat)' /\ Reserved(diskFat)'
  BY <1>1, <1>3, <1>5 DEF Transit, Reserved
<1>10. QED
  BY <1>1, <1>6, <1>7, <1>8, <1>9 DEF TreeMoveInv, Transit, Moving

\* The second, to the directory it has gone to.
LEMMA TransitDest ==
    ASSUME TreeMoveInv, MoveInv', MoveDest
    PROVE  TreeMoveInv'
<1>1. /\ pc = "move_dest" /\ pc' = "idle" /\ Between /\ Transit /\ FreshInv'
      /\ UNCHANGED <<diskFat, fat, call>>
  BY DEF MoveDest, TreeMoveInv, MoveInv, Moving
<1> DEFINE t == [table EXCEPT ![move.to] = move.dest]
<1>2. NoFileIn(move.to) /\ Sound(t)
  BY <1>1 DEF Transit
<1>3. /\ table' = t /\ signature' = (signature /\ move.to # 0)
      /\ data' = [x \in Cluster |-> IF x = move.to THEN NoBlock ELSE data[x]]
  BY <1>1 DEF MoveDest, WriteBack, Between
<1> HIDE DEF t
<1>4. diskFat \in [Cell -> FatValue] /\ move.to # 0 /\ call' = NoCall
  BY <1>1, <1>2 DEF Between, NoFileIn, Cluster, ROOT_CLUSTER_NUMBER
<1>5. SoundNext(table')
  BY <1>1, <1>2, <1>3, <1>4, SoundWritten
<1>6. signature' /\ Reserved(fat)' /\ Reserved(diskFat)'
  BY <1>1, <1>3, <1>4 DEF Transit, Reserved
<1>7. QED
  BY <1>1, <1>4, <1>5, <1>6, TransitEnds DEF TreeMoveInv, Moving

\* The power fails between the two, or before the first.
LEMMA TransitFails ==
    ASSUME TreeMoveInv, MoveInv', MovePowerFails
    PROVE  TreeMoveInv'
<1>1. /\ pc' = "off" /\ Transit /\ FreshInv' /\ call' = NoCall
      /\ UNCHANGED <<signature, diskFat, table, data>>
  BY DEF MovePowerFails, TreeMoveInv, MoveInv, Moving, Between, disk
<1>2. table \in [Cluster -> Table] /\ Tree(diskFat, table, data) /\ Own(table) /\ Reserved(diskFat)
  BY <1>1 DEF Transit, Sound
<1>3. Shown' = table'
  BY <1>1 DEF NoCall, Shown
<1>4. TreeInv'
  BY <1>1, <1>2, AtRest DEF Transit, FormatOrder, Reserved
<1>5. QED
  BY <1>1, <1>2, <1>3, <1>4 DEF TreeMoveInv, Moving, OwnEntries, Placed, NoCall

\* Nothing happens.
LEMMA TransitSame ==
    ASSUME UNCHANGED <<disk, fat, pc, move>>
    PROVE  Transit' <=> Transit
<1>1. \A t : Sound(t) <=> SoundNext(t)
  BY DEF Sound, Known, SoundNext, disk
<1>2. Sound(table)' <=> Sound(table)
  BY <1>1 DEF disk, Sound, Known, SoundNext
<1>3. Sound([table EXCEPT ![move.from] = move.src])' <=> Sound([table EXCEPT ![move.from] = move.src])
  <2> DEFINE t == [table EXCEPT ![move.from] = move.src]
  <2>1. t = [table' EXCEPT ![move'.from] = move'.src]
    BY DEF disk
  <2> HIDE DEF t
  <2>2. SoundNext(t) <=> Sound([table EXCEPT ![move.from] = move.src])'
    BY <2>1 DEF SoundNext, Sound, Known
  <2>3. QED
    BY <1>1, <2>2 DEF t
<1>4. Sound([table EXCEPT ![move.from] = move.src, ![move.to] = move.dest])' <=> Sound([table EXCEPT ![move.from] = move.src, ![move.to] = move.dest])
  <2> DEFINE t == [table EXCEPT ![move.from] = move.src, ![move.to] = move.dest]
  <2>1. t = [table' EXCEPT ![move'.from] = move'.src, ![move'.to] = move'.dest]
    BY DEF disk
  <2> HIDE DEF t
  <2>2. SoundNext(t) <=> Sound([table EXCEPT ![move.from] = move.src, ![move.to] = move.dest])'
    BY <2>1 DEF SoundNext, Sound, Known
  <2>3. QED
    BY <1>1, <2>2 DEF t
<1>5. Sound([table EXCEPT ![move.to] = move.dest])' <=> Sound([table EXCEPT ![move.to] = move.dest])
  <2> DEFINE t == [table EXCEPT ![move.to] = move.dest]
  <2>1. t = [table' EXCEPT ![move'.to] = move'.dest]
    BY DEF disk
  <2> HIDE DEF t
  <2>2. SoundNext(t) <=> Sound([table EXCEPT ![move.to] = move.dest])'
    BY <2>1 DEF SoundNext, Sound, Known
  <2>3. QED
    BY <1>1, <2>2 DEF t
<1>6. UNCHANGED <<signature, fat, diskFat, data, pc, move>>
  BY DEF disk
<1>7. QED
  BY <1>2, <1>3, <1>4, <1>5, <1>6 DEF Transit, NoFileIn, Reserved

\* While no table is full, every step of the driver and of a move keeps the tree.
LEMMA TreeMoveNext ==
    ASSUME Benign, "same" \notin Moves, TreeMoveInv, Room, [MoveNext]_moveVars
    PROVE  TreeMoveInv'
<1>1. MoveInv'
  BY MoveInvNext DEF TreeMoveInv
<1>2. CASE Next /\ UNCHANGED move
  <2>1. TreeInv /\ OwnEntries
    BY <1>2, DriverRests DEF TreeMoveInv
  <2>2. TreeInv' /\ OwnEntries'
    BY <1>2, <2>1, TreeNext, OwnNext
  <2>3. ~Moving'
    BY <2>2 DEF TreeInv, FreshInv, SavedInv, TypeInv, TypeOK, Phases, Moving
  <2>4. QED
    BY <1>1, <2>2, <2>3 DEF TreeMoveInv
<1>3. ASSUME NEW s \in Directories(table), NEW d \in Directories(table), NEW n \in Names,
             StartMove(s, d, n)
      PROVE  TreeMoveInv'
  BY <1>1, <1>3, TransitBegins
<1>4. CASE MoveSource \/ MoveDest \/ MovePowerFails
  BY <1>1, <1>4, TransitSource, TransitDest, TransitFails
<1>5. CASE UNCHANGED moveVars
  <2>1. UNCHANGED vars /\ UNCHANGED move
    BY <1>5 DEF moveVars
  <2>2. CASE Moving
    <3>1. Transit /\ Moving'
      BY <2>1, <2>2 DEF TreeMoveInv, Moving, vars
    <3>2. Transit' <=> Transit
      BY <2>1, TransitSame DEF vars, disk
    <3>3. QED
      BY <1>1, <3>1, <3>2 DEF TreeMoveInv
  <2>3. CASE ~Moving
    <3>1. TreeInv /\ OwnEntries /\ ~Moving'
      BY <2>1, <2>3 DEF TreeMoveInv, Moving, vars
    <3>2. TreeInv'
      BY <2>1, <3>1, TreeNext
    <3>3. OwnEntries'
      BY <2>1, <3>1 DEF vars, OwnEntries, Placed, HasRoot, Shown
    <3>4. QED
      BY <1>1, <3>1, <3>2, <3>3 DEF TreeMoveInv
  <2>4. QED
    BY <2>2, <2>3
<1>6. QED
  BY <1>2, <1>3, <1>4, <1>5 DEF MoveNext

\* At first there is nothing to keep.
LEMMA TreeMoveInit == MoveInit => TreeMoveInv
<1> SUFFICES ASSUME MoveInit PROVE TreeMoveInv
  OBVIOUS
<1>1. Init /\ pc = "off" /\ ~signature
  BY DEF MoveInit, Init
<1>2. OwnEntries
  BY <1>1 DEF Init, OwnEntries, Placed, NoCall, HasRoot
<1>3. QED
  BY <1>1, <1>2, MoveInvInit, TreeInit DEF TreeMoveInv, Moving

\* A tree has no crossed chains and its files are whole, also between the writes.
LEMMA TreeMoveSafe == TreeMoveInv => NoCrossLink /\ FilesWhole
<1> SUFFICES ASSUME TreeMoveInv PROVE NoCrossLink /\ FilesWhole
  OBVIOUS
<1>1. CASE Moving
  <2>1. Transit /\ call = NoCall /\ diskFat \in [Cell -> FatValue]
    BY <1>1 DEF TreeMoveInv, MoveInv, Between
  <2>2. Shown = table
    BY <2>1 DEF NoCall, Shown
  <2>3. QED
    BY <2>1, <2>2, TreeSafe DEF Transit, Sound
<1>2. CASE ~Moving
  BY <1>2, TreeInvSafe DEF TreeMoveInv
<1>3. QED
  BY <1>1, <1>2

\* A move to another directory, cut off anywhere, leaves chains that are disjoint and
\* end, as long as no table has filled up (interrupt.c:95-137).
THEOREM MoveNoCrossLink ==
    ASSUME Benign, "same" \notin Moves
    PROVE  MoveSpec /\ []Room => []NoCrossLink
<1>1. TreeMoveInv /\ Room /\ [MoveNext]_moveVars => TreeMoveInv'
  BY TreeMoveNext
<1>2. QED
  BY TreeMoveInit, TreeMoveSafe, <1>1, PTL DEF MoveSpec

\* Nor does it touch the content of a file.
THEOREM MoveFilesWhole ==
    ASSUME Benign, "same" \notin Moves
    PROVE  MoveSpec /\ []Room => []FilesWhole
<1>1. TreeMoveInv /\ Room /\ [MoveNext]_moveVars => TreeMoveInv'
  BY TreeMoveNext
<1>2. QED
  BY TreeMoveInit, TreeMoveSafe, <1>1, PTL DEF MoveSpec

(***************************************************************************)
(* Leaks, as long as the power stays on.  A cluster that memory has in use *)
(* is on the chain of an owner, or in the hand of the call under way.      *)
(***************************************************************************)
OnChain(t, c) ==
    \E o \in Owners(t) : \E k \in DOMAIN ItsChain(diskFat, t, o) : ItsChain(diskFat, t, o)[k] = c
InHand(c) ==
    \/ call.op \in {"mkdir", "file"} /\ \E k \in DOMAIN call.chain : call.chain[k] = c
    \/ pc \in {"erase_dir", "erase", "erase_last"} /\ \E k \in DOMAIN Rest : Rest[k] = c

\* The two clusters that no entry needs to have.
Granted(c)   == c = ROOT_CLUSTER_NUMBER \/ c + 1 = CLUSTER_MAP_SIZE
Accounted(t) ==
    \A c \in Cluster : fat[c] # FAT32_FAT_EMPTY_ENTRY => Granted(c) \/ OnChain(t, c) \/ InHand(c)

\* During a move the owners are those of the tables as both writes leave them.
NothingLost ==
    /\ pc = "off" => ~signature /\ fat = EmptyFat
    /\ pc \in {"format_fat", "format_root"} =>
          \A c \in Cluster : fat[c] # FAT32_FAT_EMPTY_ENTRY => c = ROOT_CLUSTER_NUMBER
    /\ pc = "erase_dir" => Len(Rest) = 1
    /\ ~Moving => Accounted(Shown)
    /\ pc = "move_src" => Accounted([table EXCEPT ![move.from] = move.src, ![move.to] = move.dest])
    /\ pc = "move_dest" => Accounted([table EXCEPT ![move.to] = move.dest])

\* The calls that leak nothing: no move within one directory or of a directory into
\* itself, and no loss of power.
Uncut == Benign /\ PowerFailsIn = {} /\ ~MoveCut /\ Moves \subseteq {"apart"}

\* The owners of a tree that stays as it is have their chains.
LEMMA OnChainStays ==
    ASSUME TreeInv, TreeInv', Unmoved, NEW c, OnChain(Shown, c)
    PROVE  OnChain(Shown, c)'
<1>1. /\ diskFat \in [Cell -> FatValue] /\ Shown \in [Cluster -> Table]
      /\ Tree(diskFat, Shown, data)
  BY TreeTypes DEF TreeInv
<1>2. diskFat' \in [Cell -> FatValue] /\ Shown' \in [Cluster -> Table]
  <2>1. diskFat' \in [Cell -> FatValue] /\ table' \in [Cluster -> Table] /\ call'.parent \in Table
    BY DEF TreeInv, FreshInv, SavedInv, TypeInv, TypeOK, Calls
  <2>2. QED
    BY <2>1 DEF Shown
<1>3. Owners(Shown') = Owners(Shown)
  BY <1>1, <1>2, OwnersAgree DEF Unmoved
<1>4. \A o \in Owners(Shown') : ItsChain(diskFat', Shown', o) = ItsChain(diskFat, Shown, o)
  BY <1>1, <1>2, TreeKept DEF Unmoved
<1>5. QED
  BY <1>3, <1>4 DEF OnChain

\* Where nothing is moved, no cluster is marked that the call does not have, and none
\* leaves its hand without being cleared.
LEMMA AccountStays ==
    ASSUME TreeInv, TreeInv', Unmoved, Accounted(Shown),
           \A c \in Cluster : fat'[c] # FAT32_FAT_EMPTY_ENTRY =>
              \/ Granted(c) \/ InHand(c)'
              \/ fat[c] # FAT32_FAT_EMPTY_ENTRY /\ ~InHand(c)
    PROVE  Accounted(Shown)'
<1>1. \A c \in Cluster : OnChain(Shown, c) => OnChain(Shown, c)'
  BY OnChainStays
<1>2. QED
  BY <1>1 DEF Accounted, Granted

\* What a request marks is in its hand, or is the last cluster.
LEMMA RequestMarks ==
    ASSUME TreeInv, pc = "idle", Request, call'.op # "delete", NEW c \in Cluster,
           fat'[c] # FAT32_FAT_EMPTY_ENTRY
    PROVE  fat[c] # FAT32_FAT_EMPTY_ENTRY \/ Granted(c) \/ InHand(c)'
<1>1. fat \in [Cell -> FatValue] /\ c \in Cell
  BY TreeTypes, CellRanges DEF TreeInv
<1>2. ASSUME NEW a, Reply(a)
      PROVE  fat[c] # FAT32_FAT_EMPTY_ENTRY
  BY <1>2 DEF Reply
<1>3. ASSUME NEW d, NEW n, NEW size, ReadDirectory(d, n, size) \/ Read(d, n, size)
      PROVE  fat[c] # FAT32_FAT_EMPTY_ENTRY
  BY <1>2, <1>3 DEF ReadDirectory, Read, ReadChain
<1>4. ASSUME NEW d, NEW n, Delete(d, n)
      PROVE  fat[c] # FAT32_FAT_EMPTY_ENTRY
  BY <1>2, <1>4 DEF Delete, Remove, Enter, NoCall
<1>5. ASSUME NEW d, NEW n, MakeDirectory(d, n)
      PROVE  fat[c] # FAT32_FAT_EMPTY_ENTRY \/ Granted(c) \/ InHand(c)'
  <2>1. CASE Free(fat) = {} /\ Reply(Answer(1))
    BY <2>1, <1>2
  <2>2. ASSUME NEW q \in Allocation(fat, 1), fat' = [fat EXCEPT ![q[1]] = FAT32_FAT_END_OF_FILE],
               \/ q[1] + 1 = CLUSTER_MAP_SIZE
               \/ call'.op = "mkdir" /\ call'.chain = q
        PROVE  fat[c] # FAT32_FAT_EMPTY_ENTRY \/ Granted(c) \/ InHand(c)'
    <3>1. 1 \in DOMAIN q /\ (c # q[1] => fat'[c] = fat[c])
      BY <1>1, <2>2, MarkedChain
    <3>2. QED
      BY <2>2, <3>1 DEF Granted, InHand
  <2>3. QED
    BY <1>5, <2>1, <2>2 DEF MakeDirectory, Enter, NoCall
<1>6. ASSUME NEW d, NEW n, NEW size \in Lengths, NEW p, MakeFile(d, n, size, p)
      PROVE  fat[c] # FAT32_FAT_EMPTY_ENTRY \/ InHand(c)'
  <2>1. CASE Cardinality(Free(fat)) < size /\ Reply(Answer(1))
    BY <2>1, <1>2
  <2>2. ASSUME NEW q \in Allocation(fat, size), fat' = Linked(fat, q),
               call'.op = "file" /\ call'.chain = q
        PROVE  fat[c] # FAT32_FAT_EMPTY_ENTRY \/ InHand(c)'
    <3>1. size \in Nat \ {0}
      BY LengthsAssumption
    <3>2. (\A i \in DOMAIN q : q[i] # c) => fat'[c] = fat[c]
      BY <1>1, <2>2, <3>1, LinkedChain
    <3>3. QED
      BY <2>2, <3>2 DEF InHand
  <2>3. QED
    BY <1>6, <2>1, <2>2 DEF MakeFile, Enter, NoCall
<1>7. ASSUME NEW d, NEW n, NEW size \in {0} \cup Lengths, NEW p, Write(d, n, size, p)
      PROVE  fat[c] # FAT32_FAT_EMPTY_ENTRY \/ Granted(c) \/ InHand(c)'
  BY <1>2, <1>5, <1>6, <1>7 DEF Write
<1>8. QED
  BY <1>3, <1>4, <1>7 DEF Request

\* The entry being deleted leaves its chain in the delete's hand and all other owners.
LEMMA DeleteAccounts ==
    ASSUME TreeInv, TreeInv', OwnEntries, Accounted(Shown), Next,
           call'.op = "delete", call.op # "delete"
    PROVE  Accounted(Shown)' /\ (pc' = "erase_dir" => Len(Rest') = 1)
<1>1. PICK d \in Directories(table), n \in Names, s \in Slot \ {0},
           stray \in StrayWords, next \in {"erase_dir", "erase"} :
         /\ Remove(d, s, stray, next)
         /\ \/ /\ table[d][s].attribute = "dir" /\ next = "erase_dir"
               /\ Vacant(table[table[d][s].cluster])
            \/ table[d][s].attribute = "file" /\ next = "erase"
  BY DeleteBegins
<1>2. /\ pc = "idle" /\ call.op = "none" /\ Shown = table /\ Tree(diskFat, table, data)
      /\ Own(table) /\ d \in Cluster /\ s \in Slot
      /\ diskFat \in [Cell -> FatValue] /\ fat \in [Cell -> FatValue] /\ table \in [Cluster -> Table]
  BY DeleteBegins, WhenIdle, TreeTypes, DirectoriesType DEF OwnEntries, HasRoot, TreeInv, FormatOrder
<1> DEFINE x == <<d, s>>
           q == ItsChain(diskFat, table, x)
           u == Put(table, d, s, FreeEntry)
<1>3. /\ Shown' = u /\ UNCHANGED <<diskFat, fat>> /\ AllStay(diskFat, table, data, diskFat, u, data)
      /\ call'.cluster = table[d][s].cluster /\ pc' \in {"erase_dir", "erase"}
  BY <1>1, <1>2, Removed DEF Remove, Enter, NoCall, disk
<1>4. x \in Owners(table) /\ ItsEntry(table, x) = table[d][s]
  <2>1. x \in Directories(table) \X Slot /\ ItsEntry(table, x) = table[d][s]
    BY DEF ItsEntry
  <2>2. Used(ItsEntry(table, x)) /\ ~IsSelfEntry(table, d, s)
    BY <1>1, <2>1 DEF Used, IsSelfEntry
  <2>3. QED
    BY <2>1, <2>2, OwnerIs
<1>5. Owners(table) \ {x} \subseteq Owners(u)
  <2>1. ASSUME table[d][s].attribute = "dir", NEW r \in Slot, Used(table[table[d][s].cluster][r])
        PROVE  IsSelfEntry(table, table[d][s].cluster, r)
    <3>1. r = 0
      BY <1>1, <2>1 DEF Vacant
    <3>2. table[d][s].cluster \in Directories(table)
      BY <1>2, <2>1, DirectoriesAre DEF Closed
    <3>3. QED
      BY <1>2, <3>1, <3>2 DEF Own
  <2>2. QED
    BY <1>2, <2>1, OwnersLeft
<1> HIDE DEF u, x
<1>6. \A o \in Owners(u) : ItsChain(diskFat, u, o) = ItsChain(diskFat, table, o)
  BY <1>2, <1>3, TreeKept
<1>7. HasChain(diskFat, table, x) /\ HasContent(diskFat, table, data, x)
  BY <1>2, <1>4 DEF Tree
<1>8. Rest' = q
  <2>1. IsChain(diskFat, q) /\ q[1] = table[d][s].cluster
    BY <1>4, <1>7 DEF HasChain
  <2>2. IsChain(fat, q)
    BY <1>2, <1>4, <2>1, ChainMoves DEF TreeInv, Remembered
  <2> HIDE DEF q
  <2>3. Chain(fat, q[1], FAT32_FAT_EMPTY_ENTRY) = q
    BY <1>2, <2>2, Ranges, ChainIs
  <2>4. QED
    BY <1>3, <2>1, <2>3 DEF Rest
<1>9. pc' = "erase_dir" => Len(Rest') = 1
  <2>1. pc' = "erase_dir" => table[d][s].attribute = "dir"
    BY <1>1 DEF Remove
  <2>2. QED
    BY <1>4, <1>7, <1>8, <2>1 DEF HasContent
<1>10. ASSUME NEW c \in Cluster, fat'[c] # FAT32_FAT_EMPTY_ENTRY
       PROVE  Granted(c) \/ OnChain(Shown, c)' \/ InHand(c)'
  <2>1. Granted(c) \/ OnChain(table, c)
    <3>1. ~InHand(c)
      BY <1>2 DEF InHand
    <3>2. QED
      BY <1>2, <1>3, <1>10, <3>1 DEF Accounted
  <2>2. ASSUME NEW o \in Owners(table), NEW k \in DOMAIN ItsChain(diskFat, table, o),
               ItsChain(diskFat, table, o)[k] = c
        PROVE  OnChain(Shown, c)' \/ InHand(c)'
    <3>1. CASE o = x
      BY <1>3, <1>8, <2>2, <3>1 DEF InHand
    <3>2. CASE o # x
      BY <1>3, <1>5, <1>6, <2>2, <3>2 DEF OnChain
    <3>3. QED
      BY <3>1, <3>2
  <2>3. QED
    BY <2>1, <2>2 DEF OnChain
<1>11. QED
  BY <1>9, <1>10 DEF Accounted, Granted

\* A write's last step gives the clusters it has in hand an owner.
LEMMA CommitAccounts ==
    ASSUME TreeInv, OwnEntries, Room, Accounted(Shown),
           FlushParent, call.op \in {"mkdir", "file"}
    PROVE  Accounted(Shown)'
<1> DEFINE d == call.dir
           s == call.slot
           e == NewEntry
           x == <<d, s>>
<1>1. /\ d \in Directories(table) /\ s \in Slot /\ e \in UsedEntry
      /\ Shown = table /\ Shown' = table' /\ table' = Put(table, d, s, e)
      /\ ItsChain(diskFat, table', x) = call.chain
      /\ \A o \in Owners(table') \ {x} : ItsEntry(table', o) = ItsEntry(table, o)
  BY Committed DEF Stays, OwnEntries, Placed
<1>2. /\ table \in [Cluster -> Table] /\ pc = "flush_parent" /\ Own(table) /\ Prepared
      /\ UNCHANGED <<diskFat, fat>>
  BY <1>1, TreeTypes, Writing DEF FlushParent, OwnEntries, HasRoot, TreeInv, FormatOrder
<1>3. ~Used(table[d][s]) /\ s # 0
  <2>1. Used(table[d][0])
    BY <1>1, <1>2 DEF Own, IsSelfEntry, Used
  <2>2. \E r \in Slot : ~Used(table[d][r])
    BY <1>1 DEF Room
  <2>3. TakesSlot(table[d], s)
    BY <1>2 DEF Prepared
  <2>4. QED
    BY <2>1, <2>2, <2>3 DEF TakesSlot
<1> HIDE DEF d, s, e
<1>4. Owners(table) \cup {x} \subseteq Owners(table')
  BY <1>1, <1>2, <1>3, OwnersGained
<1>5. ASSUME NEW c \in Cluster, fat'[c] # FAT32_FAT_EMPTY_ENTRY
      PROVE  Granted(c) \/ OnChain(Shown, c)'
  <2>1. Granted(c) \/ OnChain(table, c) \/ \E k \in DOMAIN call.chain : call.chain[k] = c
    BY <1>1, <1>2, <1>5 DEF Accounted, InHand
  <2>2. ASSUME NEW k \in DOMAIN call.chain, call.chain[k] = c
        PROVE  OnChain(Shown, c)'
    BY <1>1, <1>2, <1>4, <2>2 DEF OnChain
  <2>3. ASSUME NEW o \in Owners(table), NEW k \in DOMAIN ItsChain(diskFat, table, o),
               ItsChain(diskFat, table, o)[k] = c, o # x
        PROVE  OnChain(Shown, c)'
    <3>1. o \in Owners(table') /\ ItsEntry(table', o) = ItsEntry(table, o)
      BY <1>1, <1>4, <2>3
    <3>2. ItsChain(diskFat, table', o) = ItsChain(diskFat, table, o)
      BY <3>1 DEF ItsChain
    <3>3. QED
      BY <1>1, <1>2, <2>3, <3>1, <3>2 DEF OnChain
  <2>4. x \notin Owners(table)
    BY <1>3, OwnerIs DEF ItsEntry, x
  <2>5. QED
    BY <2>1, <2>2, <2>3, <2>4 DEF OnChain
<1>6. QED
  BY <1>5 DEF Accounted, Granted

\* A step of a delete clears the cluster that leaves its hand.
LEMMA EraseAccounts ==
    ASSUME TreeInv, TreeInv', Unmoved, Accounted(Shown), pc = "erase_dir" => Len(Rest) = 1,
           EraseDirectory \/ EraseCluster \/ EraseLast
    PROVE  Accounted(Shown)'
<1>1. /\ pc \in {"erase_dir", "erase", "erase_last"} /\ fat' = Cleared(fat, call.cluster)
      /\ call.op = "delete" /\ Rest[1] = call.cluster /\ IsChain(fat, Rest)
      /\ pc = "erase_last" => Len(Rest) = 1
  BY Erasing DEF EraseDirectory, EraseCluster, EraseLast
<1>2. ASSUME NEW c \in Cluster, fat'[c] # FAT32_FAT_EMPTY_ENTRY
      PROVE  c # call.cluster /\ fat[c] # FAT32_FAT_EMPTY_ENTRY
  BY <1>1, <1>2, CellRanges DEF Cleared
<1>3. CASE EraseCluster
  <2>1. /\ pc = "erase" /\ pc' \in {"erase", "erase_last"} /\ Len(Rest') = Len(Rest) - 1
        /\ IsChain(fat', Rest') /\ \A i \in DOMAIN Rest' : Rest'[i] = Rest[i + 1]
    BY <1>3, RestShrinks DEF EraseCluster, TreeInv
  <2>2. ASSUME NEW c \in Cluster, fat'[c] # FAT32_FAT_EMPTY_ENTRY, InHand(c)
        PROVE  InHand(c)'
    <3>1. PICK k \in DOMAIN Rest : Rest[k] = c
      BY <1>1, <2>2 DEF InHand
    <3>2. k # 1
      BY <1>1, <1>2, <2>2, <3>1
    <3>3. k \in 1 .. Len(Rest) /\ Len(Rest) \in Nat /\ DOMAIN Rest' = 1 .. Len(Rest')
      BY <1>1, <2>1 DEF IsChain
    <3>4. k - 1 \in DOMAIN Rest' /\ (k - 1) + 1 = k
      BY <2>1, <3>2, <3>3
    <3>5. Rest'[k - 1] = c
      BY <2>1, <3>1, <3>4
    <3>6. QED
      BY <2>1, <3>4, <3>5 DEF InHand
  <2>3. QED
    BY <1>2, <2>2, AccountStays
<1>4. CASE EraseDirectory \/ EraseLast
  <2>1. Len(Rest) = 1
    BY <1>1, <1>4 DEF EraseDirectory, EraseLast
  <2>2. ASSUME NEW c \in Cluster, fat'[c] # FAT32_FAT_EMPTY_ENTRY
        PROVE  ~InHand(c)
    <3>1. DOMAIN Rest = {1}
      BY <1>1, <2>1 DEF IsChain
    <3>2. QED
      BY <1>1, <1>2, <2>2, <3>1 DEF InHand
  <2>3. QED
    BY <1>2, <2>2, AccountStays
<1>5. QED
  BY <1>3, <1>4

\* A request is made while no call is under way, and leads to no format.
LEMMA RequestPhase ==
    ASSUME Request
    PROVE  pc = "idle" /\ pc' \in {"idle", "lost", "new_table", "content", "erase_dir", "erase"}
<1>1. ASSUME pc = "idle", NEW a, Reply(a)
      PROVE  pc' = "idle"
  BY <1>1 DEF Reply
<1>2. ASSUME NEW d, NEW n, NEW size, ReadDirectory(d, n, size)
      PROVE  pc = "idle" /\ pc' = "idle"
  BY <1>1, <1>2 DEF ReadDirectory
<1>3. ASSUME NEW d, NEW n, NEW size, Read(d, n, size)
      PROVE  pc = "idle" /\ pc' \in {"idle", "lost"}
  BY <1>1, <1>3 DEF Read, ReadChain
<1>4. ASSUME NEW d, NEW n, NEW size, NEW p, Write(d, n, size, p)
      PROVE  pc = "idle" /\ pc' \in {"idle", "new_table", "content"}
  BY <1>1, <1>4 DEF Write, MakeDirectory, MakeFile
<1>5. ASSUME NEW d, NEW n, Delete(d, n)
      PROVE  pc = "idle" /\ pc' \in {"idle", "erase_dir", "erase"}
  BY <1>1, <1>5 DEF Delete, Remove
<1>6. QED
  BY <1>2, <1>3, <1>4, <1>5 DEF Request

\* No step of the driver leaks a cluster.
LEMMA LeakNext ==
    ASSUME Uncut, TreeInv, OwnEntries, Room, NothingLost, ~Moving, Next
    PROVE  NothingLost'
<1>1. TreeInv' /\ Accounted(Shown)
  BY TreeNext DEF Uncut, NothingLost
<1>2. ~Moving' /\ pc' # "move_src" /\ pc' # "move_dest"
  BY <1>1 DEF TreeInv, FreshInv, SavedInv, TypeInv, TypeOK, Phases, Moving
<1>3. ~PowerFails /\ ~MountSigned
  BY DEF PowerFails, MountSigned, Uncut, NothingLost
<1>4. CASE SignDisk \/ FormatFat \/ FormatRoot
  <2>1. \A c \in Cluster : fat'[c] # FAT32_FAT_EMPTY_ENTRY => c = ROOT_CLUSTER_NUMBER
    BY <1>4, CellRanges DEF SignDisk, FormatFat, FormatRoot, NothingLost, EmptyFat, Cluster, ROOT_CLUSTER_NUMBER
  <2>2. pc' \in {"format_fat", "format_root", "idle"}
    BY <1>4 DEF SignDisk, FormatFat, FormatRoot
  <2>3. Accounted(Shown)'
    BY <2>1 DEF Accounted, Granted
  <2>4. QED
    BY <1>2, <2>1, <2>2, <2>3 DEF NothingLost
<1>5. CASE ~(SignDisk \/ FormatFat \/ FormatRoot)
  <2>1. \/ Request
        \/ WriteNewTable \/ WriteContent \/ FlushFat \/ FlushParent
        \/ EraseDirectory \/ EraseCluster \/ EraseLast
    BY <1>3, <1>5 DEF Next, Step
  <2>2. pc' \notin {"off", "format_fat", "format_root"}
    <3>1. CASE Request
      BY <3>1, RequestPhase
    <3>2. CASE ~Request
      BY <2>1, <3>2 DEF WriteNewTable, WriteContent, FlushFat, FlushParent, Return, EraseDirectory,
         EraseCluster, EraseLast
    <3>3. QED
      BY <3>1, <3>2
  <2>3. CASE call'.op = "delete" /\ call.op # "delete"
    BY <1>1, <1>2, <2>2, <2>3, DeleteAccounts DEF NothingLost
  <2>4. CASE FlushParent /\ call.op \in {"mkdir", "file"}
    <3>1. pc' = "idle" /\ Accounted(Shown)'
      BY <1>1, <2>4, CommitAccounts DEF FlushParent, Return
    <3>2. QED
      BY <1>2, <3>1 DEF NothingLost
  <2>5. CASE ~(FlushParent /\ call.op \in {"mkdir", "file"}) /\ (call'.op = "delete" => call.op = "delete")
    <3>1. Unmoved
      BY <1>5, <2>5, TreeStays DEF Uncut
    <3>2. CASE Request
      <4>1. /\ pc = "idle" /\ pc' # "erase_dir" /\ call.op = "none" /\ call'.op # "delete"
        <5>1. pc = "idle" /\ call.op = "none"
          BY <3>2, RequestPhase, WhenIdle
        <5>2. call'.op # "delete"
          BY <2>5, <5>1
        <5>3. QED
          BY <1>1, <5>1, <5>2 DEF TreeInv, FreshInv, Fresh
      <4>2. \A c \in Cluster : ~InHand(c)
        BY <4>1 DEF InHand
      <4>3. Accounted(Shown)'
        BY <1>1, <3>1, <3>2, <4>1, <4>2, RequestMarks, AccountStays
      <4>4. QED
        BY <1>2, <2>2, <4>1, <4>3 DEF NothingLost
    <3>3. CASE WriteNewTable \/ WriteContent \/ FlushFat \/ FlushParent
      <4>1. /\ pc \notin {"erase_dir", "erase", "erase_last"} /\ pc' # "erase_dir"
            /\ fat' = fat
        BY <3>3 DEF WriteNewTable, WriteContent, FlushFat, FlushParent, Return
      <4>2. call.op \in {"mkdir", "file"} => call'.op = call.op /\ call'.chain = call.chain
        <5>1. call \in Calls
          BY TreeTypes DEF TreeInv
        <5>2. QED
          BY <2>5, <3>3, <5>1 DEF WriteNewTable, WriteContent, FlushFat, Calls
      <4>3. \A c \in Cluster : InHand(c) => InHand(c)'
        BY <4>1, <4>2 DEF InHand
      <4>4. Accounted(Shown)'
        BY <1>1, <3>1, <4>1, <4>3, AccountStays
      <4>5. QED
        BY <1>2, <2>2, <4>1, <4>4 DEF NothingLost
    <3>4. CASE EraseDirectory \/ EraseCluster \/ EraseLast
      <4>1. pc' # "erase_dir"
        BY <3>4 DEF EraseDirectory, EraseCluster, EraseLast
      <4>2. Accounted(Shown)'
        BY <1>1, <3>1, <3>4, EraseAccounts DEF NothingLost
      <4>3. QED
        BY <1>2, <2>2, <4>1, <4>2 DEF NothingLost
    <3>5. QED
      BY <2>1, <3>2, <3>3, <3>4
  <2>6. QED
    BY <2>3, <2>4, <2>5
<1>6. QED
  BY <1>4, <1>5

\* The tables without the entry that moves.
Without(t, s, i) == [t EXCEPT ![s] = Taken(t[s], i)]

\* A move apart leaves every entry an owner, in its old place or in the new one.
LEMMA OwnersArrive ==
    ASSUME NEW t \in [Cluster -> Table], NEW s \in Directories(t), NEW d \in Directories(t),
           s # d, NEW i \in Slot \ {0}, NEW k \in Slot \ {0}, ~Used(t[d][k]),
           d \in Directories(Without(t, s, i)),
           NEW u, u = Relocated(t, s, i, d, k)
    PROVE  \A o \in Owners(t) : \E r \in Owners(u) : ItsEntry(u, r) = ItsEntry(t, o)
<1> DEFINE v == Without(t, s, i)
<1>1. s \in Cluster /\ d \in Cluster
  BY DirectoriesType
<1>2. /\ u \in [Cluster -> Table] /\ u[s][i] = FreeEntry /\ u[d][k] = t[s][i]
      /\ \A c \in Cluster, r \in Slot :
            <<c, r>> # <<s, i>> /\ <<c, r>> # <<d, k>> => u[c][r] = t[c][r]
  BY <1>1 DEF Relocated, Taken, Table
<1>3. /\ v \in [Cluster -> Table] /\ v[s][i] = FreeEntry
      /\ \A c \in Cluster, r \in Slot : <<c, r>> # <<s, i>> => v[c][r] = t[c][r]
  BY <1>1 DEF Without, Taken, Table
<1> HIDE DEF v
<1>4. Directories(u) \in SUBSET Cluster /\ ROOT_CLUSTER_NUMBER \in Directories(u) /\ Closed(u, Directories(u))
  BY <1>2, DirectoriesAre
<1>5. ASSUME NEW c \in Directories(u), NEW r \in Slot, t[c][r].attribute = "dir", <<c, r>> # <<s, i>>
      PROVE  t[c][r].cluster \in Directories(u)
  <2>1. <<c, r>> # <<d, k>>
    BY <1>5 DEF Used
  <2>2. u[c][r] = t[c][r]
    BY <1>2, <1>4, <1>5, <2>1
  <2>3. QED
    BY <1>4, <1>5, <2>2 DEF Closed
<1>6. d \in Directories(u)
  <2>1. ASSUME NEW c \in Directories(u), NEW r \in Slot, v[c][r].attribute = "dir"
        PROVE  v[c][r].cluster \in Directories(u)
    <3>1. <<c, r>> # <<s, i>>
      BY <1>3, <2>1 DEF FreeEntry
    <3>2. v[c][r] = t[c][r]
      BY <1>3, <1>4, <3>1
    <3>3. QED
      BY <1>5, <2>1, <3>1, <3>2
  <2>2. Closed(v, Directories(u))
    BY <2>1 DEF Closed
  <2>3. QED
    BY <1>3, <1>4, <2>2, DirectoriesAre DEF v
<1>7. Directories(t) \subseteq Directories(u)
  <2>1. t[s][i].attribute = "dir" => t[s][i].cluster \in Directories(u)
    BY <1>2, <1>4, <1>6 DEF Closed
  <2>2. Closed(t, Directories(u))
    BY <1>5, <2>1 DEF Closed
  <2>3. QED
    BY <1>4, <2>2, DirectoriesAre
<1>8. ASSUME NEW o \in Owners(t)
      PROVE  \E r \in Owners(u) : ItsEntry(u, r) = ItsEntry(t, o)
  <2>1. o \in Directories(t) \X Slot /\ Used(ItsEntry(t, o)) /\ ~IsSelfEntry(t, o[1], o[2])
    BY OwnerIs
  <2>2. o[1] \in Cluster /\ o[2] \in Slot /\ o = <<o[1], o[2]>>
    BY <2>1, PairOf
  <2>3. CASE o = <<s, i>>
    <3>1. ItsEntry(u, <<d, k>>) = ItsEntry(t, o)
      BY <1>2, <2>3 DEF ItsEntry
    <3>2. <<d, k>> \in Directories(u) \X Slot /\ ~IsSelfEntry(u, <<d, k>>[1], <<d, k>>[2])
      BY <1>6 DEF IsSelfEntry
    <3>3. <<d, k>> \in Owners(u)
      BY <2>1, <3>1, <3>2, OwnerIs
    <3>4. QED
      BY <3>1, <3>3
  <2>4. CASE o # <<s, i>>
    <3>1. o # <<d, k>>
      BY <2>1 DEF ItsEntry
    <3>2. u[o[1]][o[2]] = t[o[1]][o[2]]
      BY <1>2, <2>2, <2>4, <3>1
    <3>3. o \in Directories(u) \X Slot
      BY <1>7, <2>1
    <3>4. ItsEntry(u, o) = ItsEntry(t, o) /\ o \in Owners(u)
      BY <2>1, <3>2, <3>3, OwnerIs DEF ItsEntry, IsSelfEntry
    <3>5. QED
      BY <3>4
  <2>5. QED
    BY <2>3, <2>4
<1>9. QED
  BY <1>8

\* Beginning a move, the owners are counted as they will be when it is over.
LEMMA MoveAccounts ==
    ASSUME Uncut, TreeMoveInv, Room, NothingLost,
           NEW s \in Directories(table), NEW d \in Directories(table), NEW n \in Names,
           StartMove(s, d, n)
    PROVE  NothingLost'
<1>1. /\ pc = "idle" /\ pc' = "move_src" /\ s # d /\ Sound(table)
      /\ UNCHANGED <<signature, diskFat, table, data, fat, call>>
  BY MoveBegun DEF Uncut
<1>2. PICK i, k \in Slot \ {0} :
         /\ Kind(s, d, i) \in Moves /\ ~Used(table[d][k])
         /\ move' = [src |-> Taken(table[s], i), dest |-> [table[d] EXCEPT ![k] = table[s][i]],
                     from |-> s, to |-> d]
  BY MoveBegun DEF Uncut
<1> DEFINE u == Relocated(table, s, i, d, k)
<1>3. [table' EXCEPT ![move'.from] = move'.src, ![move'.to] = move'.dest] = u
  BY <1>1, <1>2 DEF Relocated
<1>4. d \in Directories(Without(table, s, i))
  BY <1>1, <1>2 DEF Kind, Uncut, Without
<1>5. \A o \in Owners(table) : \E r \in Owners(u) : ItsEntry(u, r) = ItsEntry(table, o)
  <2>1. u = Relocated(table, s, i, d, k) /\ table \in [Cluster -> Table]
    BY <1>1 DEF Sound
  <2> HIDE DEF u
  <2>2. QED
    BY <1>1, <1>2, <1>4, <2>1, OwnersArrive
<1> HIDE DEF u
<1>6. ASSUME NEW c \in Cluster, fat[c] # FAT32_FAT_EMPTY_ENTRY
      PROVE  Granted(c) \/ OnChain(u, c)
  <2>1. Shown = table /\ ~Moving /\ ~InHand(c)
    <3>1. TreeInv /\ ~Moving
      BY <1>1 DEF TreeMoveInv, Moving
    <3>2. QED
      BY <1>1, <3>1, WhenIdle DEF InHand
  <2>2. Granted(c) \/ OnChain(table, c)
    BY <2>1, <1>6 DEF NothingLost, Accounted
  <2>3. ASSUME NEW o \in Owners(table), NEW j \in DOMAIN ItsChain(diskFat, table, o),
               ItsChain(diskFat, table, o)[j] = c
        PROVE  OnChain(u, c)
    <3>1. PICK r \in Owners(u) : ItsEntry(u, r) = ItsEntry(table, o)
      BY <1>5
    <3>2. ItsChain(diskFat, u, r) = ItsChain(diskFat, table, o)
      BY <3>1 DEF ItsChain
    <3>3. QED
      BY <2>3, <3>2 DEF OnChain
  <2>4. QED
    BY <2>2, <2>3 DEF OnChain
<1>7. Accounted([table EXCEPT ![move.from] = move.src, ![move.to] = move.dest])'
  <2>1. \A c \in Cluster : OnChain(u, c) =>
           OnChain([table EXCEPT ![move.from] = move.src, ![move.to] = move.dest], c)'
    BY <1>1, <1>3 DEF OnChain
  <2>2. QED
    BY <1>1, <1>6, <2>1 DEF Accounted, Granted
<1>8. QED
  BY <1>1, <1>7 DEF NothingLost, Moving

\* The tables t account for what memory has in use in the next state.
AccountedNext(t) ==
    \A c \in Cluster : fat'[c] # FAT32_FAT_EMPTY_ENTRY =>
       \/ Granted(c) \/ InHand(c)'
       \/ \E o \in Owners(t) :
             \E k \in DOMAIN Chain(diskFat', ItsEntry(t, o).cluster, FAT32_FAT_EMPTY_ENTRY) :
                Chain(diskFat', ItsEntry(t, o).cluster, FAT32_FAT_EMPTY_ENTRY)[k] = c

\* They do if neither FAT changes and nothing leaves the call's hand.
LEMMA AccountGoesOn ==
    ASSUME UNCHANGED <<diskFat, fat>>, \A c \in Cluster : InHand(c) => InHand(c)',
           NEW t, Accounted(t)
    PROVE  AccountedNext(t)
BY DEF Accounted, OnChain, ItsChain, AccountedNext

\* The writes of a move come to the tables that were counted.
LEMMA MoveWrites ==
    ASSUME TreeMoveInv, NothingLost, MoveSource \/ MoveDest
    PROVE  NothingLost'
<1>1. /\ Moving /\ Transit /\ call = NoCall /\ table \in [Cluster -> Table]
      /\ UNCHANGED <<diskFat, fat, call>>
  BY DEF MoveSource, MoveDest, TreeMoveInv, MoveInv, Moving, Between
<1>2. \A c \in Cluster : ~InHand(c)
  BY <1>1 DEF InHand, Moving, NoCall
<1>3. CASE MoveSource
  <2> DEFINE t == [table EXCEPT ![move.from] = move.src, ![move.to] = move.dest]
  <2>1. pc = "move_src" /\ pc' = "move_dest" /\ Accounted(t)
    BY <1>3 DEF MoveSource, NothingLost
  <2>2. [table' EXCEPT ![move'.to] = move'.dest] = t
    BY <1>1, <1>3 DEF MoveSource, WriteBack, Transit, NoFileIn
  <2> HIDE DEF t
  <2>3. AccountedNext(t)
    BY <1>1, <1>2, <2>1, AccountGoesOn
  <2>4. Accounted([table EXCEPT ![move.to] = move.dest])'
    BY <2>2, <2>3 DEF AccountedNext, Accounted, OnChain, ItsChain, Granted
  <2>5. QED
    BY <2>1, <2>4 DEF NothingLost, Moving
<1>4. CASE MoveDest
  <2> DEFINE t == [table EXCEPT ![move.to] = move.dest]
  <2>1. pc = "move_dest" /\ pc' = "idle" /\ Accounted(t)
    BY <1>4 DEF MoveDest, NothingLost
  <2>2. table' = t
    BY <1>1, <1>4 DEF MoveDest, WriteBack
  <2>3. Shown' = table'
    BY <1>1 DEF Shown, NoCall
  <2> HIDE DEF t
  <2>4. AccountedNext(t)
    BY <1>1, <1>2, <2>1, AccountGoesOn
  <2>5. Accounted(Shown)'
    BY <2>2, <2>3, <2>4 DEF AccountedNext, Accounted, OnChain, ItsChain, Granted
  <2>6. QED
    BY <2>1, <2>5 DEF NothingLost, Moving
<1>5. QED
  BY <1>3, <1>4

\* When nothing happens every account stays.
LEMMA LeakStutter ==
    ASSUME NothingLost, UNCHANGED moveVars
    PROVE  NothingLost'
<1>1. UNCHANGED <<signature, diskFat, table, fat, pc, call, move>>
  BY DEF moveVars, vars
<1>2. Shown' = Shown /\ Rest' = Rest
  BY <1>1 DEF Shown, Rest
<1>3. \A t : Accounted(t) => AccountedNext(t)
  BY <1>1, <1>2, AccountGoesOn DEF InHand
<1>4. Accounted(Shown) => Accounted(Shown)'
  BY <1>2, <1>3 DEF AccountedNext, Accounted, OnChain, ItsChain, Granted
<1>5. Accounted([table EXCEPT ![move.from] = move.src, ![move.to] = move.dest])
         => Accounted([table EXCEPT ![move.from] = move.src, ![move.to] = move.dest])'
  <2> DEFINE t == [table EXCEPT ![move.from] = move.src, ![move.to] = move.dest]
  <2>1. [table' EXCEPT ![move'.from] = move'.src, ![move'.to] = move'.dest] = t
    BY <1>1
  <2> HIDE DEF t
  <2>2. AccountedNext(t) => Accounted([table EXCEPT ![move.from] = move.src, ![move.to] = move.dest])'
    BY <2>1 DEF AccountedNext, Accounted, OnChain, ItsChain, Granted
  <2>3. QED
    BY <1>3, <2>2 DEF t
<1>6. Accounted([table EXCEPT ![move.to] = move.dest])
         => Accounted([table EXCEPT ![move.to] = move.dest])'
  <2> DEFINE t == [table EXCEPT ![move.to] = move.dest]
  <2>1. [table' EXCEPT ![move'.to] = move'.dest] = t
    BY <1>1
  <2> HIDE DEF t
  <2>2. AccountedNext(t) => Accounted([table EXCEPT ![move.to] = move.dest])'
    BY <2>1 DEF AccountedNext, Accounted, OnChain, ItsChain, Granted
  <2>3. QED
    BY <1>3, <2>2 DEF t
<1>7. QED
  BY <1>1, <1>2, <1>4, <1>5, <1>6 DEF NothingLost, Moving

\* Every step of the driver and of a move keeps the account.
LEMMA LeakMoveNext ==
    ASSUME Uncut, TreeMoveInv, Room, NothingLost, [MoveNext]_moveVars
    PROVE  NothingLost'
<1>1. CASE Next /\ UNCHANGED move
  <2>1. TreeInv /\ OwnEntries /\ ~Moving
    BY <1>1, DriverRests DEF TreeMoveInv
  <2>2. QED
    BY <1>1, <2>1, LeakNext
<1>2. ASSUME NEW s \in Directories(table), NEW d \in Directories(table), NEW n \in Names,
             StartMove(s, d, n)
      PROVE  NothingLost'
  BY <1>2, MoveAccounts
<1>3. CASE MoveSource \/ MoveDest
  BY <1>3, MoveWrites
<1>4. ~MovePowerFails
  BY DEF MovePowerFails, Uncut
<1>5. CASE UNCHANGED moveVars
  BY <1>5, LeakStutter
<1>6. QED
  BY <1>1, <1>2, <1>3, <1>4, <1>5 DEF MoveNext

\* Between two calls nobody has a cluster in hand.
LEMMA NothingLostSafe == TreeMoveInv /\ NothingLost => NoLeak
<1> SUFFICES ASSUME TreeMoveInv, NothingLost, pc = "idle", NEW c \in Cluster \ Free(fat)
             PROVE  \/ c = ROOT_CLUSTER_NUMBER \/ c + 1 = CLUSTER_MAP_SIZE
                    \/ \E o \in Owners(Shown) : c \in Owned(o)
  BY DEF NoLeak
<1>1. TreeInv /\ Accounted(Shown)
  BY DEF TreeMoveInv, NothingLost, Moving
<1>2. call.op = "none" /\ fat[c] # FAT32_FAT_EMPTY_ENTRY
  BY <1>1, WhenIdle DEF Free
<1>3. Granted(c) \/ OnChain(Shown, c)
  BY <1>1, <1>2 DEF Accounted, InHand
<1>4. \A o : ChainOf(o) = ItsChain(diskFat, Shown, o)
  BY DEF ChainOf, EntryOf, ItsChain, ItsEntry
<1>5. QED
  BY <1>3, <1>4 DEF Granted, OnChain, Owned

\* While the power stays on and no table fills up, no call of the driver and no move
\* to another directory leaks a cluster (fat32.c:285-294, 398, 410-420, interrupt.c:95-137).
THEOREM MoveNoLeak ==
    ASSUME Uncut
    PROVE  MoveSpec /\ []Room => []NoLeak
<1>1. MoveInit => TreeMoveInv /\ NothingLost
  BY TreeMoveInit
     DEF MoveInit, Init, NothingLost, Accounted, Moving, EmptyFat, Cluster, Cell, ROOT_CLUSTER_NUMBER
<1>2. Benign /\ "same" \notin Moves
  BY DEF Uncut
<1>3. /\ TreeMoveInv /\ NothingLost /\ Room /\ [MoveNext]_moveVars
      => TreeMoveInv' /\ NothingLost'
  BY <1>2, TreeMoveNext, LeakMoveNext
<1>4. QED
  BY <1>1, <1>3, NothingLostSafe, PTL DEF MoveSpec
=============================================================================
