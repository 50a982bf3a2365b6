-------------------------- MODULE Fat32Properties --------------------------
(***************************************************************************)
(* What the FAT32 driver of Fat32 keeps true, and what the documentation   *)
(* of its interface says and the code does not do.                         *)
(***************************************************************************)
EXTENDS Fat32

Phases == {"off", "format_fat", "format_root", "idle", "lost", "new_table", "content",
           "flush_fat", "flush_parent", "erase_dir", "erase", "erase_last"}

\* Every variable keeps its type.
TypeOK ==
    /\ signature \in BOOLEAN
    /\ diskFat \in [Cell -> FatValue]
    /\ table \in [Cluster -> Table]
    /\ data \in [Cluster -> Block]
    /\ fat \in [Cell -> FatValue]
    /\ pc \in Phases
    /\ call \in Calls
    /\ out \in [code : -1 .. Pending, blocks : Seq(Block), listed : {0} \cup Cluster]

\* What the disk shows once the entry being deleted is taken as gone.
Shown == IF call.op = "delete" THEN [table EXCEPT ![call.dir] = call.parent] ELSE table

\* The entries that own clusters: all but the entry a directory has for itself.
IsSelfEntry(t, d, s) == s = 0 /\ t[d][s].attribute = "dir" /\ t[d][s].cluster = d
Owners(t) ==
    {o \in Directories(t) \X Slot : Used(t[o[1]][o[2]]) /\ ~IsSelfEntry(t, o[1], o[2])}
EntryOf(o) == Shown[o[1]][o[2]]
ChainOf(o) == Chain(diskFat, EntryOf(o).cluster, FAT32_FAT_EMPTY_ENTRY)
Owned(o)   == {ChainOf(o)[k] : k \in DOMAIN ChainOf(o)}

\* At every disk write, and so whatever the moment the power fails at, each
\* entry on the disk but the one being deleted starts a chain of allocated
\* clusters that ends, and no cluster is on two chains or is a reserved one:
\* write() commits data and FAT before the parent's table, delete() clears no
\* cluster of another entry (fat32.c:322-342, 390-424).
NoCrossLink ==
    /\ pc \notin {"off", "format_fat"} =>
          \A c \in 0 .. ROOT_CLUSTER_NUMBER : diskFat[c] # FAT32_FAT_EMPTY_ENTRY
    /\ \A o \in Owners(Shown) :
          /\ Ends(diskFat, ChainOf(o), FAT32_FAT_EMPTY_ENTRY)
          /\ Owned(o) \subseteq Cluster \ {ROOT_CLUSTER_NUMBER}
    /\ \A o1, o2 \in Owners(Shown) : o1 # o2 => Owned(o1) \cap Owned(o2) = {}

\* At every disk write each file on the disk but the one being deleted has as
\* many clusters as its entry says, and they hold one payload, in order: an
\* entry is never committed before its content is (fat32.c:334-342).
FilesWhole ==
    \A o \in Owners(Shown) : EntryOf(o).attribute = "file" =>
       /\ Len(ChainOf(o)) = EntryOf(o).filesize
       /\ \E p \in Payloads : \A k \in DOMAIN ChainOf(o) : BlockAt(ChainOf(o)[k]) = <<p, k>>

\* Between two calls the FAT in memory is the FAT on the disk, so that the next
\* boot loads what the driver believes.  One cell is excepted, the last, which
\* a refused mkdir leaves marked in memory only (fat32.c:285-294, 341, 442).
Agree ==
    \A c \in Cell : \/ fat[c] = diskFat[c]
                    \/ /\ c + 1 = CLUSTER_MAP_SIZE
                       /\ fat[c] = FAT32_FAT_END_OF_FILE
                       /\ diskFat[c] = FAT32_FAT_EMPTY_ENTRY
FatFlushed == pc = "idle" => Agree

\* A write changes nothing the FAT on the disk has in use before its last disk
\* write, and then the parent's table only: the power may fail at any of its
\* disk writes, also after a format or a delete was cut off (fat32.c:297-342).
CommittedUntouched ==
    [][call.op \in {"mkdir", "file"} =>
          \A c \in Cluster :
             diskFat[c] # FAT32_FAT_EMPTY_ENTRY /\ <<table'[c], data'[c]>> # <<table[c], data[c]>>
                => pc = "flush_parent" /\ c = call.dir]_vars

\* While no table is full and no power is lost, every allocated cluster belongs
\* to an entry: neither a deleted chain nor a refused call leaks one, but for
\* the last cluster that a refused mkdir marks (fat32.c:285-294, 398, 410-420).
NoLeak ==
    pc = "idle" =>
       \A c \in Cluster \ Free(fat) :
          \/ c = ROOT_CLUSTER_NUMBER \/ c + 1 = CLUSTER_MAP_SIZE
          \/ \E o \in Owners(Shown) : c \in Owned(o)

\* A directory loses the entry it has for itself in slot 0, which "cd" and "mv"
\* take its cluster from, only by a write into a full table (fat32.c:258-265).
SelfEntryKept ==
    [][\A d \in Directories(Shown) \cap Directories(Shown') :
          (IsSelfEntry(Shown, d, 0) /\ ~IsSelfEntry(Shown', d, 0))
             => \A s \in Slot : Used(table[d][s])]_vars

\* Every call that reaches the disk returns, unless the power fails: the loops
\* of write() and delete() end (fat32.c:334-336, 410-418).
Serving == pc \notin {"off", "idle"}
CallsReturn == Serving ~> ~Serving
=============================================================================
