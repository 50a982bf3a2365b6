----------------------------- MODULE Fat32Store -----------------------------
(***************************************************************************)
(* The driver of Fat32 implements FileStore.  The tree is read off the     *)
(* disk: the tables reachable from the root and the blocks their chains    *)
(* lead to.  A write takes effect at the write of the parent's table, the  *)
(* last of its disk writes; a delete when it begins, since its first disk  *)
(* write clears the content.  Power may fail at any point but inside a     *)
(* delete (which leaves its entry behind) and inside the format.           *)
(***************************************************************************)
EXTENDS Fat32Properties

Formatted == Used(Shown[ROOT_CLUSTER_NUMBER][0])

\* An entry of a table as FileStore sees it.
ItemOf(e) ==
    [name    |-> e.name,
     kind    |-> e.attribute,
     ref     |-> IF e.attribute = "dir" THEN e.cluster ELSE 0,
     content |-> IF e.attribute = "file"
                 THEN LET q == Chain(diskFat, e.cluster, FAT32_FAT_EMPTY_ENTRY)
                      IN  [k \in 1 .. Len(q) |-> BlockAt(q[k])]
                 ELSE <<>>]

TreeOnDisk ==
    LET t == Shown
    IN  [d \in Directories(t) |-> [s \in Slot |-> ItemOf(t[d][s])]]

FreshTree == [d \in {ROOT_CLUSTER_NUMBER} |->
                [s \in Slot |-> ItemOf(NewTable(RootName, ROOT_CLUSTER_NUMBER)[s])]]

Dirs == IF Formatted THEN TreeOnDisk ELSE FreshTree

Store == INSTANCE FileStore WITH
    Handles  <- Cluster,
    Root     <- ROOT_CLUSTER_NUMBER,
    dirs     <- Dirs,
    removing <- call.op = "delete",
    answer   <- out

\* Every behaviour of the driver is one of the store, but for the three calls
\* that fat32.h refuses and the driver grants (Store!Departure): a call that
\* succeeds takes effect once and for good, one that fails or is cut off by the
\* loss of power leaves no trace, and read() gives what was written
\* (fat32.c:148-449).
ImplementsStore == Store!DriverSpec

\* "0 success - 1 file/folder already exist" (fat32.h:236), "0 success - 1 not a
\* file" (fat32.h:228): the driver is the store of fat32.h, and departs from nothing.
KeepsPromise == Store!Spec
=============================================================================
