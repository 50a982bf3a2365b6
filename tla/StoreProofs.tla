---------------------------- MODULE StoreProofs ----------------------------
(***************************************************************************)
(* The driver of Fat32 implements FileStore under the refinement mapping   *)
(* of Fat32Store, for every size of the FAT and of the tables, every set   *)
(* of names, payloads and lengths.                                         *)
(***************************************************************************)
EXTENDS Fat32Store, TreeProofs

(***************************************************************************)
(* What an entry and a table are for FileStore, apart from any state: f is *)
(* a FAT, b the blocks of files.                                           *)
(***************************************************************************)
BlockIn(b, c) == IF c \in Cluster THEN b[c] ELSE NoBlock
ContentIn(b, q) == [k \in 1 .. Len(q) |-> BlockIn(b, q[k])]
ItemIn(f, b, e) ==
    [name    |-> e.name,
     kind    |-> e.attribute,
     ref     |-> IF e.attribute = "dir" THEN e.cluster ELSE 0,
     content |-> IF e.attribute = "file"
                 THEN ContentIn(b, Chain(f, e.cluster, FAT32_FAT_EMPTY_ENTRY))
                 ELSE <<>>]
RowIn(f, b, r) == [s \in Slot |-> ItemIn(f, b, r[s])]
Rows(f, t, b, D) == [d \in D |-> RowIn(f, b, t[d])]

\* The mapping in these terms, now and in the next state.
LEMMA DirsAre ==
    /\ TreeOnDisk = Rows(diskFat, Shown, data, Directories(Shown))
    /\ TreeOnDisk' = Rows(diskFat', Shown', data', Directories(Shown'))
BY DEF TreeOnDisk, ItemOf, BlockAt, Rows, RowIn, ItemIn, ContentIn, BlockIn

\* The slots of FileStore are those of the tables.
LEMMA SameSlots == Store!Slot = Slot
BY DEF Store!Slot, Slot

\* A free entry is no item, and any other is one.
LEMMA ItemTypes ==
    ASSUME NEW f, NEW b, NEW e \in UsedEntry \cup {FreeEntry}
    PROVE  /\ ItemIn(f, b, e).name = e.name /\ ItemIn(f, b, e).kind = e.attribute
           /\ e.attribute = "dir" => ItemIn(f, b, e) = Store!Folder(e.name, e.cluster)
           /\ ItemIn(f, b, e) = Store!None <=> ~Used(e)
           /\ Used(e) <=> e \in UsedEntry
           /\ Used(e) => e.name # NoName
<1>1. CASE e = FreeEntry
  BY <1>1, NamesAssumption DEF ItemIn, FreeEntry, Used, Store!None, UsedEntry
<1>2. CASE e \in UsedEntry
  BY <1>2, NamesAssumption DEF ItemIn, Used, Store!None, UsedEntry, Store!Folder
<1>3. QED
  BY <1>1, <1>2

\* A new table is a new directory.
LEMMA NewRow ==
    ASSUME NEW f, NEW b, NEW n, NEW c
    PROVE  RowIn(f, b, NewTable(n, c)) = Store!NewDirectory(n, c)
<1> DEFINE e == [name |-> n, attribute |-> "dir", cluster |-> c, filesize |-> 0]
<1>1. \A s \in Slot : NewTable(n, c)[s] = IF s = 0 THEN e ELSE FreeEntry
  BY DEF NewTable, EmptyTable
<1>2. ItemIn(f, b, e) = Store!Folder(n, c) /\ ItemIn(f, b, FreeEntry) = Store!None
  BY DEF ItemIn, FreeEntry, Store!Folder, Store!None
<1> HIDE DEF e
<1>3. QED
  BY <1>1, <1>2, SameSlots DEF RowIn, Store!NewDirectory

\* The tree that Prune leaves: the rows of the directories.
LEMMA Pruned ==
    ASSUME NEW t \in [Cluster -> Table], NEW D \in SUBSET Cluster,
           ROOT_CLUSTER_NUMBER \in D, Closed(t, D),
           NEW r, DOMAIN r = D,
           \A d \in D, s \in Slot :
              /\ r[d][s].kind = t[d][s].attribute
              /\ t[d][s].attribute = "dir" => r[d][s].ref = t[d][s].cluster
    PROVE  Store!Prune(r) = [h \in Directories(t) |-> r[h]] /\ Directories(t) \subseteq D
<1>1. /\ Directories(t) \in SUBSET D /\ ROOT_CLUSTER_NUMBER \in Directories(t)
      /\ Closed(t, Directories(t))
      /\ \A X \in SUBSET Cluster :
            ROOT_CLUSTER_NUMBER \in X /\ Closed(t, X) => Directories(t) \subseteq X
  BY DirectoriesAre
<1>2. \A S \in SUBSET D :
         (\A d \in S, s \in Slot : r[d][s].kind = "dir" => r[d][s].ref \in S) <=> Closed(t, S)
  BY DEF Closed
<1>3. Store!Hanging(r) = Directories(t)
  BY <1>1, <1>2, SameSlots DEF Store!Hanging
<1>4. QED
  BY <1>1, <1>3 DEF Store!Prune

\* An item is the same where the entry and, for a file, its owner are the same.
LEMMA ItemKept ==
    ASSUME NEW f \in [Cell -> FatValue], NEW g \in [Cell -> FatValue],
           NEW t \in [Cluster -> Table], NEW u, NEW b, NEW h, Tree(f, t, b),
           NEW d \in Cluster, NEW s \in Slot, u[d][s] = t[d][s],
           t[d][s].attribute = "file" => Stays(f, t, b, g, u, h, <<d, s>>)
    PROVE  ItemIn(g, h, u[d][s]) = ItemIn(f, b, t[d][s])
<1>1. CASE t[d][s].attribute # "file"
  BY <1>1 DEF ItemIn
<1>2. CASE t[d][s].attribute = "file"
  <2> DEFINE o == <<d, s>>
             q == ItsChain(f, t, o)
  <2>1. /\ o \in Owners(t) /\ ItsEntry(t, o) = t[d][s] /\ ItsEntry(u, o) = t[d][s]
        /\ \A k \in DOMAIN q : g[q[k]] = f[q[k]]
        /\ \A k \in DOMAIN q : h[q[k]] = b[q[k]]
    BY <1>2 DEF Stays, ItsEntry
  <2>2. HasChain(f, t, o)
    BY <2>1 DEF Tree
  <2>3. ItsChain(g, u, o) = q
    BY <2>1, <2>2, ChainKept
  <2>4. DOMAIN q = 1 .. Len(q) /\ \A k \in DOMAIN q : q[k] \in Cluster
    BY <2>2, ChainCells DEF HasChain
  <2>5. /\ Chain(f, t[d][s].cluster, FAT32_FAT_EMPTY_ENTRY) = q
        /\ Chain(g, u[d][s].cluster, FAT32_FAT_EMPTY_ENTRY) = q
    BY <2>1, <2>3 DEF ItsChain
  <2> HIDE DEF q
  <2>6. ContentIn(h, q) = ContentIn(b, q)
    BY <2>1, <2>4 DEF ContentIn, BlockIn
  <2>7. QED
    BY <2>5, <2>6 DEF ItemIn
<1>3. QED
  BY <1>1, <1>2

\* A file is the owner of its entry.
LEMMA FileOwned ==
    ASSUME NEW t, NEW d \in Directories(t), NEW s \in Slot, t[d][s].attribute = "file"
    PROVE  <<d, s>> \in Owners(t) /\ ItsEntry(t, <<d, s>>) = t[d][s]
<1>1. ItsEntry(t, <<d, s>>) = t[d][s] /\ ~IsSelfEntry(t, d, s) /\ Used(t[d][s])
  BY DEF ItsEntry, IsSelfEntry, Used
<1>2. QED
  BY <1>1, OwnerIs

\* A tree that stays as it is has the rows it had.
LEMMA RowsKept ==
    ASSUME NEW f \in [Cell -> FatValue], NEW g \in [Cell -> FatValue],
           NEW t \in [Cluster -> Table], NEW u \in [Cluster -> Table], NEW b, NEW h,
           Tree(f, t, b), AllStay(f, t, b, g, u, h), \A d \in Directories(t) : u[d] = t[d]
    PROVE  Rows(g, u, h, Directories(u)) = Rows(f, t, b, Directories(t))
<1>1. Directories(u) = Directories(t) /\ Owners(u) = Owners(t)
  BY OwnersAgree
<1>2. ASSUME NEW d \in Directories(t), NEW s \in Slot
      PROVE  ItemIn(g, h, u[d][s]) = ItemIn(f, b, t[d][s])
  <2>1. d \in Cluster
    BY DirectoriesType
  <2>2. t[d][s].attribute = "file" => Stays(f, t, b, g, u, h, <<d, s>>)
    BY <1>1, FileOwned DEF AllStay
  <2>3. u[d][s] = t[d][s]
    OBVIOUS
  <2>4. CASE t[d][s].attribute = "file"
    <3>1. Stays(f, t, b, g, u, h, <<d, s>>)
      BY <2>2, <2>4
    <3>2. QED
      BY ONLY Tree(f, t, b), f \in [Cell -> FatValue], g \in [Cell -> FatValue],
              t \in [Cluster -> Table], s \in Slot, <2>1, <2>3, <3>1, ItemKept
  <2>5. CASE t[d][s].attribute # "file"
    BY <2>3, <2>5 DEF ItemIn
  <2>6. QED
    BY <2>4, <2>5
<1>3. QED
  BY <1>1, <1>2 DEF Rows, RowIn

(***************************************************************************)
(* The root.  From the end of the format on it has an entry in slot 0, by  *)
(* which the mapping tells a disk that is formatted.                       *)
(***************************************************************************)
RootInv  == HasRoot => Formatted
StoreInv == TreeInv /\ Placed /\ RootInv

\* Before that there is no table.
LEMMA HasRootFirst ==
    ASSUME TreeInv, ~HasRoot
    PROVE  ~Formatted /\ table = [c \in Cluster |-> EmptyTable] /\ Shown = table
<1>1. pc \in {"off", "format_fat", "format_root"}
  BY DEF HasRoot, TreeInv, FormatOrder
<1>2. table = [c \in Cluster |-> EmptyTable] /\ Shown = table
  BY <1>1, WhenIdle DEF HasRoot, TreeInv, FormatOrder
<1>3. QED
  BY <1>2, Ranges DEF Formatted, EmptyTable, FreeEntry, Used

\* The root's first slot is filled by the format, and no step frees it.
LEMMA RootNext == StoreInv /\ Benign /\ Next => RootInv'
<1> SUFFICES ASSUME StoreInv, Benign, Next, HasRoot' PROVE Formatted'
  BY DEF RootInv
<1>1. /\ ROOT_CLUSTER_NUMBER \in Cluster /\ Shown \in [Cluster -> Table]
      /\ table \in [Cluster -> Table] /\ 0 \in Slot
      /\ ROOT_CLUSTER_NUMBER \in Directories(Shown)
  BY TreeTypes, Ranges, DirectoriesAre DEF StoreInv, TreeInv
<1>2. CASE FormatRoot
  <2>1. Shown' = table'
    BY <1>2, WhenIdle DEF FormatRoot, Shown, StoreInv
  <2>2. table'[ROOT_CLUSTER_NUMBER] = NewTable(RootName, ROOT_CLUSTER_NUMBER)
    BY <1>1, <1>2 DEF FormatRoot
  <2>3. Used(NewTable(RootName, ROOT_CLUSTER_NUMBER)[0])
    BY <1>1 DEF NewTable, EmptyTable, Used
  <2>4. QED
    BY <2>1, <2>2, <2>3 DEF Formatted
<1>3. CASE ~FormatRoot
  <2>1. HasRoot
    BY <1>3, HasRootBefore DEF StoreInv
  <2>2. Used(Shown[ROOT_CLUSTER_NUMBER][0])
    BY <2>1 DEF StoreInv, RootInv, Formatted
  <2>3. CASE FlushParent /\ call.op \in {"mkdir", "file"}
    <3>1. /\ Shown = table /\ Shown' = Put(table, call.dir, call.slot, NewEntry)
          /\ NewEntry \in UsedEntry /\ call.dir \in Cluster
      BY <2>3, Committed, DirectoriesType DEF StoreInv
    <3>2. Used(NewEntry)
      BY <3>1 DEF UsedEntry, Used
    <3>3. QED
      BY <1>1, <2>2, <3>1, <3>2 DEF Put, Table, Formatted
  <2>4. CASE ~(FlushParent /\ call.op \in {"mkdir", "file"})
    <3>1. Shown'[ROOT_CLUSTER_NUMBER][0] = Shown[ROOT_CLUSTER_NUMBER][0]
      BY <1>1, <2>2, <2>4, FirstSlotKept DEF StoreInv
    <3>2. QED
      BY <2>2, <3>1 DEF Formatted
  <2>5. QED
    BY <2>3, <2>4
<1>4. QED
  BY <1>2, <1>3

\* The invariant of the refinement.
LEMMA StoreInvInit == Init => StoreInv
BY TreeInit DEF StoreInv, RootInv, Placed, NoCall, HasRoot, Init

\* Every step keeps the tree sound and the root's own entry in place.
LEMMA StoreInvNext == StoreInv /\ Benign /\ [Next]_vars => StoreInv'
<1> SUFFICES ASSUME StoreInv, Benign, [Next]_vars PROVE StoreInv'
  OBVIOUS
<1>1. TreeInv' /\ Placed'
  BY TreeNext, PlacedNext DEF StoreInv
<1>2. CASE Next
  BY <1>1, <1>2, RootNext DEF StoreInv
<1>3. CASE UNCHANGED vars
  BY <1>1, <1>3 DEF vars, StoreInv, RootInv, HasRoot, Formatted, Shown
<1>4. QED
  BY <1>2, <1>3

(***************************************************************************)
(* The steps of the driver that are no steps of the store.                 *)
(***************************************************************************)

\* A disk that is not formatted is a root without items.
LEMMA FreshIs ==
    /\ FreshTree = [h \in {ROOT_CLUSTER_NUMBER} |->
                      Store!NewDirectory(RootName, ROOT_CLUSTER_NUMBER)]
    /\ FreshTree' = FreshTree
<1>1. FreshTree = [d \in {ROOT_CLUSTER_NUMBER} |->
                      RowIn(diskFat, data, NewTable(RootName, ROOT_CLUSTER_NUMBER))]
  BY DEF FreshTree, ItemOf, BlockAt, RowIn, ItemIn, ContentIn, BlockIn
<1>2. FreshTree' = [d \in {ROOT_CLUSTER_NUMBER} |->
                      RowIn(diskFat', data', NewTable(RootName, ROOT_CLUSTER_NUMBER))]
  BY DEF FreshTree, ItemOf, BlockAt, RowIn, ItemIn, ContentIn, BlockIn
<1>3. QED
  BY <1>1, <1>2, NewRow

\* The store's tree stays where the driver's does.
LEMMA DirsKept ==
    ASSUME TreeInv, FreshInv', Unmoved
    PROVE  Dirs' = Dirs
<1>1. /\ diskFat \in [Cell -> FatValue] /\ diskFat' \in [Cell -> FatValue]
      /\ Shown \in [Cluster -> Table] /\ Tree(diskFat, Shown, data)
  BY TreeTypes DEF TreeInv, FreshInv, SavedInv, TypeInv, TypeOK
<1>2. Shown' \in [Cluster -> Table]
  <2>1. table' \in [Cluster -> Table] /\ call' \in Calls
    BY DEF FreshInv, SavedInv, TypeInv, TypeOK
  <2>2. call'.parent \in Table
    BY <2>1 DEF Calls
  <2>3. QED
    BY <2>1, <2>2 DEF Shown
<1>3. /\ AllStay(diskFat, Shown, data, diskFat', Shown', data')
      /\ \A d \in Directories(Shown) : Shown'[d] = Shown[d]
  BY DEF Unmoved
<1>4. TreeOnDisk' = TreeOnDisk
  BY <1>1, <1>2, <1>3, RowsKept, DirsAre
<1>5. Formatted' = Formatted
  BY <1>1, <1>3, DirectoriesAre DEF Formatted
<1>6. QED
  BY <1>4, <1>5, FreshIs DEF Dirs

\* The format makes the root that the store had from the start.
LEMMA DirsFormat ==
    ASSUME StoreInv, StoreInv', FormatRoot
    PROVE  Dirs' = Dirs
<1> DEFINE u == table'
           r == NewTable(RootName, ROOT_CLUSTER_NUMBER)
<1>1. /\ ~Formatted /\ table = [c \in Cluster |-> EmptyTable] /\ Formatted'
      /\ Shown' = u
  BY HasRootFirst, WhenIdle DEF FormatRoot, HasRoot, StoreInv, RootInv, TreeInv, FormatOrder, Shown
<1>2. u = [c \in Cluster |-> IF c = ROOT_CLUSTER_NUMBER THEN r ELSE EmptyTable]
  BY <1>1, Ranges DEF FormatRoot
<1>3. u \in [Cluster -> Table]
  BY DEF StoreInv, TreeInv, FreshInv, SavedInv, TypeInv, TypeOK
<1>4. /\ ROOT_CLUSTER_NUMBER \in Cluster
      /\ \A s \in Slot : r[s].attribute = "dir" => r[s].cluster = ROOT_CLUSTER_NUMBER
  BY Ranges DEF NewTable, EmptyTable, FreeEntry
<1> HIDE DEF r
<1>5. Closed(u, {ROOT_CLUSTER_NUMBER})
  BY <1>2, <1>4 DEF Closed
<1> HIDE DEF u
<1>6. Directories(u) = {ROOT_CLUSTER_NUMBER}
  BY <1>3, <1>4, <1>5, DirectoriesAre
<1>7. TreeOnDisk' = [d \in {ROOT_CLUSTER_NUMBER} |-> RowIn(diskFat', data', r)]
  BY <1>1, <1>2, <1>4, <1>6, DirsAre DEF Rows
<1>8. RowIn(diskFat', data', r) = Store!NewDirectory(RootName, ROOT_CLUSTER_NUMBER)
  BY NewRow DEF r
<1>9. QED
  BY <1>1, <1>7, <1>8, FreshIs DEF Dirs

(***************************************************************************)
(* The steps that change an entry.                                         *)
(***************************************************************************)

\* A row of items, and rows for the directories of D.
IsRow(N) == N = [z \in Slot |-> N[z]]
IsRows(r, D) == r = [y \in D |-> [z \in Slot |-> r[y][z]]]

\* Rows with one item replaced, and rows with one row more.
Replaced(r, G, d, s, i) == r = [G EXCEPT ![d][s] = i]
Grown(r, G, D, c, N)    == r = [y \in D \cup {c} |-> IF y = c THEN N ELSE G[y]]

\* They are rows too.
LEMMA RowsReplaced ==
    ASSUME NEW G, NEW D, IsRows(G, D), NEW d \in D, NEW s \in Slot, NEW i,
           NEW r, Replaced(r, G, d, s, i)
    PROVE  /\ IsRows(r, D)
           /\ \A y \in D, z \in Slot : r[y][z] = IF y = d /\ z = s THEN i ELSE G[y][z]
<1>1. DOMAIN G = D /\ \A y \in D : DOMAIN G[y] = Slot
  BY DEF IsRows
<1>2. r = [y \in D |-> IF y = d THEN [G[d] EXCEPT ![s] = i] ELSE G[y]]
  BY <1>1 DEF Replaced
<1>3. [G[d] EXCEPT ![s] = i] = [z \in Slot |-> IF z = s THEN i ELSE G[d][z]]
  BY <1>1
<1>4. \A y \in D : G[y] = [z \in Slot |-> G[y][z]]
  BY DEF IsRows
<1>5. \A y \in D, z \in Slot : r[y][z] = IF y = d /\ z = s THEN i ELSE G[y][z]
  BY <1>2, <1>3
<1>6. \A y \in D : r[y] = [z \in Slot |-> r[y][z]]
  <2> TAKE y \in D
  <2>1. CASE y = d
    BY <2>1, <1>2, <1>3
  <2>2. CASE y # d
    BY <2>2, <1>2, <1>4
  <2>3. QED
    BY <2>1, <2>2
<1>7. r = [y \in D |-> r[y]]
  BY <1>2
<1>8. QED
  BY <1>5, <1>6, <1>7 DEF IsRows

\* A new row leaves the others as they are.
LEMMA RowsGrown ==
    ASSUME NEW G, NEW D, IsRows(G, D), NEW c, c \notin D, NEW N, IsRow(N),
           NEW r, Grown(r, G, D, c, N)
    PROVE  /\ IsRows(r, DOMAIN r) /\ \A y : y \in DOMAIN r <=> y \in D \/ y = c
           /\ \A y \in DOMAIN r, z \in Slot : r[y][z] = IF y = c THEN N[z] ELSE G[y][z]
<1>1. \A y \in D : G[y] = [z \in Slot |-> G[y][z]]
  BY DEF IsRows
<1>2. \A y \in D \cup {c} : r[y] = IF y = c THEN N ELSE G[y]
  BY DEF Grown
<1>3. \A y \in D \cup {c} : r[y] = [z \in Slot |-> r[y][z]]
  <2> TAKE y \in D \cup {c}
  <2>1. CASE y = c
    BY <2>1, <1>2 DEF IsRow
  <2>2. CASE y # c
    BY <2>2, <1>1, <1>2
  <2>3. QED
    BY <2>1, <2>2
<1>4. r = [y \in DOMAIN r |-> r[y]] /\ DOMAIN r = D \cup {c}
  BY DEF Grown
<1>5. QED
  BY <1>2, <1>3, <1>4 DEF IsRows

\* Rows that say what the tables say are the rows of the tables, once pruned.
LEMMA PrunedRows ==
    ASSUME NEW f, NEW h, NEW u \in [Cluster -> Table], NEW D \in SUBSET Cluster,
           ROOT_CLUSTER_NUMBER \in D, Closed(u, D),
           NEW r, IsRows(r, D),
           \A y \in D, z \in Slot :
              /\ r[y][z].kind = u[y][z].attribute
              /\ u[y][z].attribute = "dir" => r[y][z].ref = u[y][z].cluster
              /\ y \in Directories(u) => r[y][z] = ItemIn(f, h, u[y][z])
    PROVE  Store!Prune(r) = Rows(f, u, h, Directories(u))
<1>1. /\ DOMAIN r = D
      /\ \A y \in D, z \in Slot :
            /\ r[y][z].kind = u[y][z].attribute
            /\ u[y][z].attribute = "dir" => r[y][z].ref = u[y][z].cluster
  BY DEF IsRows
<1>2. Store!Prune(r) = [y \in Directories(u) |-> r[y]] /\ Directories(u) \subseteq D
  BY <1>1, Pruned
<1>3. ASSUME NEW y \in Directories(u)
      PROVE  r[y] = RowIn(f, h, u[y])
  <2>1. y \in D /\ r[y] = [z \in Slot |-> r[y][z]]
    BY <1>2 DEF IsRows
  <2>2. \A z \in Slot : r[y][z] = ItemIn(f, h, u[y][z])
    BY <2>1
  <2>3. QED
    BY <2>1, <2>2 DEF RowIn
<1>4. QED
  BY <1>2, <1>3 DEF Rows

\* Items that an entry's write leaves alone.
LEMMA ItemsBut ==
    ASSUME NEW f \in [Cell -> FatValue], NEW t \in [Cluster -> Table], NEW u, NEW b, NEW h,
           Tree(f, t, b), NEW d \in Cluster, NEW s \in Slot, NEW e, u = Put(t, d, s, e),
           \A o \in Owners(u) \ {<<d, s>>} : Stays(f, t, b, f, u, h, o),
           NEW y \in Directories(u), NEW z \in Slot, <<y, z>> # <<d, s>>
    PROVE  ItemIn(f, h, u[y][z]) = ItemIn(f, b, t[y][z])
<1>1. y \in Cluster
  BY DirectoriesType
<1>2. u[y][z] = t[y][z]
  BY <1>1 DEF Put, Table
<1>3. t[y][z].attribute = "file" => Stays(f, t, b, f, u, h, <<y, z>>)
  BY <1>2, FileOwned
<1>4. QED
  BY <1>1, <1>2, <1>3, ItemKept

\* An entry that is not a directory's, written or freed, is that much in the store.
LEMMA RowsPut ==
    ASSUME NEW f \in [Cell -> FatValue], NEW t \in [Cluster -> Table],
           NEW u \in [Cluster -> Table], NEW b, NEW h, Tree(f, t, b),
           NEW d \in Directories(t), NEW s \in Slot, NEW e \in UsedEntry \cup {FreeEntry},
           e.attribute # "dir", u = Put(t, d, s, e),
           \A o \in Owners(u) \ {<<d, s>>} : Stays(f, t, b, f, u, h, o),
           NEW i, i = ItemIn(f, h, e)
    PROVE  Rows(f, u, h, Directories(u)) =
              Store!Prune([Rows(f, t, b, Directories(t)) EXCEPT ![d][s] = i])
<1> DEFINE D == Directories(t)
           T == Rows(f, t, b, D)
           r == [T EXCEPT ![d][s] = i]
<1>1. /\ D \in SUBSET Cluster /\ ROOT_CLUSTER_NUMBER \in D /\ Closed(t, D) /\ d \in Cluster
  BY DirectoriesAre
<1>2. \A y \in Cluster, z \in Slot :
         u[y][z] = IF y = d /\ z = s THEN e ELSE t[y][z]
  BY <1>1 DEF Put, Table
<1>3. T = [y \in D |-> [z \in Slot |-> ItemIn(f, b, t[y][z])]]
  BY DEF Rows, RowIn
<1>4. /\ IsRows(r, D)
      /\ \A y \in D, z \in Slot :
            r[y][z] = IF y = d /\ z = s THEN i ELSE ItemIn(f, b, t[y][z])
  <2>1. IsRows(T, D) /\ \A y \in D, z \in Slot : T[y][z] = ItemIn(f, b, t[y][z])
    BY <1>3 DEF IsRows
  <2>2. Replaced(r, T, d, s, i)
    BY DEF Replaced
  <2> HIDE DEF T, r
  <2>3. QED
    BY <2>1, <2>2, RowsReplaced
<1> HIDE DEF r, T, D
<1>5. Closed(u, D)
  BY <1>1, <1>2 DEF Closed
<1>6. ASSUME NEW y \in D, NEW z \in Slot
      PROVE  /\ r[y][z].kind = u[y][z].attribute
             /\ u[y][z].attribute = "dir" => r[y][z].ref = u[y][z].cluster
             /\ y \in Directories(u) => r[y][z] = ItemIn(f, h, u[y][z])
  <2>1. y \in Cluster /\ r[y][z] = IF y = d /\ z = s THEN i ELSE ItemIn(f, b, t[y][z])
    BY <1>1, <1>4
  <2>2. CASE y = d /\ z = s
    BY <1>2, <2>1, <2>2 DEF ItemIn
  <2>3. CASE ~(y = d /\ z = s)
    <3>1. u[y][z] = t[y][z] /\ r[y][z] = ItemIn(f, b, t[y][z])
      BY <1>2, <2>1, <2>3
    <3>2. /\ r[y][z].kind = u[y][z].attribute
          /\ u[y][z].attribute = "dir" => r[y][z].ref = u[y][z].cluster
      BY <3>1 DEF ItemIn
    <3>3. y \in Directories(u) => r[y][z] = ItemIn(f, h, u[y][z])
      BY <1>1, <2>3, <3>1, ItemsBut
    <3>4. QED
      BY <3>2, <3>3
  <2>4. QED
    BY <2>2, <2>3
<1>8. Store!Prune(r) = Rows(f, u, h, Directories(u))
  BY <1>1, <1>4, <1>5, <1>6, PrunedRows
<1>9. QED
  BY <1>8 DEF r, T, D

\* An entry for a new directory brings the row of that with it.
LEMMA RowsPutFolder ==
    ASSUME NEW f \in [Cell -> FatValue], NEW t \in [Cluster -> Table],
           NEW u \in [Cluster -> Table], NEW b, NEW h, Tree(f, t, b),
           NEW d \in Directories(t), NEW s \in Slot, NEW e \in UsedEntry,
           e.attribute = "dir", u = Put(t, d, s, e), NEW c,
           c = e.cluster, c \in Cluster \ Directories(t), t[c] = NewTable(e.name, c),
           \A o \in Owners(u) \ {<<d, s>>} : Stays(f, t, b, f, u, h, o),
           NEW T, T = Rows(f, t, b, Directories(t)),
           NEW grown, Grown(grown, T, Directories(t), c, Store!NewDirectory(e.name, c))
    PROVE  Rows(f, u, h, Directories(u)) =
              Store!Prune([grown EXCEPT ![d][s] = Store!Folder(e.name, c)])
<1> DEFINE D == Directories(t)
           N == Store!NewDirectory(e.name, c)
           i == Store!Folder(e.name, c)
           r == [grown EXCEPT ![d][s] = i]
<1>1. /\ D \in SUBSET Cluster /\ ROOT_CLUSTER_NUMBER \in D /\ Closed(t, D) /\ d \in Cluster
      /\ d # c
  BY DirectoriesAre
<1>2. \A y \in Cluster, z \in Slot :
         u[y][z] = IF y = d /\ z = s THEN e ELSE t[y][z]
  BY <1>1 DEF Put, Table
<1>3. T = [y \in D |-> [z \in Slot |-> ItemIn(f, b, t[y][z])]]
  BY DEF Rows, RowIn
<1>4. N = RowIn(f, b, t[c]) /\ N = RowIn(f, h, t[c])
  BY NewRow
<1>5. /\ i = ItemIn(f, h, e)
      /\ \A z \in Slot : ItemIn(f, b, t[c][z]) = ItemIn(f, h, t[c][z])
  <2>1. i = ItemIn(f, h, e)
    BY ItemTypes
  <2>2. RowIn(f, b, t[c]) = RowIn(f, h, t[c])
    BY <1>4
  <2>3. QED
    BY <2>1, <2>2 DEF RowIn
<1>6. N = [z \in Slot |-> ItemIn(f, b, t[c][z])]
  BY <1>4 DEF RowIn
<1> HIDE DEF N, i, D
<1>7. /\ IsRows(grown, D \cup {c})
      /\ \A y \in D \cup {c}, z \in Slot : grown[y][z] = ItemIn(f, b, t[y][z])
  <2>1. IsRows(T, D) /\ \A y \in D, z \in Slot : T[y][z] = ItemIn(f, b, t[y][z])
    BY <1>3 DEF IsRows
  <2>2. IsRow(N) /\ \A z \in Slot : N[z] = ItemIn(f, b, t[c][z])
    BY <1>6 DEF IsRow
  <2>3. Grown(grown, T, D, c, N) /\ c \notin D
    BY DEF D, N
  <2>4. /\ IsRows(grown, DOMAIN grown) /\ \A y : y \in DOMAIN grown <=> y \in D \/ y = c
        /\ \A y \in DOMAIN grown, z \in Slot :
              grown[y][z] = IF y = c THEN N[z] ELSE T[y][z]
    BY <2>1, <2>2, <2>3, RowsGrown
  <2>5. DOMAIN grown = D \cup {c}
    BY <2>4
  <2>6. QED
    BY <2>1, <2>2, <2>4, <2>5
<1>8. /\ IsRows(r, D \cup {c})
      /\ \A y \in D \cup {c}, z \in Slot :
            r[y][z] = IF y = d /\ z = s THEN i ELSE ItemIn(f, b, t[y][z])
  <2>1. d \in D \cup {c} /\ Replaced(r, grown, d, s, i)
    BY DEF D, Replaced
  <2> HIDE DEF r
  <2>2. QED
    BY <1>7, <2>1, RowsReplaced
<1> HIDE DEF r
<1>9. Closed(u, D \cup {c})
  <2>1. \A z \in Slot : t[c][z].attribute = "dir" => t[c][z].cluster = c
    BY DEF NewTable, EmptyTable, FreeEntry
  <2>2. QED
    BY <1>1, <1>2, <2>1 DEF Closed
<1>10. ASSUME NEW y \in D \cup {c}, NEW z \in Slot
       PROVE  /\ r[y][z].kind = u[y][z].attribute
              /\ u[y][z].attribute = "dir" => r[y][z].ref = u[y][z].cluster
              /\ y \in Directories(u) => r[y][z] = ItemIn(f, h, u[y][z])
  <2>1. y \in Cluster /\ r[y][z] = IF y = d /\ z = s THEN i ELSE ItemIn(f, b, t[y][z])
    BY <1>1, <1>8
  <2>2. CASE y = d /\ z = s
    BY <1>2, <1>5, <2>1, <2>2 DEF ItemIn
  <2>3. CASE ~(y = d /\ z = s)
    <3>1. u[y][z] = t[y][z] /\ r[y][z] = ItemIn(f, b, t[y][z])
      BY <1>2, <2>1, <2>3
    <3>2. /\ r[y][z].kind = u[y][z].attribute
          /\ u[y][z].attribute = "dir" => r[y][z].ref = u[y][z].cluster
      BY <3>1 DEF ItemIn
    <3>3. ASSUME y \in Directories(u)
          PROVE  ItemIn(f, h, u[y][z]) = ItemIn(f, b, t[y][z])
      <4>1. <<y, z>> # <<d, s>>
        BY <2>3
      <4>2. QED
        BY <1>1, <3>3, <4>1, ItemsBut
    <3>4. QED
      BY <3>1, <3>2, <3>3
  <2>4. QED
    BY <2>2, <2>3
<1>11. D \cup {c} \in SUBSET Cluster /\ ROOT_CLUSTER_NUMBER \in D \cup {c}
  BY <1>1
<1>12. Store!Prune(r) = Rows(f, u, h, Directories(u))
  BY <1>8, <1>9, <1>10, <1>11, PrunedRows
<1>13. QED
  BY <1>12 DEF r, i

(***************************************************************************)
(* The disk as the store's tree.                                           *)
(***************************************************************************)

\* Once a machine is on and has a formatted disk, its tree is the store's.
LEMMA WhenReady ==
    /\ StoreInv /\ pc \notin {"off", "format_fat", "format_root"} =>
          Formatted /\ Dirs = Rows(diskFat, Shown, data, Directories(Shown))
    /\ StoreInv' /\ pc' \notin {"off", "format_fat", "format_root"} =>
          Formatted' /\ Dirs' = Rows(diskFat', Shown', data', Directories(Shown'))
BY DirsAre DEF StoreInv, RootInv, HasRoot, TreeInv, FormatOrder, Dirs

\* What FileStore has for a slot of a directory.
LEMMA ItemOnDisk ==
    ASSUME StoreInv, Dirs = Rows(diskFat, Shown, data, Directories(Shown)),
           NEW d \in Directories(Shown), NEW s \in Slot
    PROVE  /\ DOMAIN Dirs = Directories(Shown) /\ DOMAIN Dirs[d] = Slot
           /\ Shown[d][s] \in UsedEntry \cup {FreeEntry}
           /\ Dirs[d][s] = ItemIn(diskFat, data, Shown[d][s])
           /\ Dirs[d][s].name = Shown[d][s].name /\ Dirs[d][s].kind = Shown[d][s].attribute
           /\ Shown[d][s].attribute = "dir" => Dirs[d][s].ref = Shown[d][s].cluster
           /\ Dirs[d][s] = Store!None <=> ~Used(Shown[d][s])
<1>1. Shown \in [Cluster -> Table] /\ d \in Cluster
  BY TreeTypes, DirectoriesType DEF StoreInv, TreeInv
<1>2. Shown[d][s] \in UsedEntry \cup {FreeEntry}
  BY <1>1 DEF Table
<1>3. /\ DOMAIN Dirs = Directories(Shown) /\ DOMAIN Dirs[d] = Slot
      /\ Dirs[d][s] = ItemIn(diskFat, data, Shown[d][s])
  BY DEF Rows, RowIn
<1> DEFINE e == Shown[d][s]
           i == Dirs[d][s]
<1>4. e \in UsedEntry \cup {FreeEntry} /\ i = ItemIn(diskFat, data, e)
  BY <1>2, <1>3
<1> HIDE DEF e, i
<1>5. i = Store!None <=> ~Used(e)
  BY <1>4, ItemTypes
<1>6. /\ i.name = e.name /\ i.kind = e.attribute
      /\ e.attribute = "dir" => i.ref = e.cluster
  BY <1>4 DEF ItemIn
<1>7. QED
  BY <1>2, <1>3, <1>5, <1>6 DEF e, i

\* The slot that a write takes is the one that the store takes.
LEMMA TakenSlot ==
    ASSUME StoreInv, Dirs = Rows(diskFat, Shown, data, Directories(Shown)),
           NEW d \in Directories(Shown), NEW s \in Slot, TakesSlot(Shown[d], s)
    PROVE  Store!Takes(d, s)
BY ItemOnDisk, SameSlots DEF TakesSlot, Store!Takes, Store!HasRoom

\* The answer and the flag of FileStore, in the driver's terms.
LEMMA Answers ==
    ASSUME NEW code
    PROVE  Store!Says(code) <=> out' = Answer(code)
BY DEF Store!Says, Answer

(***************************************************************************)
(* The steps of the driver that are steps of the store.                    *)
(***************************************************************************)

\* A step that leaves the tree as it is, and the answer, is none of the store's.
LEMMA QuietStep ==
    ASSUME Dirs' = Dirs, out' = out, call'.op = "delete" <=> call.op = "delete"
    PROVE  UNCHANGED Store!vars
BY DEF Store!vars

\* A call that is refused, and one that begins or is cut off.
LEMMA RefusedStep ==
    ASSUME Dirs' = Dirs, call.op # "delete", call'.op # "delete",
           NEW code \in {-1, 1, 2, 3, Pending}, out' = Answer(code)
    PROVE  Store!DriverNext
<1>1. Store!Says(code)
  BY Answers
<1>2. CASE code = Pending
  BY <1>1, <1>2 DEF Store!Begin, Store!Next, Store!DriverNext
<1>3. CASE code # Pending
  BY <1>1, <1>3 DEF Store!Refuse, Store!Next, Store!DriverNext
<1>4. QED
  BY <1>2, <1>3

\* The last disk write of a delete is its answer.
LEMMA AcknowledgeStep ==
    ASSUME Dirs' = Dirs, call.op = "delete", FlushParent
    PROVE  Store!DriverNext
<1>1. out' = Answer(0) /\ call'.op # "delete"
  BY DEF FlushParent, Return, NoCall
<1>2. Store!Says(0)
  BY <1>1, Answers
<1>3. QED
  BY <1>1, <1>2 DEF Store!Acknowledge, Store!Next, Store!DriverNext

\* A call on a directory of the tree that the interface grants, one that the
\* driver grants nonetheless, and a write, which is one or the other.
LEMMA GrantedStep ==
    ASSUME call.op # "delete", NEW d \in DOMAIN Dirs, NEW n \in Names \cup {RootName},
           Store!Granted(d, n)
    PROVE  Store!DriverNext
BY DEF Store!Next, Store!DriverNext, Store!AnyName

\* The other kind of call.
LEMMA DepartingStep ==
    ASSUME call.op # "delete", NEW d \in DOMAIN Dirs, NEW n \in Names \cup {RootName},
           Store!Departs(d, n)
    PROVE  Store!DriverNext
BY DEF Store!Departure, Store!DriverNext, Store!AnyName

\* A write is granted, or departs: the name exists or there is no room.
LEMMA MakeStep ==
    ASSUME call.op # "delete", NEW d \in DOMAIN Dirs, NEW n \in Names \cup {RootName},
           Store!Make(d, n)
    PROVE  Store!DriverNext
<1>1. Store!Granted(d, n) \/ Store!Departs(d, n)
  BY DEF Store!Granted, Store!Departs
<1>2. QED
  BY <1>1, GrantedStep, DepartingStep

\* The last disk write of a mkdir makes the folder.
LEMMA FolderStep ==
    ASSUME StoreInv, StoreInv', FlushParent, call.op = "mkdir"
    PROVE  Store!DriverNext
<1> DEFINE d == call.dir
           s == call.slot
           e == NewEntry
           c == e.cluster
           D == Directories(table)
           T == Rows(diskFat, table, data, D)
           grown == [x \in DOMAIN Dirs \cup {c} |->
                       IF x = c THEN Store!NewDirectory(e.name, c) ELSE Dirs[x]]
<1>1. /\ pc = "flush_parent" /\ pc' = "idle" /\ out' = Answer(0) /\ call'.op = "none"
      /\ diskFat' = diskFat
  BY DEF FlushParent, Return, NoCall
<1>2. /\ Prepared /\ MakingDirectory /\ Shown = table /\ Tree(diskFat, table, data)
      /\ e.attribute = "dir" /\ c = call.chain[1] /\ table[c] = NewTable(e.name, c)
      /\ TakesSlot(table[d], s)
  BY <1>1, Writing DEF StoreInv, TreeInv, MakingDirectory, Prepared
<1>3. /\ d \in D /\ s \in Slot /\ e \in UsedEntry /\ Shown' = table'
      /\ table' = Put(table, d, s, e) /\ table' \in [Cluster -> Table]
      /\ \A o \in Owners(table') \ {<<d, s>>} :
            Stays(diskFat, table, data, diskFat, table', data', o)
      /\ c \in Cluster \ D
  BY <1>2, Committed DEF StoreInv, Placed
<1>4. /\ diskFat \in [Cell -> FatValue] /\ table \in [Cluster -> Table]
      /\ e.name \in Names \cup {RootName}
  BY <1>3, TreeTypes DEF StoreInv, TreeInv, UsedEntry
<1>5. /\ Dirs = T /\ DOMAIN Dirs = D
      /\ Dirs' = Rows(diskFat, table', data', Directories(table'))
  BY <1>1, <1>2, <1>3, WhenReady DEF Rows
<1>6. Store!Takes(d, s)
  BY <1>2, <1>3, <1>5, TakenSlot
<1>7. Grown(grown, T, D, c, Store!NewDirectory(e.name, c))
  BY <1>5 DEF Grown
<1> HIDE DEF d, s, e, c, D, T, grown
<1>8. c = e.cluster
  BY DEF c
<1>9. Dirs' = Store!Prune([grown EXCEPT ![d][s] = Store!Folder(e.name, c)])
  <2>1. T = Rows(diskFat, table, data, Directories(table)) /\ D = Directories(table)
    BY DEF T, D
  <2>2. QED
    BY <1>2, <1>3, <1>4, <1>5, <1>7, <1>8, <2>1, RowsPutFolder
<1>10. Store!Says(0)
  BY <1>1, Answers
<1>11. Store!MakeFolder(d, e.name)
  <2>1. c \in Cluster \ DOMAIN Dirs /\ s \in Store!Slot
    BY <1>3, <1>5, SameSlots
  <2>2. QED
    BY <1>1, <1>6, <1>9, <1>10, <2>1 DEF Store!MakeFolder, grown
<1>12. QED
  BY <1>1, <1>2, <1>3, <1>4, <1>5, <1>11, MakeStep DEF Store!Make

\* That of a write makes the file with the content the call was given.
LEMMA FileStep ==
    ASSUME StoreInv, StoreInv', FlushParent, call.op = "file"
    PROVE  Store!DriverNext
<1> DEFINE d == call.dir
           s == call.slot
           e == NewEntry
           q == call.chain
           n == e.name
           k == Len(q)
           p == call.payload[1]
           D == Directories(table)
           i == Store!File(n, p, k)
           x == <<d, s>>
<1>1. /\ pc = "flush_parent" /\ pc' = "idle" /\ out' = Answer(0) /\ call'.op = "none"
      /\ diskFat' = diskFat /\ data' = [data EXCEPT ![d] = NoBlock]
  BY DEF FlushParent, PutTable, Return, NoCall
<1>2. /\ Prepared /\ MakingFile /\ Shown = table /\ Tree(diskFat, table, data)
      /\ TakesSlot(table[d], s)
  BY <1>1, Writing DEF StoreInv, TreeInv, Prepared
<1>3. /\ d \in D /\ s \in Slot /\ e \in UsedEntry /\ Shown' = table'
      /\ table' = Put(table, d, s, e) /\ table' \in [Cluster -> Table]
      /\ \A o \in Owners(table') \ {x} :
            Stays(diskFat, table, data, diskFat, table', data', o)
      /\ ItsEntry(table', x) = e /\ ItsChain(diskFat, table', x) = q
      /\ IsChain(diskFat, q)
      /\ \A o \in Owners(table) : Apart(q, ItsChain(diskFat, table, o))
      /\ NoRoot(q)
  BY <1>2, Committed DEF StoreInv, Placed, Prepared, Spare
<1>4. /\ diskFat \in [Cell -> FatValue] /\ table \in [Cluster -> Table]
      /\ data \in [Cluster -> Block] /\ n \in Names \cup {RootName}
  BY <1>3, TreeTypes DEF StoreInv, TreeInv, UsedEntry
<1>5. /\ e.attribute = "file" /\ k \in Lengths /\ p \in Payloads
      /\ \A j \in DOMAIN q : data[q[j]] = <<p, j>>
  BY <1>1, <1>2 DEF MakingFile
<1>6. /\ Dirs = Rows(diskFat, table, data, D) /\ DOMAIN Dirs = D
      /\ Dirs' = Rows(diskFat, table', data', Directories(table'))
  BY <1>1, <1>2, <1>3, WhenReady DEF Rows
<1>7. Store!Takes(d, s)
  BY <1>2, <1>3, <1>6, TakenSlot
<1> HIDE DEF d, s, e, q, n, k, p, D, x
<1>8. i = ItemIn(diskFat, data', e)
  <2>1. \A j \in DOMAIN q : q[j] \notin D /\ q[j] \in Cluster
    BY <1>2, <1>3, <1>4, NotLinked, ChainCells DEF D
  <2>2. \A j \in DOMAIN q : BlockIn(data', q[j]) = <<p, j>>
    BY <1>1, <1>3, <1>4, <1>5, <2>1 DEF BlockIn
  <2>3. DOMAIN q = 1 .. k
    BY <1>3, ChainCells DEF k
  <2>4. ContentIn(data', q) = [j \in 1 .. k |-> <<p, j>>]
    BY <2>2, <2>3 DEF ContentIn, k
  <2>5. Chain(diskFat, e.cluster, FAT32_FAT_EMPTY_ENTRY) = q
    BY <1>3 DEF ItsChain
  <2>6. e.name = n
    BY DEF n
  <2>7. QED
    BY <1>5, <2>4, <2>5, <2>6 DEF ItemIn, Store!File
<1>9. Dirs' = Store!Prune([Dirs EXCEPT ![d][s] = i])
  <2>1. D = Directories(table) /\ x = <<d, s>>
    BY DEF D, x
  <2> HIDE DEF i
  <2>2. e \in UsedEntry \cup {FreeEntry} /\ e.attribute # "dir"
    BY <1>3, <1>5
  <2>3. Rows(diskFat, table', data', Directories(table')) =
           Store!Prune([Rows(diskFat, table, data, Directories(table)) EXCEPT ![d][s] = i])
    BY <1>2, <1>3, <1>4, <1>8, <2>1, <2>2, RowsPut
  <2>4. QED
    BY <1>6, <2>1, <2>3
<1>10. Store!Says(0)
  BY <1>1, Answers
<1>11. Store!MakeFile(d, n, k, p)
  <2>1. s \in Store!Slot
    BY <1>3, SameSlots
  <2>2. QED
    BY <1>1, <1>2, <1>7, <1>9, <1>10, <2>1 DEF Store!MakeFile
<1>12. QED
  BY <1>2, <1>3, <1>4, <1>5, <1>6, <1>11, MakeStep DEF Store!Make

\* A delete that is entered has taken effect.
LEMMA RemoveStep ==
    ASSUME StoreInv, StoreInv', pc = "idle",
           NEW d \in Directories(table), NEW n \in Names, NEW s \in Slot \ {0},
           NEW stray, NEW next \in {"erase_dir", "erase"},
           FirstMatch(table[d], n, s), Remove(d, s, stray, next),
           \/ table[d][s].attribute = "dir" /\ Vacant(table[table[d][s].cluster])
           \/ table[d][s].attribute = "file"
    PROVE  Store!DriverNext
<1> DEFINE D == Directories(table)
           i == Store!None
<1>1. /\ Shown = table /\ Shown' = Put(table, d, s, FreeEntry)
      /\ AllStay(diskFat, table, data, diskFat, Shown', data)
      /\ UNCHANGED disk /\ call'.op = "delete" /\ s \in Slot
  BY Removed DEF StoreInv
<1>2. pc' = next /\ out' = Answer(Pending) /\ call.op # "delete"
  BY WhenIdle DEF Remove, Enter, StoreInv
<1>3. /\ diskFat \in [Cell -> FatValue] /\ table \in [Cluster -> Table] /\ d \in Cluster
      /\ Tree(diskFat, table, data)
  BY <1>1, TreeTypes, DirectoriesType DEF StoreInv, TreeInv
<1>4. /\ Dirs = Rows(diskFat, table, data, D)
      /\ Dirs' = Rows(diskFat, Shown', data, Directories(Shown'))
  BY <1>1, <1>2, WhenReady DEF disk
<1>5. \A x \in D, z \in Slot :
         /\ DOMAIN Dirs = D
         /\ Dirs[x][z].name = table[x][z].name /\ Dirs[x][z].kind = table[x][z].attribute
         /\ table[x][z].attribute = "dir" => Dirs[x][z].ref = table[x][z].cluster
         /\ Dirs[x][z] = Store!None <=> ~Used(table[x][z])
  BY <1>1, <1>4, ItemOnDisk
<1>6. Dirs' = Store!Prune([Dirs EXCEPT ![d][s] = i])
  <2>1. Shown' \in [Cluster -> Table]
    BY <1>1, <1>3, OwnersRemoved
  <2>2. i = ItemIn(diskFat, data, FreeEntry)
    BY DEF ItemIn, FreeEntry, Store!None
  <2>3. FreeEntry \in UsedEntry \cup {FreeEntry} /\ FreeEntry.attribute # "dir"
    BY DEF FreeEntry
  <2>4. \A o \in Owners(Shown') \ {<<d, s>>} :
           Stays(diskFat, table, data, diskFat, Shown', data, o)
    BY <1>1 DEF AllStay
  <2>5. PICK u : u = Shown'
    OBVIOUS
  <2> HIDE DEF i
  <2>6. Rows(diskFat, u, data, Directories(u)) =
           Store!Prune([Rows(diskFat, table, data, Directories(table)) EXCEPT ![d][s] = i])
    BY <1>1, <1>3, <2>1, <2>2, <2>3, <2>4, <2>5, RowsPut
  <2>7. QED
    BY <1>4, <2>5, <2>6
<1>7. Store!FirstNamed(d, n, s)
  BY <1>5, SameSlots DEF FirstMatch, Matches, Store!FirstNamed
<1>8. Dirs[d][s].kind = "dir" => \A r \in Store!Slot \ {0} : Dirs[Dirs[d][s].ref][r] = Store!None
  <2> SUFFICES ASSUME Dirs[d][s].kind = "dir", NEW r \in Slot \ {0}
               PROVE  Dirs[Dirs[d][s].ref][r] = Store!None
    BY SameSlots
  <2>1. table[d][s].attribute = "dir" /\ Dirs[d][s].ref = table[d][s].cluster
    BY <1>1, <1>5
  <2>2. table[d][s].cluster \in D
    BY <1>1, <1>3, <2>1, DirectoriesAre DEF Closed
  <2>3. ~Used(table[table[d][s].cluster][r])
    BY <2>1 DEF Vacant
  <2>4. QED
    BY <1>5, <2>1, <2>2, <2>3
<1>9. Store!Says(Pending)
  BY <1>2, Answers
<1>10. Store!Remove(d, n)
  <2>1. s \in Store!Slot
    BY SameSlots
  <2>2. QED
    BY <1>1, <1>6, <1>7, <1>8, <1>9, <2>1 DEF Store!Remove
<1>11. d \in DOMAIN Dirs
  BY <1>1, <1>5
<1>12. QED
  BY <1>2, <1>10, <1>11, GrantedStep DEF Store!Granted

(***************************************************************************)
(* Requests.                                                               *)
(***************************************************************************)

\* What is known when a call is made, and that it leaves the store's tree as it is
\* unless it enters a delete.
LEMMA WhenCalled ==
    ASSUME StoreInv, StoreInv', Benign, Next, pc = "idle"
    PROVE  /\ Shown = table /\ call.op = "none" /\ call.op # "delete"
           /\ Dirs = Rows(diskFat, table, data, Directories(table))
           /\ Tree(diskFat, table, data)
           /\ call'.op # "delete" => Dirs' = Dirs
<1>1. /\ Shown = table /\ call.op = "none" /\ Tree(diskFat, table, data)
  BY WhenIdle DEF StoreInv
<1>2. Dirs = Rows(diskFat, table, data, Directories(table))
  BY <1>1, WhenReady
<1>3. ASSUME call'.op # "delete"
      PROVE  Dirs' = Dirs
  <2>1. ~FormatRoot /\ ~FlushParent
    BY DEF FormatRoot, FlushParent
  <2>2. Unmoved
    BY <1>3, <2>1, TreeStays DEF StoreInv
  <2>3. QED
    BY <2>2, DirsKept DEF StoreInv, TreeInv
<1>4. QED
  BY <1>1, <1>2, <1>3

\* read_directory() is refused or lists the folder that the store lists.
LEMMA ListStep ==
    ASSUME StoreInv, StoreInv', Benign, Next,
           NEW d \in Directories(table), NEW n \in Names \cup {NoName, RootName},
           NEW size, ReadDirectory(d, n, size)
    PROVE  Store!DriverNext
<1>1. /\ pc = "idle" /\ Shown = table /\ call.op = "none"
      /\ Dirs = Rows(diskFat, table, data, Directories(table))
      /\ call'.op # "delete" => Dirs' = Dirs
  BY WhenCalled DEF ReadDirectory
<1>2. ASSUME NEW code \in {-1, 1, 2}, Reply(Answer(code))
      PROVE  Store!DriverNext
  BY <1>1, <1>2, RefusedStep DEF Reply
<1>3. ASSUME n # NoName, NEW s \in Slot, FirstFolder(table[d], n, s),
             Reply([Answer(0) EXCEPT !.listed = table[d][s].cluster])
      PROVE  Store!DriverNext
  <2>1. \A z \in Slot :
           /\ DOMAIN Dirs = Directories(table)
           /\ Dirs[d][z].name = table[d][z].name /\ Dirs[d][z].kind = table[d][z].attribute
           /\ table[d][z].attribute = "dir" => Dirs[d][z].ref = table[d][z].cluster
    BY <1>1, ItemOnDisk
  <2>2. Store!FirstFolder(d, n, s) /\ table[d][s].attribute = "dir" /\ s \in Store!Slot
    BY <1>3, <2>1, SameSlots DEF FirstFolder, Folders, Store!FirstFolder
  <2>3. out' = [code |-> 0, blocks |-> <<>>, listed |-> Dirs[d][s].ref] /\ call' = call
    BY <1>3, <2>1, <2>2 DEF Reply, Answer
  <2>4. Store!List(d, n)
    BY <1>1, <2>2, <2>3 DEF Store!List
  <2>5. d \in DOMAIN Dirs /\ n \in Names \cup {RootName}
    BY <1>3, <2>1, Ranges
  <2>6. QED
    BY <1>1, <2>4, <2>5, GrantedStep DEF Store!Granted
<1>4. QED
  BY <1>2, <1>3 DEF ReadDirectory

\* read() is refused or returns what the store has for that name.
LEMMA ReadStep ==
    ASSUME StoreInv, StoreInv', Benign, Next,
           NEW d \in Directories(table), NEW n \in Names \cup {NoName},
           NEW size \in {0} \cup Lengths, Read(d, n, size)
    PROVE  Store!DriverNext
<1>1. /\ pc = "idle" /\ Shown = table /\ call.op = "none"
      /\ Dirs = Rows(diskFat, table, data, Directories(table))
      /\ Tree(diskFat, table, data)
      /\ call'.op # "delete" => Dirs' = Dirs
  BY WhenCalled DEF Read
<1>2. ASSUME NEW code \in {-1, 1, 3}, Reply(Answer(code))
      PROVE  Store!DriverNext
  BY <1>1, <1>2, RefusedStep DEF Reply
<1>3. ASSUME n # NoName, size # 0, NEW s \in Slot, FirstMatch(table[d], n, s),
             ReadChain(table[d][s].cluster, size)
      PROVE  Store!DriverNext
  <2> DEFINE e == table[d][s]
             o == <<d, s>>
             q == ItsChain(diskFat, table, o)
             i == Dirs[d][s]
             answered == [code |-> 0, listed |-> 0, blocks |->
                            [k \in 1 .. size |-> IF k <= Len(q) THEN BlockAt(q[k]) ELSE NoBlock]]
  <2>1. /\ diskFat \in [Cell -> FatValue] /\ fat \in [Cell -> FatValue]
        /\ table \in [Cluster -> Table] /\ d \in Cluster
        /\ size \in Lengths /\ size \in Nat \ {0}
    BY <1>3, TreeTypes, DirectoriesType, LengthsAssumption DEF StoreInv, TreeInv
  <2>2. \A z \in Slot :
           /\ DOMAIN Dirs = Directories(table)
           /\ Dirs[d][z] = ItemIn(diskFat, data, table[d][z])
           /\ Dirs[d][z].name = table[d][z].name /\ Dirs[d][z].kind = table[d][z].attribute
           /\ table[d][z] \in UsedEntry \cup {FreeEntry}
    BY <1>1, ItemOnDisk
  <2>3. s # 0 /\ e.name = n /\ Used(e) /\ e.attribute \in {"dir", "file"}
    BY <1>3, <2>2 DEF FirstMatch, Matches, FreeEntry, UsedEntry, Used
  <2>4. o \in Owners(table) /\ ItsEntry(table, o) = e
    <3>1. o \in Directories(table) \X Slot /\ ItsEntry(table, o) = e
      BY DEF ItsEntry
    <3>2. ~IsSelfEntry(table, o[1], o[2])
      BY <2>3 DEF IsSelfEntry
    <3>3. QED
      BY <2>3, <3>1, <3>2, OwnerIs
  <2>5. /\ IsChain(diskFat, q) /\ q[1] = e.cluster /\ HasContent(diskFat, table, data, o)
    BY <1>1, <2>4 DEF Tree, HasChain
  <2>6. IsChain(fat, q)
    <3>1. \A k \in DOMAIN q : fat[q[k]] = diskFat[q[k]]
      BY <1>1, <2>4 DEF StoreInv, TreeInv, Remembered
    <3>2. QED
      BY <2>5, <3>1, ChainMoves
  <2>7. /\ DOMAIN q = 1 .. Len(q) /\ Len(q) \in Nat \ {0}
        /\ \A k \in DOMAIN q : q[k] \in Cluster
    BY <2>5, ChainCells, ChainLength
  <2>8. Chain(diskFat, e.cluster, FAT32_FAT_EMPTY_ENTRY) = q
    BY <2>4 DEF ItsChain
  <2>9. Store!FirstNamed(d, n, s) /\ s \in Store!Slot
    BY <1>3, <2>2, SameSlots DEF FirstMatch, Matches, Store!FirstNamed
  <2>10. i = ItemIn(diskFat, data, e) /\ i.kind = e.attribute
    BY <2>2
  <2>11. d \in DOMAIN Dirs /\ n \in Names \cup {RootName}
    BY <1>3, <2>2, Ranges
  <2> HIDE DEF e, q, o, i
  <2>12. PICK stray \in StrayWords :
            \/ Reply(IF Len(q) > size THEN Answer(2) ELSE answered)
            \/ /\ ~Ends(fat, q, stray)
               /\ pc' = "lost" /\ out' = Answer(Pending)
               /\ UNCHANGED <<disk, fat, call>>
    <3>1. PICK stray \in StrayWords :
             LET r == Chain(fat, q[1], stray) IN
             \/ Reply(IF Len(r) > size THEN Answer(2)
                      ELSE [Answer(0) EXCEPT !.blocks =
                            [k \in 1 .. size |-> IF k <= Len(r) THEN BlockAt(r[k]) ELSE NoBlock]])
             \/ /\ ~Ends(fat, r, stray)
                /\ pc' = "lost" /\ out' = Answer(Pending)
                /\ UNCHANGED <<disk, fat, call>>
      BY <1>3, <2>5 DEF ReadChain, e
    <3>2. stray \in FatValue
      BY Ranges
    <3>3. Chain(fat, q[1], stray) = q
      BY <2>1, <2>6, <3>2, ChainIs
    <3>4. \A b : [Answer(0) EXCEPT !.blocks = b] = [code |-> 0, listed |-> 0, blocks |-> b]
      BY DEF Answer
    <3>5. QED
      BY <3>1, <3>3, <3>4
  <2>13. Ends(fat, q, stray)
    <3>1. stray \in FatValue
      BY Ranges
    <3>2. QED
      BY <2>1, <2>6, <3>1, ChainIs
  <2>14. out' = (IF Len(q) > size THEN Answer(2) ELSE answered) /\ call' = call
    BY <2>12, <2>13 DEF Reply
  <2>15. CASE e.attribute = "file"
    <3> DEFINE content == ContentIn(data, q)
    <3>1. i.content = content
      BY <2>8, <2>10, <2>15 DEF ItemIn
    <3>2. Len(content) = Len(q) /\ \A k \in 1 .. Len(q) : content[k] = BlockAt(q[k])
      BY <2>7 DEF ContentIn, BlockIn, BlockAt
    <3> HIDE DEF content
    <3>3. answered = [code |-> 0, listed |-> 0, blocks |->
                        [k \in 1 .. size |-> IF k <= Len(content) THEN content[k] ELSE <<>>]]
      <4>1. \A k \in 1 .. size :
               (IF k <= Len(q) THEN BlockAt(q[k]) ELSE NoBlock) =
               (IF k <= Len(content) THEN content[k] ELSE <<>>)
        BY <2>1, <2>7, <3>2 DEF NoBlock
      <4>2. QED
        BY <4>1
    <3>4. Store!ReadFile(d, n, size)
      <4>1. CASE Len(q) > size
        <5>1. Store!Says(2)
          BY <2>14, <4>1, Answers
        <5>2. QED
          BY <1>1, <2>9, <2>10, <2>14, <2>15, <3>1, <3>2, <4>1, <5>1 DEF Store!ReadFile, i
      <4>2. CASE ~(Len(q) > size)
        <5>1. out' = answered
          BY <2>14, <4>2
        <5>2. QED
          BY <1>1, <2>9, <2>10, <2>14, <2>15, <3>1, <3>2, <3>3, <4>2, <5>1
             DEF Store!ReadFile, i
      <4>3. QED
        BY <4>1, <4>2
    <3>5. QED
      BY <1>1, <2>1, <2>11, <3>4, GrantedStep DEF Store!Granted
  <2>16. CASE e.attribute = "dir"
    <3>1. Len(q) = 1 /\ data[q[1]] = NoBlock
      BY <2>4, <2>5, <2>16 DEF HasContent, q
    <3>2. BlockAt(q[1]) = NoBlock
      BY <2>7, <3>1 DEF BlockAt
    <3>3. answered = [code |-> 0, listed |-> 0, blocks |-> [k \in 1 .. size |-> <<>>]]
      <4>1. \A k \in 1 .. size : (IF k <= Len(q) THEN BlockAt(q[k]) ELSE NoBlock) = <<>>
        BY <2>1, <3>1, <3>2 DEF NoBlock
      <4>2. QED
        BY <4>1
    <3>4. out' = [code |-> 0, blocks |-> [k \in 1 .. size |-> <<>>], listed |-> 0]
      BY <2>1, <2>14, <3>1, <3>3
    <3>5. Store!ReadFolder(d, n, size)
      BY <1>1, <2>9, <2>10, <2>14, <2>16, <3>4 DEF Store!ReadFolder, i
    <3>6. QED
      BY <1>1, <2>1, <2>11, <3>5, DepartingStep DEF Store!Departs
  <2>17. QED
    BY <2>3, <2>15, <2>16 DEF e
<1>4. QED
  BY <1>2, <1>3 DEF Read

\* write() is refused or begins; its effect comes with its last disk write.
LEMMA WriteStep ==
    ASSUME StoreInv, StoreInv', Benign, Next,
           NEW d, NEW n, NEW size, NEW p, Write(d, n, size, p)
    PROVE  Store!DriverNext
<1>1. call.op = "none" /\ (call'.op # "delete" => Dirs' = Dirs)
  BY WhenCalled DEF Write
<1>2. \/ \E code \in {-1, 1, 2} : out' = Answer(code) /\ call' = call
      \/ out' = Answer(Pending) /\ call'.op \in {"mkdir", "file"}
  <2>1. ASSUME NEW code \in {-1, 1, 2}, Reply(Answer(code))
        PROVE  out' = Answer(code) /\ call' = call
    BY <2>1 DEF Reply
  <2>2. CASE MakeDirectory(d, n)
    <3>1. CASE Reply(Answer(1))
      BY <2>1, <3>1
    <3>2. CASE \E q \in Allocation(fat, 1) : out' = Answer(1) /\ call' = call
      BY <3>2
    <3>3. ASSUME NEW q, NEW s, NEW r,
                 Enter([NoCall EXCEPT !.op = "mkdir", !.dir = d, !.slot = s, !.chain = q,
                                      !.parent = r])
          PROVE  out' = Answer(Pending) /\ call'.op = "mkdir"
      BY <3>3 DEF Enter, NoCall
    <3>4. QED
      BY <2>2, <3>1, <3>2, <3>3 DEF MakeDirectory
  <2>3. CASE MakeFile(d, n, size, p)
    <3>1. CASE Reply(Answer(1))
      BY <2>1, <3>1
    <3>2. ASSUME NEW q, NEW s, NEW r,
                 Enter([NoCall EXCEPT !.op = "file", !.dir = d, !.slot = s, !.chain = q,
                                      !.payload = <<p, 1>>, !.parent = r])
          PROVE  out' = Answer(Pending) /\ call'.op = "file"
      BY <3>2 DEF Enter, NoCall
    <3>3. QED
      BY <2>3, <3>1, <3>2 DEF MakeFile
  <2>4. QED
    BY <2>1, <2>2, <2>3 DEF Write
<1>3. CASE \E code \in {-1, 1, 2} : out' = Answer(code) /\ call' = call
  BY <1>1, <1>3, RefusedStep
<1>4. CASE out' = Answer(Pending) /\ call'.op \in {"mkdir", "file"}
  BY <1>1, <1>4, RefusedStep
<1>5. QED
  BY <1>2, <1>3, <1>4

\* delete() is refused, or has taken effect when its first disk write comes.
LEMMA DeleteStep ==
    ASSUME StoreInv, StoreInv', Benign, Next, NEW d, NEW n, Delete(d, n)
    PROVE  Store!DriverNext
<1>1. call.op = "none" /\ pc = "idle" /\ (call'.op # "delete" => Dirs' = Dirs)
  BY WhenCalled DEF Delete
<1>2. CASE call'.op = "delete"
  <2>1. TreeInv /\ call.op # "delete"
    BY <1>1 DEF StoreInv
  <2>2. PICK c \in Directories(table), m \in Names, s \in Slot \ {0},
             stray \in StrayWords, next \in {"erase_dir", "erase"} :
                /\ FirstMatch(table[c], m, s) /\ Remove(c, s, stray, next)
                /\ \/ table[c][s].attribute = "dir" /\ Vacant(table[table[c][s].cluster])
                   \/ table[c][s].attribute = "file"
    BY <1>2, <2>1, DeleteBegins
  <2>3. QED
    BY <1>1, <2>2, RemoveStep
<1>3. CASE call'.op # "delete"
  <2>1. \E code \in {-1, 2} : Reply(Answer(code))
    BY <1>3 DEF Delete, Remove, Enter, NoCall
  <2>2. QED
    BY <1>1, <1>3, <2>1, RefusedStep DEF Reply
<1>4. QED
  BY <1>2, <1>3

(***************************************************************************)
(* The refinement.                                                         *)
(***************************************************************************)

\* The disk of a new machine is a root without items.
LEMMA StoreInit == Init => Store!Init
<1> SUFFICES ASSUME Init PROVE Store!Init
  OBVIOUS
<1>1. TreeInv /\ ~HasRoot
  BY TreeInit DEF Init, HasRoot
<1>2. Dirs = [h \in {ROOT_CLUSTER_NUMBER} |-> Store!NewDirectory(RootName, ROOT_CLUSTER_NUMBER)]
  BY <1>1, HasRootFirst, FreshIs DEF Dirs
<1>3. /\ out = [code |-> Pending, blocks |-> <<>>, listed |-> 0]
      /\ (call.op = "delete") = FALSE
  BY DEF Init, Answer, NoCall
<1>4. QED
  BY <1>2, <1>3 DEF Store!Init

\* The disk writes before the last, and what the machine does by itself, are
\* silent; a loss of power leaves no trace.
LEMMA SilentStep ==
    ASSUME StoreInv, StoreInv', Benign, Next, ~Request, ~FlushParent
    PROVE  Store!DriverNext \/ UNCHANGED Store!vars
<1>1. call \in Calls
  BY TreeTypes DEF StoreInv, TreeInv
<1>2. CASE PowerFails
  <2>1. call.op # "delete" /\ call'.op # "delete" /\ out' = Answer(Pending)
    <3>1. CASE pc \in {"idle", "lost", "format_fat", "format_root"}
      BY <1>2, <3>1, WhenIdle DEF StoreInv, PowerFails, NoCall
    <3>2. CASE pc \notin {"idle", "lost", "format_fat", "format_root"}
      BY <1>2, <3>2 DEF PowerFails, Benign, Activity, NoCall
    <3>3. QED
      BY <3>1, <3>2
  <2>2. Unmoved /\ FreshInv'
    BY <1>2, TreePower DEF StoreInv, TreeInv
  <2>3. Dirs' = Dirs
    BY <2>2, DirsKept DEF StoreInv
  <2>4. QED
    BY <2>1, <2>3, RefusedStep
<1>3. CASE ~PowerFails
  <2>1. out' = out
    BY <1>3 DEF Next, Step, MountSigned, SignDisk, FormatFat, FormatRoot, WriteNewTable,
                WriteContent, FlushFat, EraseDirectory, EraseCluster, EraseLast
  <2>2. call'.op = call.op
    BY <1>1, <1>3
       DEF Calls, Next, Step, MountSigned, SignDisk, FormatFat, FormatRoot, WriteNewTable,
           WriteContent, FlushFat, EraseDirectory, EraseCluster, EraseLast
  <2>3. Dirs' = Dirs
    <3>1. CASE FormatRoot
      BY <3>1, DirsFormat
    <3>2. CASE ~FormatRoot
      <4>1. Unmoved
        BY <2>2, <3>2, TreeStays DEF StoreInv
      <4>2. QED
        BY <4>1, DirsKept DEF StoreInv, TreeInv
    <3>3. QED
      BY <3>1, <3>2
  <2>4. QED
    BY <2>1, <2>2, <2>3, QuietStep
<1>4. QED
  BY <1>2, <1>3

\* Every step of the driver is one of the store's or leaves the store as it is.
LEMMA StoreNext ==
    ASSUME StoreInv, StoreInv', Benign, [Next]_vars
    PROVE  [Store!DriverNext]_(Store!vars)
<1>1. CASE Next /\ Request
  <2>1. CASE \E d \in Directories(table), n \in Names \cup {NoName, RootName}, size \in {0, 1} :
                ReadDirectory(d, n, size)
    BY <1>1, <2>1, ListStep
  <2>2. CASE \E d \in Directories(table), n \in Names \cup {NoName}, size \in {0} \cup Lengths :
                Read(d, n, size)
    BY <1>1, <2>2, ReadStep
  <2>3. CASE \E d \in Directories(table) \cup {0}, n \in Names \cup {NoName},
                size \in {0} \cup Lengths, p \in Payloads : Write(d, n, size, p)
    BY <1>1, <2>3, WriteStep
  <2>4. CASE \E d \in Directories(table), n \in Names \cup {NoName} : Delete(d, n)
    BY <1>1, <2>4, DeleteStep
  <2>5. QED
    BY <1>1, <2>1, <2>2, <2>3, <2>4 DEF Request
<1>2. CASE Next /\ FlushParent
  <2>1. call.op \in {"none", "mkdir", "file", "delete"}
    BY TreeTypes DEF StoreInv, TreeInv, Calls
  <2>2. CASE call.op = "mkdir"
    BY <1>2, <2>2, FolderStep
  <2>3. CASE call.op = "file"
    BY <1>2, <2>3, FileStep
  <2>4. CASE call.op \in {"none", "delete"}
    <3>1. Unmoved
      BY <1>2, <2>4, TreeStays DEF StoreInv, FlushParent, FormatRoot, Return, NoCall
    <3>2. Dirs' = Dirs
      BY <3>1, DirsKept DEF StoreInv, TreeInv
    <3>3. call.op = "delete"
      BY <1>2, <2>4 DEF FlushParent, StoreInv, TreeInv, Waiting
    <3>4. QED
      BY <1>2, <3>2, <3>3, AcknowledgeStep
  <2>5. QED
    BY <2>1, <2>2, <2>3, <2>4
<1>3. CASE Next /\ ~Request /\ ~FlushParent
  BY <1>3, SilentStep
<1>4. CASE UNCHANGED vars
  <2>1. UNCHANGED <<Dirs, out, call>>
    BY <1>4 DEF vars, Dirs, Formatted, TreeOnDisk, FreshTree, ItemOf, BlockAt, Shown
  <2>2. QED
    BY <2>1, QuietStep
<1>5. QED
  BY <1>1, <1>2, <1>3, <1>4

\* A call that succeeds takes effect once and for good, one that is refused or cut
\* off by a loss of power leaves no trace, and what was written is read: unless the
\* power fails inside a delete or a format, every step of the driver is one of the
\* store or one of its three departures.
THEOREM StoreImplemented == Benign => (Spec => ImplementsStore)
<1> SUFFICES ASSUME Benign PROVE Spec => ImplementsStore
  OBVIOUS
<1>1. Init => StoreInv /\ Store!Init
  BY StoreInvInit, StoreInit
<1>2. StoreInv /\ [Next]_vars => StoreInv'
  BY StoreInvNext
<1>3. StoreInv /\ StoreInv' /\ [Next]_vars => [Store!DriverNext]_(Store!vars)
  BY StoreNext
<1>4. QED
  BY <1>1, <1>2, <1>3, PTL DEF Spec, ImplementsStore, Store!DriverSpec

\* To a caller who does not write a name that exists, or into a full directory, and
\* who reads no folder as a file, the driver keeps the promise of fat32.h.
THEOREM PromiseKept == Benign => (Spec /\ [][~Store!Departure]_vars => Store!Spec)
<1> SUFFICES ASSUME Benign PROVE Spec /\ [][~Store!Departure]_vars => Store!Spec
  OBVIOUS
<1>1. Init => StoreInv /\ Store!Init
  BY StoreInvInit, StoreInit
<1>2. StoreInv /\ [Next]_vars => StoreInv'
  BY StoreInvNext
<1>3. StoreInv /\ StoreInv' /\ [Next]_vars /\ [~Store!Departure]_vars
         => [Store!Next]_(Store!vars)
  <2> SUFFICES ASSUME StoreInv, StoreInv', [Next]_vars, [~Store!Departure]_vars
               PROVE  [Store!Next]_(Store!vars)
    OBVIOUS
  <2>1. [Store!DriverNext]_(Store!vars)
    BY StoreNext
  <2>2. CASE UNCHANGED vars
    <3>1. UNCHANGED <<Dirs, out, call>>
      BY <2>2 DEF vars, Dirs, Formatted, TreeOnDisk, FreshTree, ItemOf, BlockAt, Shown
    <3>2. QED
      BY <3>1, QuietStep
  <2>3. QED
    BY <2>1, <2>2 DEF Store!DriverNext
<1>4. QED
  BY <1>1, <1>2, <1>3, PTL DEF Spec, Store!Spec
=============================================================================
