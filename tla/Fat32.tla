------------------------------- MODULE Fat32 -------------------------------
(***************************************************************************)
(* The FAT32 driver of the kernel (src/src/filesystem/fat32.c) on the disk *)
(* it drives, split at its disk writes: every write_clusters() call is one *)
(* step, so that the power may fail between any two of them.  System calls *)
(* run with interrupts disabled, so the steps of one call are never mixed  *)
(* with those of another one.                                              *)
(*                                                                         *)
(* What a cluster's bytes are is seen through two functions: "table" is    *)
(* what they read as when a directory table is read there, "data" what     *)
(* they read as when a file is.  Cleared bytes are a table of free slots;  *)
(* so are the bytes of a file, because a byte of text is never             *)
(* UATTR_NOT_EMPTY (0xAA).                                                 *)
(***************************************************************************)
EXTENDS Fat32Data

VARIABLES
    signature,  \* on disk: does the boot sector hold fs_signature?
    diskFat,    \* on disk: cluster 1, the file allocation table
    table,      \* on disk: each further cluster, read as a directory table
    data,       \* on disk: each further cluster, read as a block of a file
    fat,        \* in memory: driver_state.fat_table.cluster_map
    pc,         \* the disk write that comes next, or "idle", "off", "lost"
    call,       \* in memory: the local variables of the call being served
    out         \* what the last call returned: its code and its buffer

disk == <<signature, diskFat, table, data>>
vars == <<signature, diskFat, table, data, fat, pc, call, out>>

(***************************************************************************)
(* Calls                                                                   *)
(***************************************************************************)
NoCall == [op |-> "none", dir |-> 0, slot |-> 0, parent |-> EmptyTable,
           chain |-> <<>>, payload |-> <<>>, cluster |-> 0, stray |-> 0]

Calls == [op      : {"none", "mkdir", "file", "delete"},
          dir     : Cell,            \* request.parent_cluster_number
          slot    : Slot,            \* the index in the parent's table
          parent  : Table,           \* parent_table, as it will be written
          chain   : Seq(Cluster),    \* empty_fat_clusters
          payload : {<<>>} \cup (Payloads \X Nat),   \* the next block to write
          cluster : FatValue,        \* cluster_number
          stray   : StrayWords]      \* the word beyond the map, during the call

Pending      == 4   \* no error code of the driver: no call has returned
Answer(code) == [code |-> code, blocks |-> <<>>, listed |-> 0]

\* The call returns at once, having changed nothing.
Reply(answer) ==
    /\ out' = answer
    /\ UNCHANGED <<disk, fat, pc, call>>

\* A successful return: the stack frame is gone.
Return ==
    /\ out' = Answer(0)
    /\ call' = NoCall
    /\ pc' = "idle"

(***************************************************************************)
(* Power: boot (initialize_filesystem_fat32) and its loss.  A machine that *)
(* starts has driver_state zeroed; create_fat32 signs the disk first.      *)
(***************************************************************************)
Init ==
    /\ signature = FALSE
    /\ diskFat = EmptyFat
    /\ table = [c \in Cluster |-> EmptyTable]
    /\ data = [c \in Cluster |-> NoBlock]
    /\ fat = EmptyFat
    /\ pc = "off"
    /\ call = NoCall
    /\ out = Answer(Pending)

\* Fault: a signed disk's FAT is not loaded.
MountSignedUnread ==
    /\ pc = "off" /\ signature
    /\ pc' = "idle"
    /\ UNCHANGED <<disk, fat, call, out>>

MountSigned ==
    /\ pc = "off" /\ signature
    /\ fat' = diskFat
    /\ pc' = "idle"
    /\ UNCHANGED <<disk, call, out>>

SignDisk ==
    /\ pc = "off" /\ ~signature
    /\ signature' = TRUE
    /\ fat' = [fat EXCEPT ![0] = CLUSTER_0_VALUE,
                          ![1] = FAT32_FAT_END_OF_FILE,
                          ![ROOT_CLUSTER_NUMBER] = FAT32_FAT_END_OF_FILE]
    /\ pc' = "format_fat"
    /\ UNCHANGED <<diskFat, table, data, call, out>>

FormatFat ==
    /\ pc = "format_fat"
    /\ diskFat' = fat
    /\ pc' = "format_root"
    /\ UNCHANGED <<signature, table, data, fat, call, out>>

FormatRoot ==
    /\ pc = "format_root"
    /\ table' = [table EXCEPT ![ROOT_CLUSTER_NUMBER] = NewTable(RootName, ROOT_CLUSTER_NUMBER)]
    /\ data' = [data EXCEPT ![ROOT_CLUSTER_NUMBER] = NoBlock]
    /\ pc' = "idle"
    /\ UNCHANGED <<signature, diskFat, fat, call, out>>

Activity == CASE pc \in {"idle", "lost"} -> "idle"
              [] pc \in {"format_fat", "format_root"} -> "format"
              [] OTHER -> call.op

\* The disk keeps what was written; everything in memory is gone.  The blocks of
\* a cluster are written one by one.  Of a table one entry changes, so it is the
\* old or the new one, and nothing refers yet to the other clusters that a write
\* fills; but the FAT may be left in parts.
PowerFails ==
    /\ pc # "off" /\ Activity \in PowerFailsIn
    /\ fat' = EmptyFat
    /\ pc' = "off"
    /\ call' = NoCall
    /\ out' = Answer(Pending)
    /\ \/ UNCHANGED diskFat
       \/ pc \in {"format_fat", "flush_fat"} /\ \E n \in FatBlocks : diskFat' = Torn(diskFat, fat, n)
    /\ UNCHANGED <<signature, table, data>>

(***************************************************************************)
(* read_directory and read                                                 *)
(***************************************************************************)
ReadDirectory(d, n, size) ==
    /\ pc = "idle" /\ "read_directory" \in Requests
    /\ \/ n = NoName /\ Reply(Answer(-1))
       \/ n # NoName /\ size # 0 /\ Reply(Answer(1))
       \/ n # NoName /\ size = 0 /\ Folders(table[d], n) = {} /\ Reply(Answer(2))
       \/ /\ n # NoName /\ size = 0
          /\ \E s \in Slot :
                /\ FirstFolder(table[d], n, s)
                /\ Reply([Answer(0) EXCEPT !.listed = table[d][s].cluster])

BlockAt(c) == IF c \in Cluster THEN data[c] ELSE NoBlock

\* The first match decides, whatever its attribute is.  The caller's buffer has
\* room for "size" clusters; what lies behind the chain's is left as it was.
ReadChain(c, size) ==
    \E stray \in StrayWords :
       LET q == Chain(fat, c, stray) IN
       \/ /\ Ends(fat, q, stray)
          /\ Reply(IF Len(q) > size THEN Answer(2)
                   ELSE [Answer(0) EXCEPT !.blocks =
                            [k \in 1 .. size |-> IF k <= Len(q) THEN BlockAt(q[k]) ELSE NoBlock]])
       \/ /\ ~Ends(fat, q, stray)
          /\ pc' = "lost" /\ out' = Answer(Pending)
          /\ UNCHANGED <<disk, fat, call>>

Read(d, n, size) ==
    /\ pc = "idle" /\ "read" \in Requests
    /\ \/ n = NoName /\ Reply(Answer(-1))
       \/ n # NoName /\ size = 0 /\ Reply(Answer(1))
       \/ n # NoName /\ size # 0 /\ Matches(table[d], n) = {} /\ Reply(Answer(3))
       \/ /\ n # NoName /\ size # 0
          /\ \E s \in Slot : FirstMatch(table[d], n, s) /\ ReadChain(table[d][s].cluster, size)

(***************************************************************************)
(* write                                                                   *)
(***************************************************************************)
Entry(n, attribute, c, size) ==
    [name |-> n, attribute |-> attribute, cluster |-> c, filesize |-> size]

Enter(c) == call' = c /\ out' = Answer(Pending)

\* The search for a free cluster leaves i one past the cluster it found, so
\* finding the last one is taken for finding none; its cell stays marked.
MakeDirectory(d, n) ==
    \/ Free(fat) = {} /\ Reply(Answer(1))
    \/ \E q \in Allocation(fat, 1) :
          /\ fat' = [fat EXCEPT ![q[1]] = FAT32_FAT_END_OF_FILE]
          /\ \/ /\ q[1] + 1 = CLUSTER_MAP_SIZE
                /\ out' = Answer(1)
                /\ UNCHANGED <<disk, pc, call>>
             \/ /\ q[1] + 1 < CLUSTER_MAP_SIZE
                /\ \E s \in Slot :
                      /\ TakesSlot(table[d], s)
                      /\ Enter([NoCall EXCEPT
                            !.op = "mkdir", !.dir = d, !.slot = s, !.chain = q,
                            !.parent = [table[d] EXCEPT ![s] = Entry(n, "dir", q[1], 0)]])
                /\ pc' = "new_table"
                /\ UNCHANGED disk

MakeFile(d, n, size, p) ==
    \/ Cardinality(Free(fat)) < size /\ Reply(Answer(1))
    \/ \E q \in Allocation(fat, size), s \in Slot :
          /\ TakesSlot(table[d], s)
          /\ fat' = Linked(fat, q)
          /\ Enter([NoCall EXCEPT
                !.op = "file", !.dir = d, !.slot = s, !.chain = q, !.payload = <<p, 1>>,
                !.parent = [table[d] EXCEPT ![s] = Entry(n, "file", q[1], size)]])
          /\ pc' = "content"
          /\ UNCHANGED disk

\* buffer_size = 0 asks for a directory.
Write(d, n, size, p) ==
    /\ pc = "idle" /\ "write" \in Requests
    /\ \/ n = NoName /\ Reply(Answer(-1))
       \/ n # NoName /\ d < ROOT_CLUSTER_NUMBER /\ Reply(Answer(2))
       \/ n # NoName /\ d >= ROOT_CLUSTER_NUMBER /\ size = 0 /\ MakeDirectory(d, n)
       \/ n # NoName /\ d >= ROOT_CLUSTER_NUMBER /\ size # 0 /\ MakeFile(d, n, size, p)

\* write_clusters() of a table and of a block of a file, where clusters hold them.
PutTable(c, t) ==
    /\ table' = [table EXCEPT ![c] = t]
    /\ data' = [data EXCEPT ![c] = NoBlock]
PutBlock(c, b) ==
    /\ table' = [table EXCEPT ![c] = EmptyTable]
    /\ data' = [data EXCEPT ![c] = b]

WriteNewTable ==
    /\ pc = "new_table"
    /\ PutTable(call.chain[1], NewTable(call.parent[call.slot].name, call.chain[1]))
    /\ pc' = "flush_fat"
    /\ UNCHANGED <<signature, diskFat, fat, call, out>>

\* Fault: the last block of a file is not written.
WriteContentShort ==
    /\ pc = "content"
    /\ LET i == call.payload[2] IN
       /\ PutBlock(call.chain[i], call.payload)
       /\ IF i + 1 < Len(call.chain)
          THEN call' = [call EXCEPT !.payload[2] = i + 1] /\ pc' = "content"
          ELSE call' = call /\ pc' = "flush_fat"
    /\ UNCHANGED <<signature, diskFat, fat, out>>

WriteContent ==
    /\ pc = "content"
    /\ LET i == call.payload[2] IN
       /\ PutBlock(call.chain[i], call.payload)
       /\ IF i < Len(call.chain)
          THEN call' = [call EXCEPT !.payload[2] = i + 1] /\ pc' = "content"
          ELSE call' = call /\ pc' = "flush_fat"
    /\ UNCHANGED <<signature, diskFat, fat, out>>

\* Fault: the FAT is not saved.
FlushFatSkipped ==
    /\ pc = "flush_fat"
    /\ pc' = "flush_parent"
    /\ UNCHANGED <<disk, fat, call, out>>

\* How write() and delete() end: first the FAT, then the parent's table.
FlushFat ==
    /\ pc = "flush_fat"
    /\ diskFat' = fat
    /\ pc' = "flush_parent"
    /\ UNCHANGED <<signature, table, data, fat, call, out>>

FlushParent ==
    /\ pc = "flush_parent"
    /\ PutTable(call.dir, call.parent)
    /\ Return
    /\ UNCHANGED <<signature, diskFat, fat>>

(***************************************************************************)
(* delete                                                                  *)
(***************************************************************************)
\* Fault: the entry's attributes are cleared, its name is not.
RemoveKeepsName(d, s, stray, next) ==
    /\ Enter([NoCall EXCEPT
          !.op = "delete", !.dir = d, !.slot = s, !.stray = stray,
          !.cluster = table[d][s].cluster,
          !.parent = [table[d] EXCEPT ![s].attribute = "none"]])
    /\ pc' = next
    /\ UNCHANGED <<disk, fat>>

Remove(d, s, stray, next) ==
    /\ Enter([NoCall EXCEPT
          !.op = "delete", !.dir = d, !.slot = s, !.stray = stray,
          !.cluster = table[d][s].cluster,
          !.parent = [table[d] EXCEPT ![s] = FreeEntry]])
    /\ pc' = next
    /\ UNCHANGED <<disk, fat>>

\* A name that is not found leaves error_code as it was initialised.
Delete(d, n) ==
    /\ pc = "idle" /\ "delete" \in Requests
    /\ \/ n = NoName /\ Reply(Answer(-1))
       \/ n # NoName /\ Matches(table[d], n) = {} /\ Reply(Answer(-1))
       \/ /\ n # NoName
          /\ \E s \in Slot, stray \in StrayWords :
                /\ FirstMatch(table[d], n, s)
                /\ LET e == table[d][s] IN
                   \/ e.attribute = "dir" /\ ~Vacant(table[e.cluster]) /\ Reply(Answer(2))
                   \/ e.attribute = "dir" /\ Vacant(table[e.cluster])
                         /\ Remove(d, s, stray, "erase_dir")
                   \/ e.attribute = "file" /\ Remove(d, s, stray, "erase")

\* write_clusters() of zeroes over cluster c, wherever that is.
Zero(c) ==
    /\ signature' = (signature /\ c # 0)
    /\ diskFat' = IF c = 1 THEN EmptyFat ELSE diskFat
    /\ table' = [x \in Cluster |-> IF x = c THEN EmptyTable ELSE table[x]]
    /\ data' = [x \in Cluster |-> IF x = c THEN NoBlock ELSE data[x]]

\* cluster_map with cell c cleared.
Cleared(f, c) == [x \in Cell |-> IF x = c THEN FAT32_FAT_EMPTY_ENTRY ELSE f[x]]
ClearedStray(c) == IF c \in Cell THEN call.stray ELSE FAT32_FAT_EMPTY_ENTRY

EraseDirectory ==
    /\ pc = "erase_dir"
    /\ Zero(call.cluster)
    /\ fat' = Cleared(fat, call.cluster)
    /\ pc' = "flush_fat"
    /\ UNCHANGED <<call, out>>

\* Fault: the cell is cleared before the next cluster is read from it.
EraseClusterSwapped ==
    /\ pc = "erase"
    /\ Zero(call.cluster)
    /\ fat' = Cleared(fat, call.cluster)
    /\ LET stray == ClearedStray(call.cluster)
           next  == Lookup(fat', call.cluster, stray)
       IN  /\ call' = [call EXCEPT !.cluster = next, !.stray = stray]
           /\ pc' = IF Lookup(fat', next, stray) # FAT32_FAT_END_OF_FILE
                    THEN "erase" ELSE "erase_last"
    /\ UNCHANGED out

\* One round of the do-while: its test looks one cell ahead.
EraseCluster ==
    /\ pc = "erase"
    /\ Zero(call.cluster)
    /\ fat' = Cleared(fat, call.cluster)
    /\ LET next  == Lookup(fat, call.cluster, call.stray)
           stray == ClearedStray(call.cluster)
       IN  /\ call' = [call EXCEPT !.cluster = next, !.stray = stray]
           /\ pc' = IF Lookup(fat', next, stray) # FAT32_FAT_END_OF_FILE
                    THEN "erase" ELSE "erase_last"
    /\ UNCHANGED out

\* Faults: the cell of the last cluster is not cleared; the FAT is not saved.
EraseLastKeepsCell ==
    /\ pc = "erase_last"
    /\ Zero(call.cluster)
    /\ pc' = "flush_fat"
    /\ UNCHANGED <<fat, call, out>>
EraseLastUnsaved ==
    /\ pc = "erase_last"
    /\ Zero(call.cluster)
    /\ fat' = Cleared(fat, call.cluster)
    /\ pc' = "flush_parent"
    /\ UNCHANGED <<call, out>>

EraseLast ==
    /\ pc = "erase_last"
    /\ Zero(call.cluster)
    /\ fat' = Cleared(fat, call.cluster)
    /\ pc' = "flush_fat"
    /\ UNCHANGED <<call, out>>

(***************************************************************************)
(* The machine                                                             *)
(***************************************************************************)
Request ==
    \/ \E d \in Directories(table), n \in Names \cup {NoName, RootName}, size \in {0, 1} :
          ReadDirectory(d, n, size)
    \/ \E d \in Directories(table), n \in Names \cup {NoName}, size \in {0} \cup Lengths :
          Read(d, n, size)
    \/ \E d \in Directories(table) \cup {0}, n \in Names \cup {NoName},
          size \in {0} \cup Lengths, p \in Payloads : Write(d, n, size, p)
    \/ \E d \in Directories(table), n \in Names \cup {NoName} : Delete(d, n)

\* What the processor does next once the machine is on and a call is made.
Step ==
    \/ FormatFat \/ FormatRoot
    \/ WriteNewTable \/ WriteContent \/ FlushFat \/ FlushParent
    \/ EraseDirectory \/ EraseCluster \/ EraseLast

Next == MountSigned \/ SignDisk \/ Request \/ Step \/ PowerFails

Spec     == Init /\ [][Next]_vars
FairSpec == Spec /\ WF_vars(Step)
=============================================================================
